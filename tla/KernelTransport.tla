--------------------------- MODULE KernelTransport ---------------------------
(* The broker between a kernel and its renderers (kernel/src/transport.ts),  *)
(* the renderer's replica (client.ts) and the kernel's revisions that feed   *)
(* them (kernel.ts: dispatch, restore, syncExternal, program patches).       *)
(*                                                                           *)
(* The broker keeps a bounded log of patches.  A connection is onboarded by  *)
(* a replay of the log or by vocabulary, program and snapshot, one awaited   *)
(* send after the other, while patches are broadcast to every connection.    *)
(* A step is what happens between two awaits; sending is delivering, except  *)
(* over a link that is down.                                                 *)
EXTENDS Integers, FiniteSets, Sequences

CONSTANTS TrClients,      \* the renderers
          MaxLog,         \* KernelTransportHost.maxLog
          TrScenarios     \* the bounds to look at: which renderers attach, who changes the kernel,
                          \* revisions it commits, connections ever attached, and rare events:
                          \* failures, checkpoints, revisions and patches without content

ASSUME TrAssumption ==
    /\ MaxLog \in Nat \ {0}
    /\ TrScenarios \subseteq [clients : SUBSET TrClients, by : SUBSET {"host", "direct"},
                             revs : Nat, conns : Nat, rare : Nat]

VARIABLES
    kernel,    \* revision, store and program, the mutation under way, a checkpoint
    hist,      \* what each revision was (history)
    broker,    \* KernelTransportHost: log, baselined, dispatchQueue, outboundQueue, connections
    conn,      \* every connection attached so far
    replica,   \* GIKClient: revision, store and program
    disturbed, \* the renderers whose stream of patches was disturbed (history)
    left     \* how many of those are left

trVars == <<kernel, hist, broker, conn, replica, disturbed, left>>

Keys == {"machine", "value", "program"}     \* a machine's state, another path, the program
Data == {"machine", "value"}
Nothing == [k \in Keys |-> -1]
NoContent == [k \in {} |-> -1]
NoneUnderWay == [by |-> "none", sets |-> NoContent]
Set(state, sets) == [k \in Keys |-> IF k \in DOMAIN sets THEN sets[k] ELSE state[k]]
Only(state, keys) == [k \in keys |-> state[k]]

TrInit ==
    /\ kernel = [rev |-> 0, state |-> [machine |-> -1, value |-> 0, program |-> 0],
                 mutation |-> NoneUnderWay, saved |-> Nothing]
    /\ hist = <<kernel.state>>
    /\ broker = [log |-> <<>>, baselined |-> FALSE, poisoned |-> FALSE, waits |-> 0,
                 out |-> <<>>, served |-> {}, conns |-> {}]
    /\ conn = <<>>
    /\ replica = [c \in TrClients |-> [rev |-> -1, state |-> Nothing]]
    /\ disturbed = {}
    /\ left \in TrScenarios

Rare == left.rare > 0 /\ left' = [left EXCEPT !.rare = @ - 1]

------------------------------------------------------------------------------
(* The kernel: one mutation at a time writes the store and then commits.       *)

Snapshot == [rev |-> kernel.rev, sets |-> Only(kernel.state, Data)]

(* ensureBaseline: the first attach or dispatch seeds the machines. *)
Baseline ==
    IF broker.baselined THEN kernel.state
    ELSE [kernel.state EXCEPT !.machine = 0]
BaselinedLog ==
    IF broker.baselined THEN broker.log
    ELSE Append(broker.log, [rev |-> kernel.rev, sets |-> Only(Baseline, Data)])
BaselinedHist == [hist EXCEPT ![kernel.rev + 1] =
    IF broker.baselined \/ kernel.mutation.by # "none" THEN @ ELSE Baseline]

(* Appending to the log: a log that is full loses its first patch, and every
   replay that walks over it skips one.  The baseline comes on top of a full
   log and loses nothing. *)
Logged(log, patch) == IF Len(log) >= MaxLog THEN Append(Tail(log), patch) ELSE Append(log, patch)
Shifted ==
    {i \in DOMAIN conn : /\ conn[i].phase = "replay" /\ Len(broker.log) >= MaxLog
                         /\ conn[i].next <= Len(broker.log)}

BeginMutation(by, sets) ==
    /\ kernel.mutation.by = "none" /\ kernel.rev < left.revs
    /\ kernel' = [kernel EXCEPT !.state = Set(@, sets), !.mutation = [by |-> by, sets |-> sets]]

Fresh(keys) == [k \in keys |-> kernel.rev + 1]

(* An event that arrives through the broker waits for the dispatches before it. *)
HostDispatch(keys) ==
    /\ "host" \in left.by /\ ~broker.poisoned /\ broker.waits = 0
    /\ kernel.mutation.by = "none" /\ kernel.rev < left.revs
    /\ kernel' = [kernel EXCEPT !.state = Set(Baseline, Fresh(keys)),
                                !.mutation = [by |-> "host", sets |-> Fresh(keys)]]
    /\ broker' = [broker EXCEPT !.log = BaselinedLog, !.baselined = TRUE]
    /\ hist' = BaselinedHist
    /\ UNCHANGED <<conn, replica, disturbed, left>>

(* Settlements, program patches, publications and other direct callers. *)
DirectMutation(keys) ==
    /\ "direct" \in left.by
    /\ BeginMutation("direct", Fresh(keys))
    /\ UNCHANGED <<hist, broker, conn, replica, disturbed, left>>

TakeCheckpoint ==
    /\ Rare /\ kernel.mutation.by = "none" /\ kernel.saved = Nothing
    /\ kernel' = [kernel EXCEPT !.saved = kernel.state]
    /\ UNCHANGED <<hist, broker, conn, replica, disturbed>>

Restore ==
    /\ kernel.saved # Nothing
    /\ LET keys == Data \cup {k \in {"program"} : kernel.saved[k] # kernel.state[k]}
       IN BeginMutation("direct", Only(kernel.saved, keys))
    /\ UNCHANGED <<hist, broker, conn, replica, disturbed, left>>

(* onKernelPatch: the log and the outbound queue take the patch. *)
Published(patch) ==
    /\ broker' = [broker EXCEPT !.log = Logged(@, patch), !.out = Append(@, patch),
                     !.waits = IF kernel.mutation.by = "host" THEN Len(broker.out) + 1 ELSE @]
    /\ disturbed' = IF kernel.mutation.by = "torn" THEN TrClients
                    ELSE disturbed \cup {conn[i].owner : i \in Shifted}

CommitPatch ==
    /\ kernel.mutation.by # "none"
    /\ kernel' = [kernel EXCEPT !.rev = @ + 1, !.mutation = NoneUnderWay]
    /\ hist' = Append(hist, kernel.state)
    /\ Published([rev |-> kernel.rev + 1, sets |-> kernel.mutation.sets])
    /\ UNCHANGED <<conn, replica, left>>

(* A graph transition that only fires effects takes a revision and publishes
   nothing. *)
CommitQuietly ==
    /\ Rare /\ kernel.mutation.by = "none" /\ kernel.rev < left.revs
    /\ kernel' = [kernel EXCEPT !.rev = @ + 1]
    /\ hist' = Append(hist, kernel.state)
    /\ UNCHANGED <<broker, conn, replica, disturbed>>

(* syncExternal publishes also when nothing has changed. *)
SyncNothing ==
    /\ Rare /\ kernel.mutation.by = "none"
    /\ Published([rev |-> kernel.rev, sets |-> NoContent])
    /\ UNCHANGED <<kernel, hist, conn, replica>>

(* A mutation that throws leaves what it wrote; no patch tells of it.  Every
   later dispatch of the broker is chained to the one that was rejected. *)
MutationThrows ==
    /\ Rare /\ kernel.mutation.by # "none"
    /\ kernel' = [kernel EXCEPT !.mutation = NoneUnderWay]
    /\ broker' = [broker EXCEPT !.poisoned = @ \/ kernel.mutation.by = "host"]
    /\ disturbed' = TrClients
    /\ hist' = [hist EXCEPT ![kernel.rev + 1] = kernel.state]
    /\ UNCHANGED <<conn, replica>>

------------------------------------------------------------------------------
(* The renderer's replica.                                                     *)

Renew(held) == [rev |-> -1, state |-> [Nothing EXCEPT !.program = held.state.program]]
WithProgram(held, program) == [held EXCEPT !.state.program = program]
PatchedAlways(held, patch) == [rev |-> patch.rev, state |-> Set(held.state, patch.sets)]
PatchedUnlessHeld(held, patch) ==                                                      
    IF patch.rev = held.rev THEN held ELSE PatchedAlways(held, patch)
Patched(held, patch) ==
    IF patch.rev # 0 /\ patch.rev <= held.rev THEN held
    ELSE [rev |-> patch.rev,
          state |-> Set(held.state, IF held.state.program = -1
                                    THEN Only(patch.sets, DOMAIN patch.sets \ {"program"})
                                    ELSE patch.sets)]

Received(i, held) ==
    replica' = IF conn[i].up THEN [replica EXCEPT ![conn[i].owner] = held] ELSE replica
Replica(i) == replica[conn[i].owner]

------------------------------------------------------------------------------
(* Connections.                                                                *)

(* The log position a replay sends next, or one past the log. *)
NextReplay(log, from, at) ==
    LET rest == {j \in at..Len(log) : log[j].rev > from}
    IN IF rest = {} THEN Len(log) + 1 ELSE CHOOSE j \in rest : \A l \in rest : j <= l

(* Onboarded, or never to be: what the onboarding knew is forgotten. *)
Open(i) == [conn[i] EXCEPT !.phase = "open", !.from = -2, !.next = 0, !.program = -1]

Linked(c) == \E i \in DOMAIN conn : conn[i].owner = c /\ conn[i].up

(* attach, up to the first await: the connection is registered before it is
   onboarded.  A renderer that reconnects names its revision.  attach does not
   wait for the kernel: the baseline may undo what a mutation has just written. *)
Attach(c) ==
    /\ ~Linked(c) /\ c \in left.clients /\ Len(conn) < left.conns
    /\ \E from \in {-2, replica[c].rev} :
       LET log == BaselinedLog
           resumes == from >= log[1].rev /\ from <= log[Len(log)].rev
           j == NextReplay(log, from, 1)
       IN /\ conn' = Append(conn,
                IF resumes
                THEN IF j > Len(log)
                     THEN [owner |-> c, up |-> TRUE, from |-> -2, next |-> 0, program |-> -1, phase |-> "open"]
                     ELSE [owner |-> c, up |-> TRUE, from |-> from, next |-> j + 1, program |-> -1,
                           phase |-> "replay"]
                ELSE [owner |-> c, up |-> TRUE, from |-> -2, next |-> 0,
                      program |-> kernel.state.program, phase |-> "vocabulary"])
          /\ replica' = [replica EXCEPT ![c] =
                IF ~resumes THEN Renew(@) ELSE IF j > Len(log) THEN @ ELSE Patched(@, log[j])]
          /\ disturbed' = IF resumes THEN disturbed ELSE disturbed \ {c}
          /\ broker' = [broker EXCEPT !.log = log, !.baselined = TRUE, !.conns = @ \cup {Len(conn) + 1}]
    /\ kernel' = [kernel EXCEPT !.state = Baseline,
                                !.mutation.by = IF kernel.state # Baseline /\ @ # "none" THEN "torn" ELSE @]
    /\ hist' = BaselinedHist
    /\ UNCHANGED left

Replay(i) ==
    /\ conn[i].phase = "replay"
    /\ LET j == NextReplay(broker.log, conn[i].from, conn[i].next)
       IN IF j > Len(broker.log)
          THEN conn' = [conn EXCEPT ![i] = Open(i)] /\ UNCHANGED replica
          ELSE /\ conn' = [conn EXCEPT ![i].next = j + 1]
               /\ Received(i, Patched(Replica(i), broker.log[j]))
    /\ UNCHANGED <<kernel, hist, broker, disturbed, left>>

SendProgram(i) ==
    /\ conn[i].phase = "vocabulary"
    /\ conn' = [conn EXCEPT ![i].phase = "program"]
    /\ Received(i, WithProgram(Replica(i), conn[i].program))
    /\ UNCHANGED <<kernel, hist, broker, disturbed, left>>

(* The program was read two awaits before the snapshot. *)
SendSnapshot(i) ==
    /\ conn[i].phase = "program"
    /\ conn' = [conn EXCEPT ![i] = Open(i)]
    /\ Received(i, Patched(Replica(i), Snapshot))
    /\ disturbed' = IF conn[i].program = hist[kernel.rev + 1].program THEN disturbed
                  ELSE disturbed \cup {conn[i].owner}
    /\ UNCHANGED <<kernel, hist, broker, left>>

(* A send of the onboarding rejects: attach rejects, the connection stays. *)
OnboardingFails(i) ==
    /\ Rare /\ conn[i].phase \in {"replay", "vocabulary", "program"}
    /\ conn' = [conn EXCEPT ![i] = [Open(i) EXCEPT !.phase = "failed"]]
    /\ disturbed' = disturbed \cup {conn[i].owner}
    /\ UNCHANGED <<kernel, hist, broker, replica>>

(* The renderer loses the link or leaves it for another.  The server's cleanup
   is registered when attach has returned: before that the connection stays. *)
Closed(i) ==
    /\ conn[i].up
    /\ conn' = [conn EXCEPT ![i] = [Open(i) EXCEPT !.up = FALSE]]
    /\ broker' = IF conn[i].phase = "open"
                 THEN [broker EXCEPT !.conns = @ \ {i}, !.served = @ \ {i}] ELSE broker
    /\ UNCHANGED <<kernel, hist, replica, disturbed, left>>

------------------------------------------------------------------------------
(* The broadcast of the first patch of the queue, one connection at a time.    *)

Unserved == {i \in broker.conns : conn[i].up /\ i \notin broker.served}
NextServed(i) == i \in Unserved /\ \A j \in Unserved : i <= j
BroadcastOver(b) == [b EXCEPT !.out = Tail(@), !.served = {}, !.waits = IF @ = 0 THEN 0 ELSE @ - 1]

(* A patch that overtakes what a connection still has to be sent, one of an
   earlier revision or the content of its own, or one of revision 0, which a
   replica applies at any revision. *)
Overtakes(i, patch) ==
    \/ patch.rev = 0 /\ Replica(i).rev > 0
    \/ conn[i].phase = "replay" /\ \E j \in conn[i].next..Len(broker.log) :
          /\ broker.log[j].rev > conn[i].from
          /\ \/ broker.log[j].rev < patch.rev
             \/ broker.log[j].rev = patch.rev /\ patch.sets = NoContent /\ broker.log[j].sets # NoContent
    \/ conn[i].phase \in {"vocabulary", "program"}

Broadcast(i) ==
    /\ broker.out # <<>> /\ NextServed(i)
    /\ Received(i, Patched(Replica(i), Head(broker.out)))
    /\ broker' = [broker EXCEPT !.served = @ \cup {i}]
    /\ disturbed' = IF Overtakes(i, Head(broker.out)) THEN disturbed \cup {conn[i].owner} ELSE disturbed
    /\ UNCHANGED <<kernel, hist, conn, left>>

BroadcastEnds ==
    /\ broker.out # <<>> /\ Unserved = {}
    /\ broker' = BroadcastOver(broker)
    /\ UNCHANGED <<kernel, hist, conn, replica, disturbed, left>>

(* A send rejects: the connections after it do not get the patch either. *)
BroadcastFails ==
    /\ Rare /\ broker.out # <<>> /\ Unserved # {}
    /\ broker' = BroadcastOver(broker)
    /\ disturbed' = disturbed \cup {conn[i].owner : i \in Unserved}
    /\ UNCHANGED <<kernel, hist, conn, replica>>

------------------------------------------------------------------------------
Changes == {{"machine"}, {"value", "program"}}

TrNext ==
    \/ \E keys \in Changes : HostDispatch(keys) \/ DirectMutation(keys)
    \/ TakeCheckpoint \/ Restore \/ CommitPatch \/ CommitQuietly \/ SyncNothing \/ MutationThrows
    \/ \E c \in TrClients : Attach(c)
    \/ \E i \in DOMAIN conn :
          \/ Replay(i) \/ SendProgram(i) \/ SendSnapshot(i) \/ OnboardingFails(i)
          \/ Closed(i) \/ Broadcast(i)
    \/ BroadcastEnds \/ BroadcastFails

(* Sends that were called return, and the kernel finishes what it began. *)
TrUnderway ==
    \/ CommitPatch \/ BroadcastEnds
    \/ \E i \in DOMAIN conn : Replay(i) \/ SendProgram(i) \/ SendSnapshot(i) \/ Broadcast(i)
TrFairness == WF_trVars(TrUnderway)

TrSpec == TrInit /\ [][TrNext]_trVars /\ TrFairness

------------------------------------------------------------------------------
(* A replica is the state of its revision, but for what the next revision or
   the mutation under way has already written, unless its patches were
   disturbed. *)
ReplicaExact == \A c \in TrClients :
    (replica[c].rev >= 0 /\ c \notin disturbed) => \A k \in Keys :
        replica[c].state[k] \in {hist[replica[c].rev + 1][k],
            IF replica[c].rev < kernel.rev THEN hist[replica[c].rev + 2][k] ELSE kernel.state[k]}

(* "Each patch is broadcast to all, keeping replicas in sync": when nothing is
   under way and nothing is on its way, an onboarded renderer has the state of
   the kernel. *)
RendererInSync == \A i \in DOMAIN conn :
    (/\ conn[i].up /\ conn[i].phase = "open"
     /\ broker.out = <<>> /\ kernel.mutation.by = "none")
        => Replica(i).state = kernel.state

(* When nothing is on its way, an onboarded renderer has the newest patch. *)
ReplicaCurrent == \A i \in DOMAIN conn :
    (conn[i].up /\ conn[i].phase = "open" /\ broker.out = <<>> /\ conn[i].owner \notin disturbed)
        => replica[conn[i].owner].rev >= broker.log[Len(broker.log)].rev

(* A replica goes back only to begin anew. *)
ReplicaForward == \A c \in TrClients :
    replica'[c].rev >= replica[c].rev \/ replica'[c].rev = -1 \/ c \in disturbed'

(* Every renderer that is linked has the kernel's program and state; what is on
   its way to it arrives. *)
RenderersCaughtUp == \A c \in TrClients :
    (Linked(c) /\ c \notin disturbed) => replica[c].state = kernel.state

(***************************************************************************)
(* A renderer's replica is the state of its revision, and up to date when  *)
(* nothing is on its way, unless its stream of patches was disturbed.      *)
(***************************************************************************)
ReplicaSafe == ReplicaExact /\ ReplicaCurrent
==============================================================================
