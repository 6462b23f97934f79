---------------------------- MODULE DurableRuntime ----------------------------
(***************************************************************************)
(* Several hosts (browser tabs, workers) drive one durable runtime over a  *)
(* provider whose operations are atomic: the in-memory provider, or the    *)
(* IndexedDB provider, where each operation is one read-write transaction. *)
(* Every "await provider..." of the runtime is one action, so calls of     *)
(* different workers interleave between any two of them.  A worker may     *)
(* vanish at any await; leases then end only by their expiry.              *)
(*                                                                         *)
(*   processEngineWake     ReadWake, AcquireBusy, Acquire, AbortEmpty,     *)
(*                         TransitionThrows, AbortAfterThrow, Commit,      *)
(*                         MarkProcessed                                   *)
(*   processQueueLaneItem  LeaseItem, ReadSnapshot, ExecuteEffect,         *)
(*                         EffectThrows, EffectStopped, AppendSettlement,  *)
(*                         AppendThrows, Ack, ReportFailure, ReportThrows, *)
(*                         NackDead, Nack                                  *)
(***************************************************************************)
EXTENDS BlueprintTransition, FiniteSets

CONSTANTS
    Workers,      \* the hosts that call into the runtime
    NoWorker,     \* "no lease token"
    Provider,     \* which provider's wake arithmetic: "memory" or "indexed-db"
    Clock,        \* the millisecond readings Date.now() may return
    MaxAttempts,  \* deliveries of an effect before its failure is terminal
    MaxEvents,    \* bound: host events journalled
    MaxFaults     \* bound: crashes, provider errors and early lease expiries

ASSUME WorkerAssumption == NoWorker \notin Workers
ASSUME ProviderAssumption == Provider \in {"memory", "indexed-db"}
ASSUME ClockAssumption == Clock \subseteq Nat \ {0}
ASSUME AttemptsAssumption == MaxAttempts \in Nat \ {0}
ASSUME BoundsAssumption == MaxEvents \in Nat /\ MaxFaults \in Nat

VARIABLES
    journal,    \* the entries of journalRef, in append order
    wake,       \* the engine wake marker; 0 is null
    checkpoint, \* the persisted runtime record without its lease
    lease,      \* the transition lease; its token is the worker it was given to
    queue,      \* the effects lane: message id -> record
    pc,         \* what each worker does next
    wakeSeen,   \* requestedAt as processEngineWake read it
    snapshot,   \* the checkpoint a worker acquired, and the last entry it read
    work,       \* the queue message a worker leased, with its attempt number
    faults      \* how much of the fault budget is spent

runtimeVars == <<checkpoint, lease>>
localVars == <<wakeSeen, snapshot, work>>
vars == <<journal, wake, checkpoint, lease, queue, pc, wakeSeen, snapshot,
          work, faults>>

EngineSteps == {"acquire", "transition", "abortEmpty", "abortError", "mark"}
QueueSteps == {"handler", "execute", "append", "ack", "report", "nackDead",
               "nack"}
\* The steps at which a worker believes it holds the transition lease.
LeaseSteps == {"transition", "abortEmpty", "abortError"}

NoLease == [holder |-> NoWorker, expired |-> FALSE]
NoWork == [id |-> <<0, 0>>, attempt |-> 0]
InitialCheckpoint ==
    [revision |-> 0, cursor |-> 0, state |-> {}, settled |-> {}]
NoSnapshot == [from |-> InitialCheckpoint, upto |-> 0]

Init ==
    /\ journal = << >>
    /\ wake = [requestedAt |-> 0, processedAt |-> 0]
    /\ checkpoint = InitialCheckpoint
    /\ lease = NoLease
    /\ queue = << >>
    /\ pc = [w \in Workers |-> "idle"]
    /\ wakeSeen = [w \in Workers |-> 0]
    /\ snapshot = [w \in Workers |-> NoSnapshot]
    /\ work = [w \in Workers |-> NoWork]
    /\ faults = 0

Goto(w, step) == pc' = [pc EXCEPT ![w] = step]

\* The call returns or its worker vanishes: its local variables are gone.
Return(w) ==
    /\ Goto(w, "idle")
    /\ wakeSeen' = [wakeSeen EXCEPT ![w] = 0]
    /\ snapshot' = [snapshot EXCEPT ![w] = NoSnapshot]
    /\ work' = [work EXCEPT ![w] = NoWork]

\* One unit of the fault budget.
Fault == faults < MaxFaults /\ faults' = faults + 1

-------------------------------------------------------------------------------
(***************************************************************************)
(* appendJournal: the entry and the wake request are one provider          *)
(* operation.  The memory provider moves requestedAt past the pending      *)
(* request as well as past processedAt; IndexedDB only past processedAt.   *)
(***************************************************************************)
WakeFloor ==
    IF Provider = "memory" /\ wake.requestedAt > wake.processedAt
    THEN wake.requestedAt
    ELSE wake.processedAt

\* Mutant: the request is stamped with the clock as it is.
ClockStamp(now) == now

NextRequestedAt(now) == IF now <= WakeFloor THEN WakeFloor + 1 ELSE now

AppendAndWake(entry) ==
    /\ journal' = Append(journal, entry)
    /\ \E now \in Clock :
         wake' = [wake EXCEPT !.requestedAt = NextRequestedAt(now)]

EventCount == Cardinality({i \in 1..Len(journal) : IsEvent(journal[i])})

HostAppend ==
    /\ EventCount < MaxEvents
    /\ \E event \in Events : AppendAndWake(EventEntry(event))
    /\ UNCHANGED <<runtimeVars, queue, pc, localVars, faults>>

-------------------------------------------------------------------------------
(***************************************************************************)
(* processEngineWake.                                                      *)
(***************************************************************************)
WakePending == wake.requestedAt > wake.processedAt

\* A wake that is not pending returns "idle" and changes nothing.
ReadWake(w) ==
    /\ pc[w] = "idle"
    /\ WakePending
    /\ wakeSeen' = [wakeSeen EXCEPT ![w] = wake.requestedAt]
    /\ Goto(w, "acquire")
    /\ UNCHANGED <<journal, wake, runtimeVars, queue, snapshot, work, faults>>

\* Mutant: an expired lease still excludes everyone.
LeaseFreeOnceReleased == lease.holder = NoWorker

LeaseFree == lease.holder = NoWorker \/ lease.expired

\* Another worker's lease is live: "busy", the wake stays requested.
AcquireBusy(w) ==
    /\ pc[w] = "acquire"
    /\ ~LeaseFree
    /\ Return(w)
    /\ UNCHANGED <<journal, wake, runtimeVars, queue, faults>>

\* The lease, the checkpoint and every entry after its cursor, atomically.
Acquire(w) ==
    /\ pc[w] = "acquire"
    /\ LeaseFree
    /\ lease' = [holder |-> w, expired |-> FALSE]
    /\ snapshot' = [snapshot EXCEPT
                      ![w] = [from |-> checkpoint, upto |-> Len(journal)]]
    /\ Goto(w, IF checkpoint.cursor = Len(journal) THEN "abortEmpty"
                                                   ELSE "transition")
    /\ UNCHANGED <<journal, wake, checkpoint, queue, wakeSeen, work, faults>>

\* Mutant: whoever aborts clears the lease.
ReleaseAlways(w) == lease' = NoLease

\* abortTransition clears the lease only for the token that holds it.
ReleaseIfHeld(w) == lease' = IF lease.holder = w THEN NoLease ELSE lease

AbortEmpty(w) ==
    /\ pc[w] = "abortEmpty"
    /\ ReleaseIfHeld(w)
    /\ Goto(w, "mark")
    /\ UNCHANGED <<journal, wake, checkpoint, queue, localVars, faults>>

\* transition, applySpecUpdates or the commit call itself throws.
TransitionThrows(w) ==
    /\ pc[w] = "transition"
    /\ Fault
    /\ Goto(w, "abortError")
    /\ UNCHANGED <<journal, wake, runtimeVars, queue, localVars>>

AbortAfterThrow(w) ==
    /\ pc[w] = "abortError"
    /\ ReleaseIfHeld(w)
    /\ Return(w)
    /\ UNCHANGED <<journal, wake, checkpoint, queue, faults>>

\* The lease check of commitTransition ("lease-lost" when it fails).
LeaseHeld(w) == lease.holder = w /\ ~lease.expired

\* Its optimistic check ("conflict" when it fails).
SnapshotCurrent(w) ==
    /\ snapshot[w].from.revision = checkpoint.revision
    /\ snapshot[w].from.cursor = checkpoint.cursor

\* Mutant: settlements consumed by earlier transitions are folded in again.
CheckpointWithDuplicates(w) ==
    LET from == snapshot[w].from
        folded == Folded(journal, from.cursor + 1, snapshot[w].upto, {})
    IN [revision |-> checkpoint.revision + 1,
        cursor |-> snapshot[w].upto,
        state |-> from.state \cup folded,
        settled |-> from.settled
                     \cup Consumed(journal, from.cursor + 1, snapshot[w].upto)]

(***************************************************************************)
(* The checkpoint the transition computes from what the worker acquired:   *)
(* the commit overwrites state and spec with it, whatever is stored.       *)
(***************************************************************************)
NextCheckpoint(w) ==
    LET from == snapshot[w].from
        folded == Folded(journal, from.cursor + 1, snapshot[w].upto, from.settled)
    IN [revision |-> checkpoint.revision + 1,
        cursor |-> snapshot[w].upto,
        state |-> from.state \cup folded,
        settled |-> from.settled
                     \cup Consumed(journal, from.cursor + 1, snapshot[w].upto)]

\* The messages the commit adds to the effects lane.
NewMessages(w) ==
    {<<checkpoint.revision + 1, p>> :
       p \in Emitting(journal, snapshot[w].from.cursor + 1, snapshot[w].upto)}

\* Mutant: a new message is left staged, as no atomic provider leaves it.
StagedMessage ==
    [state |-> "staged", attempt |-> 0, holder |-> NoWorker, expired |-> FALSE]

ActiveMessage ==
    [state |-> "active", attempt |-> 0, holder |-> NoWorker, expired |-> FALSE]

\* Mutant: the commit tests nothing.
CommitUnchecked(w) == pc[w] = "transition"

CommitAccepted(w) == LeaseHeld(w) /\ SnapshotCurrent(w)

\* commitTransition: cursor, state, spec, effects and lease in one operation.
Commit(w) ==
    /\ pc[w] = "transition"
    /\ IF CommitAccepted(w)
       THEN /\ checkpoint' = NextCheckpoint(w)
            /\ queue' = [id \in DOMAIN queue \cup NewMessages(w) |->
                           IF id \in DOMAIN queue THEN queue[id]
                                                  ELSE ActiveMessage]
            /\ Goto(w, "mark")
            /\ UNCHANGED localVars
       ELSE /\ Return(w)
            /\ UNCHANGED <<checkpoint, queue>>
    /\ lease' = IF LeaseHeld(w) THEN NoLease ELSE lease
    /\ UNCHANGED <<journal, wake, faults>>

\* The captured request is consumed; a newer one stays pending.
MarkProcessed(w) ==
    /\ pc[w] = "mark"
    /\ wake' = IF wakeSeen[w] > wake.processedAt
               THEN [wake EXCEPT !.processedAt = wakeSeen[w]]
               ELSE wake
    /\ Return(w)
    /\ UNCHANGED <<journal, runtimeVars, queue, faults>>

-------------------------------------------------------------------------------
\* Mutant: a message whose lease expired is never delivered again.
LeasableOnceActive(id) == queue[id].state = "active"

(***************************************************************************)
(* processQueueLaneItem.                                                   *)
(***************************************************************************)
Leasable(id) ==
    \/ queue[id].state = "active"
    \/ queue[id].state = "leased" /\ queue[id].expired

LeaseItem(w) ==
    /\ pc[w] = "idle"
    /\ \E id \in DOMAIN queue :
         LET leased == [state |-> "leased", attempt |-> queue[id].attempt + 1,
                        holder |-> w, expired |-> FALSE]
         IN /\ Leasable(id)
            /\ \A other \in DOMAIN queue : Earlier(other, id) => ~Leasable(other)
            /\ queue' = [queue EXCEPT ![id] = leased]
            /\ work' = [work EXCEPT ![w] = [id |-> id, attempt |-> leased.attempt]]
    /\ Goto(w, "handler")
    /\ UNCHANGED <<journal, wake, runtimeVars, wakeSeen, snapshot, faults>>

\* The Blueprint handler skips an effect whose settlement is committed.
ReadSnapshot(w) ==
    /\ pc[w] = "handler"
    /\ Goto(w, IF work[w].id \in checkpoint.settled THEN "ack" ELSE "execute")
    /\ UNCHANGED <<journal, wake, runtimeVars, queue, localVars, faults>>

\* The external effect ran; it may have a settlement to report.
ExecuteEffect(w) ==
    /\ pc[w] = "execute"
    /\ Goto(w, IF Settling(journal, work[w].id) THEN "append" ELSE "ack")
    /\ UNCHANGED <<journal, wake, runtimeVars, queue, localVars, faults>>

\* Mutants: dead without a report; dead one delivery too early.
AfterThrowUnreported(w) ==
    IF work[w].attempt >= MaxAttempts THEN "nackDead" ELSE "nack"
AfterThrowEarly(w) ==
    IF work[w].attempt + 1 >= MaxAttempts THEN "report" ELSE "nack"

\* The catch block: terminal failures are reported before they are dead.
AfterThrow(w) == IF work[w].attempt >= MaxAttempts THEN "report" ELSE "nack"

EffectThrows(w) ==
    /\ pc[w] = "execute"
    /\ Goto(w, AfterThrow(w))
    /\ UNCHANGED <<journal, wake, runtimeVars, queue, localVars, faults>>

\* The worker's signal aborted while the effect ran: given back, never dead.
EffectStopped(w) ==
    /\ pc[w] = "execute"
    /\ Fault
    /\ Goto(w, "nack")
    /\ UNCHANGED <<journal, wake, runtimeVars, queue, localVars>>

AppendSettlement(w) ==
    /\ pc[w] = "append"
    /\ AppendAndWake(SettledEntry(work[w].id))
    /\ Goto(w, "ack")
    /\ UNCHANGED <<runtimeVars, queue, localVars, faults>>

\* appendJournal fails after the effect ran: a failed effect, or, when the
\* signal aborted meanwhile, a stopped one.
AppendThrows(w) ==
    /\ pc[w] = "append"
    /\ Fault
    /\ \E next \in {AfterThrow(w), "nack"} : Goto(w, next)
    /\ UNCHANGED <<journal, wake, runtimeVars, queue, localVars>>

\* The failure handler's events; effects that settle nothing have none.
ReportFailure(w) ==
    /\ pc[w] = "report"
    /\ IF Settling(journal, work[w].id)
       THEN AppendAndWake(SettledEntry(work[w].id))
       ELSE UNCHANGED <<journal, wake>>
    /\ Goto(w, "nackDead")
    /\ UNCHANGED <<runtimeVars, queue, localVars, faults>>

ReportThrows(w) ==
    /\ pc[w] = "report"
    /\ Fault
    /\ Goto(w, "nack")
    /\ UNCHANGED <<journal, wake, runtimeVars, queue, localVars>>

\* Mutants: the token is not compared; nothing is.
ItemLeased(w) == queue[work[w].id].state = "leased"
ItemUnchecked(w) == work[w].id \in DOMAIN queue

\* ackQueueItem and nackQueueItem test the token, not the expiry.
ItemHeld(w) ==
    /\ queue[work[w].id].state = "leased"
    /\ queue[work[w].id].holder = w

Settle(w, state) ==
    /\ queue' = IF ItemHeld(w)
                THEN [queue EXCEPT ![work[w].id] =
                        [@ EXCEPT !.state = state, !.holder = NoWorker,
                                  !.expired = FALSE]]
                ELSE queue
    /\ Return(w)
    /\ UNCHANGED <<journal, wake, runtimeVars, faults>>

Ack(w) == pc[w] = "ack" /\ Settle(w, "done")
NackDead(w) == pc[w] = "nackDead" /\ Settle(w, "dead")
Nack(w) == pc[w] = "nack" /\ Settle(w, "active")

-------------------------------------------------------------------------------
(***************************************************************************)
(* The environment: a worker vanishes (or a provider call throws out of    *)
(* the whole call, which leaves the same things behind), a lease runs out. *)
(***************************************************************************)
Crash(w) ==
    /\ pc[w] # "idle"
    /\ Fault
    /\ Return(w)
    /\ UNCHANGED <<journal, wake, runtimeVars, queue>>

LeaseAbandoned == pc[lease.holder] \notin LeaseSteps

LeaseExpires ==
    /\ lease.holder # NoWorker /\ ~lease.expired
    /\ lease' = [lease EXCEPT !.expired = TRUE]
    /\ UNCHANGED <<journal, wake, checkpoint, queue, pc, localVars>>

\* Nobody will release it any more: only time does.
AbandonedLeaseExpires == LeaseExpires /\ LeaseAbandoned /\ faults' = faults
\* The transition outlasts leaseMs while its worker still runs.
LeaseExpiresEarly == LeaseExpires /\ ~LeaseAbandoned /\ Fault

ItemAbandoned(id) ==
    LET w == queue[id].holder IN pc[w] \notin QueueSteps \/ work[w].id # id

ItemExpires(id) ==
    /\ queue[id].state = "leased" /\ ~queue[id].expired
    /\ queue' = [queue EXCEPT ![id].expired = TRUE]
    /\ UNCHANGED <<journal, wake, runtimeVars, pc, localVars>>

AbandonedItemExpires ==
    \E id \in DOMAIN queue :
       ItemExpires(id) /\ ItemAbandoned(id) /\ faults' = faults
ItemExpiresEarly ==
    \E id \in DOMAIN queue : ItemExpires(id) /\ ~ItemAbandoned(id) /\ Fault

-------------------------------------------------------------------------------
Engine(w) ==
    \/ ReadWake(w) \/ AcquireBusy(w) \/ Acquire(w) \/ AbortEmpty(w)
    \/ AbortAfterThrow(w) \/ Commit(w) \/ MarkProcessed(w)

QueueLane(w) ==
    \/ LeaseItem(w) \/ ReadSnapshot(w) \/ ExecuteEffect(w) \/ EffectThrows(w)
    \/ AppendSettlement(w) \/ Ack(w) \/ ReportFailure(w) \/ NackDead(w)
    \/ Nack(w)

Failure(w) ==
    \/ TransitionThrows(w) \/ EffectStopped(w) \/ AppendThrows(w)
    \/ ReportThrows(w) \/ Crash(w)

Expiry ==
    \/ AbandonedLeaseExpires \/ LeaseExpiresEarly
    \/ AbandonedItemExpires \/ ItemExpiresEarly

Next ==
    \/ HostAppend
    \/ \E w \in Workers : Engine(w) \/ QueueLane(w) \/ Failure(w)
    \/ Expiry

Spec == Init /\ [][Next]_vars

-------------------------------------------------------------------------------
(***************************************************************************)
(* Properties.                                                             *)
(***************************************************************************)
Checkpoints == [revision : Nat, cursor : Nat, state : SUBSET Nat,
                settled : SUBSET MessageIds]
Messages == [state : {"active", "leased", "done", "dead"}, attempt : Nat,
             holder : Workers \cup {NoWorker}, expired : BOOLEAN]

\* Every variable stays in its type; messages are only written by commits.
TypeOK ==
    /\ journal \in Seq(Entries)
    /\ wake \in [requestedAt : Nat, processedAt : Nat]
    /\ checkpoint \in Checkpoints
    /\ lease \in [holder : Workers \cup {NoWorker}, expired : BOOLEAN]
    /\ DOMAIN queue \subseteq MessageIds
    /\ queue \in [DOMAIN queue -> Messages]
    /\ pc \in [Workers -> {"idle"} \cup EngineSteps \cup QueueSteps]
    /\ wakeSeen \in [Workers -> Nat]
    /\ snapshot \in [Workers -> [from : Checkpoints, upto : Nat]]
    /\ work \in [Workers -> [id : MessageIds, attempt : Nat]]
    /\ faults \in 0..MaxFaults

(***************************************************************************)
(* Exactly-once application: whatever batches were acquired, lost, retried *)
(* or abandoned, the committed state is the fold of the journal prefix up  *)
(* to the cursor, each host event once and each effect's first settlement  *)
(* once, and the consumed message ids are those of that prefix.            *)
(***************************************************************************)
AppliedMatchesPrefix ==
    /\ checkpoint.cursor <= Len(journal)
    /\ checkpoint.state = Folded(journal, 1, checkpoint.cursor, {})
    /\ checkpoint.settled = Consumed(journal, 1, checkpoint.cursor)

(***************************************************************************)
(* Exactly-once outbox: the effects lane holds one message for each        *)
(* emitting event of the committed prefix and no other message.            *)
(***************************************************************************)
OutboxMatchesPrefix ==
    /\ {id[2] : id \in DOMAIN queue} = Emitting(journal, 1, checkpoint.cursor)
    /\ \A a, b \in DOMAIN queue : a[2] = b[2] => a = b

(***************************************************************************)
(* No wake is lost: while a journalled entry is not committed the wake     *)
(* marker is pending, so some later processEngineWake will look.           *)
(***************************************************************************)
NoWakeLost == checkpoint.cursor < Len(journal) => WakePending

(***************************************************************************)
(* The optimistic check of commitTransition can never fail once its lease  *)
(* check has passed: a worker whose token still holds the lease acquired   *)
(* the checkpoint that is stored now.                                      *)
(***************************************************************************)
LeaseProtectsSnapshot ==
    \A w \in Workers :
       pc[w] \in LeaseSteps /\ lease.holder = w => snapshot[w].from = checkpoint

Reported(id) == \E i \in 1..Len(journal) : Settles(journal[i], id)

(***************************************************************************)
(* No outcome is lost: a message leaves the lane, acknowledged or dead,    *)
(* only after its outcome is in the journal, whichever worker ran it and   *)
(* whatever happened to the leases in between.                             *)
(***************************************************************************)
FinishedIsReported ==
    \A id \in DOMAIN queue :
       queue[id].state \in {"done", "dead"} /\ Settling(journal, id) => Reported(id)

\* A message is dead only after MaxAttempts deliveries.
DeadIsExhausted ==
    \A id \in DOMAIN queue :
       queue[id].state = "dead" => queue[id].attempt >= MaxAttempts

(***************************************************************************)
(* An unexpired lease ends by an act of its holder: nobody else replaces,  *)
(* releases or settles what a worker still owns.                           *)
(***************************************************************************)
TransitionLeaseHonoured ==
    [][LeaseHeld(lease.holder) /\ lease.holder # NoWorker
         => \/ lease'.holder = lease.holder
            \/ pc'[lease.holder] # pc[lease.holder]]_vars

ItemLeaseHonoured ==
    [][\A id \in DOMAIN queue :
         queue[id].state = "leased" /\ ~queue[id].expired
           => LET w == queue[id].holder
              IN \/ queue'[id].state = "leased" /\ queue'[id].holder = w
                 \/ pc'[w] # pc[w] /\ work[w].id = id]_vars

(***************************************************************************)
(* The runtime keeps the promise of DurableInbox.                          *)
(***************************************************************************)
OutboxState(id) ==
    IF queue[id].state \in {"done", "dead"} THEN queue[id].state ELSE "pending"

Inbox == INSTANCE DurableInbox
           WITH outbox <- [id \in DOMAIN queue |-> OutboxState(id)]

ImplementsInbox == Inbox!Spec
===============================================================================
