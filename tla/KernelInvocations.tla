--------------------------- MODULE KernelInvocations ---------------------------
(***************************************************************************)
(* The Kernel's mutation queue and its invocations, for the sources of one *)
(* cell of a program with a graph.  Mutations run one after the other; each *)
(* awaits several times, and between its awaits hosts and handlers queue   *)
(* others, and cancelInvocation closes an invocation at once.              *)
(*                                                                         *)
(* A mutation has three steps: it begins (the checks it makes first), it   *)
(* folds its changes into the store, it commits (revision, effect log,     *)
(* patch, and the start of the invocations it fired).  It may throw before *)
(* or after it folded.  An invocation is known by its source and token:    *)
(* each token starts at most one.                                          *)
(***************************************************************************)
EXTENDS SourceRuns, Sequences, FiniteSets

CONSTANTS
    Sources,     \* sources of the cell
    MaxToken,    \* bound: for each source, its requests
    MaxQueued,   \* bound: mutations in the queue when a host asks for one more
    MaxCancels,  \* bound: calls of cancelInvocation
    MaxFailures  \* bound: mutations that throw

ASSUME KernelBounds ==
    /\ MaxToken \in [Sources -> Nat] /\ MaxQueued \in Nat
    /\ MaxCancels \in Nat /\ MaxFailures \in Nat

VARIABLES
    runs,       \* blueprintRunState of the cell: the run state of each source
    active,     \* activeInvocations
    closed,     \* the active ones whose settlement was queued
    aborted,    \* invocations whose signal is aborted
    queue,      \* mutations that wait
    mutation,   \* the mutation that runs
    step,       \* "idle", "begun" or "folded"
    fired,      \* the invocations the running mutation fired
    failures,   \* mutations that threw so far
    revoked     \* invocations cancelled before their settlement began

store == runs
registry == <<active, closed, aborted>>
work == <<mutation, step, fired>>
vars == <<store, registry, queue, work, failures, revoked>>

Invocations == UNION {[source : {s}, token : 1..MaxToken[s]] : s \in Sources}

\* Requests come from dispatch and publish: a set of sources whose effects the
\* evaluation emits.  Settlements and cancellations are of one invocation.
Requests == [kind : {"request"}, emitting : SUBSET Sources]
Settlements == [kind : {"settle"}, invocation : Invocations, outcome : Outcomes]
Cancellations == [kind : {"cancel"}, invocation : Invocations]
Mutations == Requests \cup Settlements \cup Cancellations

NoMutation == [kind |-> "request", emitting |-> {}]

Init ==
    /\ runs = [s \in Sources |-> InitialRun]
    /\ active = {} /\ closed = {} /\ aborted = {}
    /\ queue = <<>>
    /\ mutation = NoMutation /\ step = "idle" /\ fired = {}
    /\ failures = 0
    /\ revoked = {}

-------------------------------------------------------------------------------
(***************************************************************************)
(* What queues a mutation.                                                 *)
(***************************************************************************)
Request ==
    /\ Len(queue) < MaxQueued
    /\ \E emitting \in (SUBSET Sources) \ {{}} :
           queue' = Append(queue, [kind |-> "request", emitting |-> emitting])
    /\ UNCHANGED <<store, registry, work, failures, revoked>>

MayEmit(i) == i \in active \ closed

\* control.emit, or the handler returned, or it threw ("failure").
Emit(i, outcome) ==
    /\ MayEmit(i)
    /\ closed' = closed \cup {i}
    /\ queue' = Append(queue, [kind |-> "settle", invocation |-> i,
                               outcome |-> outcome])
    /\ UNCHANGED <<store, active, aborted, work, failures, revoked>>

QueueCancellation(i) ==
    queue' = Append(queue, [kind |-> "cancel", invocation |-> i])

Settling(i) == mutation.kind = "settle" /\ mutation.invocation = i

\* cancelInvocation, at any moment.
Cancel(i) ==
    /\ i \in active
    /\ Cardinality(aborted) < MaxCancels
    /\ aborted' = aborted \cup {i}
    /\ active' = active \ {i}
    /\ closed' = closed \ {i}
    /\ QueueCancellation(i)
    /\ revoked' = IF Settling(i) THEN revoked ELSE revoked \cup {i}
    /\ UNCHANGED <<store, work, failures>>

-------------------------------------------------------------------------------
(***************************************************************************)
(* The life of a mutation.                                                 *)
(***************************************************************************)
Idle == mutation' = NoMutation /\ step' = "idle" /\ fired' = {}

\* a settlement does not look whether its invocation was cancelled.
AlwaysAdmitted(m) == TRUE

\* A settlement whose invocation was cancelled meanwhile is rejected.
Admitted(m) == m.kind = "settle" => m.invocation \in active \ aborted

Begin ==
    /\ step = "idle" /\ queue # <<>>
    /\ queue' = Tail(queue)
    /\ IF Admitted(Head(queue))
       THEN mutation' = Head(queue) /\ step' = "begun" /\ UNCHANGED fired
       ELSE UNCHANGED work
    /\ UNCHANGED <<store, registry, failures, revoked>>

\* Sources that may be asked for once more within the bound.
Askable == {s \in Sources : runs[s].queue < MaxToken[s]}

Requested(emitting) ==
    [s \in Sources |-> IF s \in emitting THEN Admit(runs[s], 0) ELSE runs[s]]

OutcomeOf(m) == IF m.kind = "settle" THEN m.outcome ELSE "failure"

\* A cell's evaluation emits the effects of the sources whose "when" holds.
Fold ==
    /\ step = "begun"
    /\ step' = "folded"
    /\ IF mutation.kind = "request"
       THEN runs' = Requested(mutation.emitting \cap Askable)
       ELSE \E emitting \in SUBSET (Askable \cup {mutation.invocation.source}) :
                runs' = CompleteAndPromote(
                            runs, mutation.invocation.source,
                            mutation.invocation.token, OutcomeOf(mutation),
                            emitting, 0)
    /\ fired' = Fired(runs, runs')
    /\ UNCHANGED <<registry, queue, mutation, failures, revoked>>

\* The invocations a settlement leaves in the registry.
Remaining == IF mutation.kind = "settle" THEN active \ {mutation.invocation} ELSE active

\* what the mutation fired is logged but not started.
StartNone == Remaining

StartFired == Remaining \cup fired

Commit ==
    /\ step = "folded"
    /\ active' = StartFired
    /\ closed' = closed \cap Remaining
    /\ Idle
    /\ UNCHANGED <<store, aborted, queue, failures, revoked>>

\* The operation throws: what it folded stays, what it fired is forgotten, and
\* a settlement takes its invocation along.
Throw ==
    /\ step \in {"begun", "folded"}
    /\ failures < MaxFailures /\ failures' = failures + 1
    /\ active' = Remaining
    /\ closed' = closed \cap Remaining
    /\ Idle
    /\ UNCHANGED <<store, aborted, queue, revoked>>

Next ==
    \/ Request \/ Begin \/ Fold \/ Commit \/ Throw
    \/ \E i \in active : Cancel(i)
    \/ \E i \in Invocations, outcome \in Outcomes : Emit(i, outcome)

Spec == Init /\ [][Next]_vars

-------------------------------------------------------------------------------
\* Every variable stays in its type.
KernelTypeOK ==
    /\ runs \in [Sources -> RunStates]
    /\ active \subseteq Invocations /\ closed \subseteq active
    /\ aborted \subseteq Invocations
    /\ queue \in Seq(Mutations)
    /\ mutation \in Mutations /\ step \in {"idle", "begun", "folded"}
    /\ fired \subseteq Invocations
    /\ failures \in 0..MaxFailures
    /\ revoked \subseteq aborted

(***************************************************************************)
(* A source executes one request at a time, the one its run state names,   *)
(* through settlements, cancellations and promotions in any order.  (The   *)
(* settled invocation is still in the registry, closed, when the mutation  *)
(* that settles it has promoted the next request.)                         *)
(***************************************************************************)
OneRequestAtATime ==
    \A i \in active \ closed :
        /\ runs[i.source].requested = i.token
        /\ \A j \in active \ closed : j.source = i.source => j = i

WillComplete(i) ==
    \/ i \in active \/ i \in fired
    \/ \E k \in 1..Len(queue) : queue[k] = [kind |-> "cancel", invocation |-> i]
    \/ mutation = [kind |-> "cancel", invocation |-> i]

(***************************************************************************)
(* While no mutation threw, the invocation of a source in flight is active, *)
(* about to start, or cancelled with the cancellation to come.  Otherwise  *)
(* the source would be "running" for ever, and every later request only be *)
(* remembered.                                                             *)
(***************************************************************************)
InFlightUnlessThrown ==
    failures = 0 =>
        \A s \in Sources : IsInFlight(runs[s]) =>
            WillComplete([source |-> s, token |-> runs[s].requested])

(***************************************************************************)
(* "Cancellation revokes terminal settlement waiting behind another        *)
(* mutation": an invocation cancelled before its settlement began is never *)
(* recorded as a success, not even until the cancellation runs.            *)
(***************************************************************************)
RevokedNeverSucceeds ==
    \A i \in revoked :
        runs[i.source].completed = i.token => runs[i.source].status = "failure"

(***************************************************************************)
(* A source "keeps only the latest pending activation": what it starts is  *)
(* the newest request made so far.                                         *)
(***************************************************************************)
NewestRequestStarts ==
    [][\A s \in Sources :
          runs'[s].requested # runs[s].requested
              => runs'[s].requested = runs'[s].queue]_vars

(***************************************************************************)
(* Every request whose invocation emitted or was cancelled is completed,   *)
(* unless a mutation threw.                                                *)
(***************************************************************************)
Ended(s) ==
    [source |-> s, token |-> runs[s].requested] \in closed \cup aborted

EndedAreCompleted ==
    \A s \in Sources : Ended(s) => (~IsInFlight(runs[s]) \/ failures > 0)

(***************************************************************************)
(* "It settles the invocation exactly once [...] and closes the            *)
(* invocation": the request of an invocation that leaves the registry is   *)
(* completed, or its cancellation is still to run.                         *)
(***************************************************************************)
ClosedIsSettled ==
    [][\A i \in active \ active' :
          \/ i \in aborted'
          \/ runs'[i.source].completed >= i.token]_vars

===============================================================================
