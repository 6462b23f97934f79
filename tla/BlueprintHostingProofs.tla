------------------------- MODULE BlueprintHostingProofs -------------------------
(***************************************************************************)
(* Proofs about what runs a Blueprint outside of the kernel, for any       *)
(* number of commits, mounts, entries, requests and failures and any       *)
(* trees: reads of a subscription are serialized, its listener meets no    *)
(* gap and never goes back, a requested read is arranged and unsubscribing *)
(* releases everything; a rendered source follows its runtime while it is  *)
(* mounted and never shows an older revision; the hosted children are      *)
(* those of the tree; and a projection renders what its node declares.     *)
(***************************************************************************)
EXTENDS BlueprintHosting, BlueprintWorkerProofs, FiniteSetTheorems, SequenceTheorems, TLAPS

(***************************************************************************)
(* The local revision is behind the listener's snapshot only after a call  *)
(* that took the changes and rejected; neither is ahead of the provider.   *)
(***************************************************************************)
RevisionsOrdered ==
    /\ current \in Revisions /\ revision \in Nat /\ view \in Nat
    /\ revision <= view /\ view <= current

(***************************************************************************)
(* A turn in flight asked for what follows the local revision, and what it *)
(* was answered is at least as new as the listener's snapshot.             *)
(***************************************************************************)
CallCurrent(c) ==
    /\ c \in Calls
    /\ c.after = revision
    /\ c.stage # "reading" =>
           /\ view <= c.changes.revision /\ c.changes.revision <= current
           /\ c.changes.kind = "changes" =>
                  /\ c.changes.base = revision
                  /\ c.changes.revision = revision + 1

DrainInvariant ==
    \/ ~draining /\ calls = {} /\ loopEnds = 0
    \/ draining /\ calls = {} /\ loopEnds = 1
    \/ draining /\ loopEnds = 0 /\ (\E c : calls = {c} /\ CallCurrent(c))

RequestInvariant ==
    /\ RequestedReadArranged
    /\ ~(drainScheduled /\ draining)

SubscriptionInvariant ==
    RevisionsOrdered /\ DrainInvariant /\ RequestInvariant /\ StopReleases

-------------------------------------------------------------------------------
\* A loop without a turn in flight takes its next turn or ends.
LEMMA LoopTestShape ==
    ASSUME NEW next \in Revisions, LoopTest({}, next),
           draining' = TRUE, loopEnds = 0, revision' = next
    PROVE  DrainInvariant'
<1>1. CASE LoopContinues
  <2> DEFINE call == [stage |-> "reading", after |-> next, changes |-> NoChanges, n |-> 0]
  <2>1. calls' = {call} /\ loopEnds' = 0
    BY <1>1, FS_EmptySet DEF LoopTest, Turn
  <2>2. NoChanges \in Changes
    BY SubscriptionBounds DEF NoChanges, Changes, Kinds, Revisions
  <2>3. call \in Calls
    BY <2>2 DEF Calls
  <2>4. call.after = revision' /\ call.stage = "reading"
    OBVIOUS
  <2>5. CallCurrent(call)'
    BY <2>3, <2>4 DEF CallCurrent
  <2> QED
    BY <2>1, <2>5 DEF DrainInvariant
<1>2. CASE ~LoopContinues
  BY <1>2 DEF LoopTest, DrainInvariant
<1> QED
  BY <1>1, <1>2

\* The turn in flight is the only one.
LEMMA OneTurn ==
    ASSUME DrainInvariant, NEW c \in calls
    PROVE  calls = {c} /\ CallCurrent(c) /\ draining /\ loopEnds = 0
BY DEF DrainInvariant

\* Steps that neither touch the loop nor what its turn depends on.
LEMMA OutsideLoop ==
    ASSUME SubscriptionInvariant, UNCHANGED <<loop, revision, view>>,
           current' \in Revisions, current <= current'
    PROVE  DrainInvariant' /\ RevisionsOrdered'
<1> USE DEF SubscriptionInvariant
<1>1. RevisionsOrdered'
  BY DEF RevisionsOrdered, Revisions
<1>2. ASSUME NEW c, CallCurrent(c)
      PROVE  CallCurrent(c)'
  <2>1. c.changes.revision \in Nat
    BY <1>2 DEF CallCurrent, Calls, Changes, Revisions
  <2>2. c.stage # "reading" => c.changes.revision <= current'
    BY <1>2, <2>1, SubscriptionBounds DEF CallCurrent, RevisionsOrdered, Revisions
  <2> QED
    BY <1>2, <2>2 DEF CallCurrent
<1>3. DrainInvariant'
  BY <1>2 DEF DrainInvariant, loop
<1> QED
  BY <1>1, <1>3

-------------------------------------------------------------------------------
(***************************************************************************)
(* Turns.                                                                  *)
(***************************************************************************)
LEMMA AnswerIsCurrent ==
    ASSUME SubscriptionInvariant, NEW c \in calls, ProviderReads(c)
    PROVE  DrainInvariant'
<1> USE DEF SubscriptionInvariant
<1> DEFINE answer == ChangesSince(revision)
           d == [c EXCEPT !.stage = "answered", !.changes = answer]
<1>1. calls = {c} /\ CallCurrent(c) /\ draining /\ loopEnds = 0
  BY OneTurn
<1>2. UNCHANGED <<draining, loopEnds, revision, view, current>>
  BY DEF ProviderReads, provider
<1>3. calls' = {d}
  BY <1>1 DEF ProviderReads, CallCurrent
<1>4. /\ answer \in Changes /\ answer.revision = current
      /\ answer.kind = "changes" => answer.base = revision /\ current = revision + 1
  <2>1. /\ current \in Revisions /\ 0 \in Revisions
        /\ PatchRetained(revision) => current - 1 = revision /\ current = revision + 1
                                      /\ current - 1 \in Revisions
    BY SubscriptionBounds DEF PatchRetained, Revisions, RevisionsOrdered
  <2>2. CASE revision = current
    BY <2>1, <2>2 DEF ChangesSince, Changes, Kinds
  <2>3. CASE revision # current /\ PatchRetained(revision)
    <3>1. answer = [kind |-> "changes", base |-> current - 1, revision |-> current]
      BY <2>3 DEF ChangesSince
    <3> QED
      BY <2>1, <2>3, <3>1 DEF Changes, Kinds
  <2>4. CASE revision # current /\ ~PatchRetained(revision)
    BY <2>1, <2>4 DEF ChangesSince, Changes, Kinds
  <2> QED
    BY <2>2, <2>3, <2>4
<1>5. d \in Calls /\ d.after = revision /\ d.changes = answer
  <2>1. c \in Calls /\ c.after = revision
    BY <1>1 DEF CallCurrent
  <2> HIDE DEF answer
  <2> QED
    BY <1>4, <2>1 DEF Calls
<1>6. view <= answer.revision /\ answer.revision <= current
  BY <1>4, SubscriptionBounds DEF RevisionsOrdered, Revisions
<1> HIDE DEF answer, d
<1>7. CallCurrent(d)
  BY <1>4, <1>5, <1>6 DEF CallCurrent
<1>8. PICK e : calls' = {e} /\ CallCurrent(e)
  BY <1>3, <1>7
<1>9. CallCurrent(e)'
  BY <1>2, <1>8 DEF CallCurrent
<1> QED
  BY <1>1, <1>2, <1>8, <1>9 DEF DrainInvariant

LEMMA DeliveryIsCurrent ==
    ASSUME SubscriptionInvariant, NEW c \in calls, ReadReturns(c)
    PROVE  DrainInvariant'
<1> USE DEF SubscriptionInvariant
<1>1. calls = {c} /\ CallCurrent(c) /\ draining /\ loopEnds = 0
  BY OneTurn
<1>2. UNCHANGED <<draining, revision, view, current>> /\ c.stage = "answered"
  BY DEF ReadReturns, provider
<1>3. CASE MayDeliver(c)
  <2> DEFINE d == [c EXCEPT !.stage = "listening"]
  <2>1. calls' = {d} /\ loopEnds' = 0
    BY <1>1, <1>3 DEF ReadReturns
  <2>2. d \in Calls /\ d.after = c.after /\ d.changes = c.changes
    BY <1>1 DEF CallCurrent, Calls
  <2> HIDE DEF d
  <2>3. CallCurrent(d)'
    BY <1>1, <1>2, <2>2 DEF CallCurrent
  <2> QED
    BY <1>1, <1>2, <2>1, <2>3 DEF DrainInvariant
<1>4. CASE ~MayDeliver(c)
  <2>1. LoopTest({}, revision)
    BY <1>1, <1>4 DEF ReadReturns
  <2>2. revision \in Revisions
    BY SubscriptionBounds DEF RevisionsOrdered, Revisions
  <2> QED
    BY <1>1, <1>2, <2>1, <2>2, LoopTestShape
<1> QED
  BY <1>3, <1>4

\* A turn that ends hands the local revision it leaves to the loop's test.
LEMMA CallEnds ==
    ASSUME SubscriptionInvariant, NEW c \in calls,
           ReadRejects(c) \/ ListenerResolves(c) \/ ListenerRejects(c)
    PROVE  DrainInvariant' /\ RevisionsOrdered' /\ view' >= view
<1> USE DEF SubscriptionInvariant
<1>1. calls = {c} /\ CallCurrent(c) /\ draining /\ loopEnds = 0
  BY OneTurn
<1>2. draining' = TRUE /\ current' = current
  BY <1>1 DEF ReadRejects, ListenerResolves, ListenerRejects, provider
<1>3. c.changes.revision \in Nat
  BY <1>1 DEF CallCurrent, Calls, Changes, Revisions
<1>4. /\ revision \in Revisions
      /\ c.stage = "listening" => view <= c.changes.revision /\ c.changes.revision <= current
  BY <1>1, SubscriptionBounds DEF CallCurrent, RevisionsOrdered, Revisions
<1>5. LoopTest({}, revision') /\ revision' \in {revision, c.changes.revision}
  BY <1>1 DEF ReadRejects, ListenerResolves, ListenerRejects
<1>6. /\ view' \in {view, c.changes.revision}
      /\ c.stage # "listening" => view' = view /\ revision' = revision
      /\ revision' = c.changes.revision /\ revision' # revision => view' = revision'
  BY DEF ReadRejects, ListenerResolves, ListenerRejects
<1>7. RevisionsOrdered'
  BY <1>2, <1>3, <1>4, <1>5, <1>6, SubscriptionBounds DEF RevisionsOrdered, Revisions
<1>8. view' >= view
  BY <1>3, <1>4, <1>6 DEF RevisionsOrdered
<1>9. revision' \in Revisions
  BY <1>7, SubscriptionBounds DEF RevisionsOrdered, Revisions
<1>10. DrainInvariant'
  BY <1>1, <1>2, <1>5, <1>9, LoopTestShape
<1> QED
  BY <1>7, <1>8, <1>10

-------------------------------------------------------------------------------
(***************************************************************************)
(* Every step.                                                             *)
(***************************************************************************)
LEMMA DrainStep ==
    ASSUME SubscriptionInvariant, [SubNext]_subVars
    PROVE  DrainInvariant' /\ RevisionsOrdered' /\ view' >= view
<1> USE DEF SubscriptionInvariant
<1>1. /\ current \in Revisions /\ current \in Nat /\ view \in Nat /\ revision \in Revisions
      /\ current <= current /\ view >= view
  BY SubscriptionBounds DEF RevisionsOrdered, Revisions
<1>2. CASE Commit
  <2>1. UNCHANGED <<loop, revision, view>> /\ current' \in Revisions /\ current <= current'
    BY <1>1, <1>2, SubscriptionBounds DEF Commit, Revisions
  <2> QED
    BY <1>1, <2>1, OutsideLoop
<1>3. CASE Invalidated \/ Reconnected \/ AttachSettles \/ PollFires \/ Unsubscribe
           \/ UNCHANGED subVars
  <2>1. UNCHANGED <<loop, revision, view, current>>
    BY <1>3 DEF Invalidated, Reconnected, AttachSettles, PollFires, Unsubscribe, subVars, provider
  <2>2. current' \in Revisions /\ current <= current'
    BY <1>1, <2>1
  <2> QED
    BY <1>1, <2>1, <2>2, OutsideLoop
<1>4. CASE Microtask
  <2>1. UNCHANGED <<revision, view, current>>
    BY <1>4 DEF Microtask, provider
  <2>2. current' \in Revisions /\ current <= current' /\ view' >= view
    BY <1>1, <2>1
  <2>3. CASE ~stopped /\ DrainFree
    <3>1. calls = {} /\ loopEnds = 0
      BY <2>3 DEF DrainFree, DrainInvariant
    <3>2. draining' = TRUE /\ LoopTest({}, revision)
      BY <1>4, <2>3, <3>1 DEF Microtask
    <3>3. DrainInvariant'
      BY <1>1, <2>1, <3>1, <3>2, LoopTestShape
    <3> QED
      BY <2>1, <2>2, <3>3 DEF RevisionsOrdered
  <2>4. CASE ~(~stopped /\ DrainFree)
    BY <1>4, <2>1, <2>2, <2>4, OutsideLoop DEF Microtask
  <2> QED
    BY <2>3, <2>4
<1>5. CASE DrainFinally
  <2>1. /\ UNCHANGED <<revision, view, current, calls>>
        /\ draining' = FALSE /\ loopEnds' = loopEnds - 1 /\ loopEnds > 0
    BY <1>5 DEF DrainFinally, provider
  <2>2. calls' = {} /\ loopEnds' = 0
    BY <2>1 DEF DrainInvariant
  <2> QED
    BY <1>1, <2>1, <2>2 DEF DrainInvariant, RevisionsOrdered
<1>6. ASSUME NEW c \in calls, CallStep(c)
      PROVE  DrainInvariant' /\ RevisionsOrdered' /\ view' >= view
  <2>1. CASE ProviderReads(c)
    <3>1. UNCHANGED <<revision, view, current>>
      BY <2>1 DEF ProviderReads, provider
    <3> QED
      BY <1>1, <2>1, <3>1, AnswerIsCurrent DEF RevisionsOrdered
  <2>2. CASE ReadReturns(c)
    <3>1. UNCHANGED <<revision, view, current>>
      BY <2>2 DEF ReadReturns, provider
    <3> QED
      BY <1>1, <2>2, <3>1, DeliveryIsCurrent DEF RevisionsOrdered
  <2>3. CASE ReadRejects(c) \/ ListenerResolves(c) \/ ListenerRejects(c)
    BY <2>3, CallEnds
  <2> QED
    BY <1>6, <2>1, <2>2, <2>3 DEF CallStep
<1> QED
  BY <1>2, <1>3, <1>4, <1>5, <1>6 DEF SubNext

\* A loop's test leaves "readPending" as the loop wants it.
LEMMA LoopTestPending ==
    ASSUME NEW others, NEW next, LoopTest(others, next)
    PROVE  ~stopped => ~readPending'
BY DEF LoopTest, LoopContinues, Turn

LEMMA RequestStep ==
    ASSUME SubscriptionInvariant, [SubNext]_subVars
    PROVE  RequestInvariant'
<1> USE DEF SubscriptionInvariant, RequestInvariant, RequestedReadArranged
<1>1. CASE Commit
  BY <1>1 DEF Commit, loop, request
<1>2. CASE Invalidated \/ Reconnected \/ AttachSettles \/ PollFires
  <2>1. (ScheduleRead \/ UNCHANGED request) /\ UNCHANGED <<draining, stopped>>
    BY <1>2 DEF Invalidated, Reconnected, AttachSettles, PollFires, loop
  <2>2. CASE stopped \/ UNCHANGED request
    BY <2>1, <2>2 DEF ScheduleRead, request
  <2>3. CASE ~stopped /\ ScheduleRead
    <3>1. readPending' = TRUE /\ drainScheduled' = (drainScheduled \/ ~draining)
      BY <2>3 DEF ScheduleRead, DrainFree
    <3>2. (drainScheduled' \/ draining) /\ ~(drainScheduled' /\ draining)
      <4>1. CASE draining
        <5>1. drainScheduled' = FALSE
          BY <3>1, <4>1
        <5> QED
          BY <4>1, <5>1
      <4>2. CASE ~draining
        BY <3>1, <4>2
      <4> QED
        BY <4>1, <4>2
    <3> QED
      BY <2>1, <3>2
  <2> QED
    BY <2>1, <2>2, <2>3
<1>3. CASE Microtask
  <2>1. drainScheduled' = FALSE /\ drainScheduled /\ ~draining /\ stopped' = stopped
    BY <1>3 DEF Microtask
  <2>2. ~stopped => draining' = TRUE
    BY <1>3, <2>1 DEF Microtask, DrainFree
  <2> QED
    BY <2>1, <2>2
<1>4. CASE DrainFinally
  BY <1>4 DEF DrainFinally, AskAgain, LoopContinues, request
<1>5. CASE Unsubscribe
  BY <1>5 DEF Unsubscribe, loop
<1>6. ASSUME NEW c \in calls, CallStep(c)
      PROVE  RequestInvariant'
  <2>1. draining
    BY OneTurn
  <2>2. UNCHANGED <<draining, drainScheduled>>
    BY <1>6 DEF CallStep, ProviderReads, ReadReturns, ReadRejects, ListenerResolves,
                ListenerRejects, request
  <2> QED
    BY <2>1, <2>2
<1>7. CASE UNCHANGED subVars
  BY <1>7 DEF subVars, loop, request
<1> QED
  BY <1>1, <1>2, <1>3, <1>4, <1>5, <1>6, <1>7 DEF SubNext

LEMMA ReleaseStep ==
    ASSUME StopReleases, [SubNext]_subVars
    PROVE  StopReleases'
<1> USE DEF StopReleases
<1>1. CASE Commit \/ Invalidated \/ Reconnected \/ Microtask \/ DrainFinally \/ UNCHANGED subVars
  BY <1>1 DEF Commit, Invalidated, Reconnected, Microtask, DrainFinally, subVars
<1>2. CASE AttachSettles
  BY <1>2 DEF AttachSettles, CleanupArrives
<1>3. CASE PollFires
  BY <1>3 DEF PollFires, PollAgain
<1>4. CASE Unsubscribe
  BY <1>4 DEF Unsubscribe
<1>5. ASSUME NEW c \in calls, CallStep(c)
      PROVE  StopReleases'
  BY <1>5 DEF CallStep, ProviderReads, ReadReturns, ReadRejects, ListenerResolves, ListenerRejects
<1> QED
  BY <1>1, <1>2, <1>3, <1>4, <1>5 DEF SubNext

-------------------------------------------------------------------------------
LEMMA SubscriptionInitial == SubInit => SubscriptionInvariant
<1> SUFFICES ASSUME SubInit PROVE SubscriptionInvariant
  OBVIOUS
<1>1. RevisionsOrdered
  BY SubscriptionBounds DEF SubInit, RevisionsOrdered, Revisions
<1>2. DrainInvariant
  BY DEF SubInit, DrainInvariant
<1>3. RequestInvariant /\ StopReleases
  BY DEF SubInit, RequestInvariant, RequestedReadArranged, StopReleases
<1> QED
  BY <1>1, <1>2, <1>3 DEF SubscriptionInvariant

LEMMA SubscriptionStep == SubscriptionInvariant /\ [SubNext]_subVars => SubscriptionInvariant'
BY DrainStep, RequestStep, ReleaseStep DEF SubscriptionInvariant

LEMMA InvariantHolds == SubSpec => []SubscriptionInvariant
BY SubscriptionInitial, SubscriptionStep, PTL DEF SubSpec

(***************************************************************************)
(* Whatever polls, invalidations, reconnections, commits, failures and an  *)
(* unsubscribe do meanwhile, subscribe() never overlaps reads, hands its   *)
(* listener no patch with a gap, arranges every read asked for, and        *)
(* releases its timer and its subscription when it ends.                   *)
(***************************************************************************)
THEOREM SubscriptionSafe ==
    SubSpec => [](ReadsSerialized /\ PatchContinuesView /\ RequestedReadArranged /\ StopReleases)
<1>1. SubscriptionInvariant =>
          ReadsSerialized /\ PatchContinuesView /\ RequestedReadArranged /\ StopReleases
  <2> SUFFICES ASSUME SubscriptionInvariant
               PROVE  ReadsSerialized /\ PatchContinuesView /\ RequestedReadArranged /\ StopReleases
    OBVIOUS
  <2> USE DEF SubscriptionInvariant
  <2>1. ReadsSerialized
    <3>1. ASSUME NEW c, calls = {c}
          PROVE  Cardinality(calls) = 1
      BY <3>1, FS_Singleton
    <3> QED
      BY <3>1, FS_EmptySet DEF ReadsSerialized, DrainInvariant
  <2>2. PatchContinuesView
    <3> SUFFICES ASSUME NEW c \in calls, c.stage = "listening", c.changes.kind = "changes"
                 PROVE  view \in {c.changes.base, c.changes.revision}
      BY DEF PatchContinuesView
    <3>1. CallCurrent(c)
      BY OneTurn
    <3>2. c.changes.base = revision /\ c.changes.revision = revision + 1 /\ view <= revision + 1
      BY <3>1 DEF CallCurrent
    <3> QED
      BY <3>2 DEF RevisionsOrdered
  <2> QED
    BY <2>1, <2>2 DEF RequestInvariant
<1> QED
  BY <1>1, InvariantHolds, PTL

(***************************************************************************)
(* A subscriber's snapshot never goes back, however late an answer comes.  *)
(***************************************************************************)
THEOREM ViewForward == SubSpec => ViewNeverReverts
<1>1. SubscriptionInvariant /\ [SubNext]_subVars => [view' >= view]_subVars
  BY DrainStep
<1> QED
  BY <1>1, InvariantHolds, PTL DEF SubSpec, ViewNeverReverts

\* A read that was asked for is arranged until the subscription ends, which
\* then holds neither a timer nor a provider's subscription (browser-runtime.ts:172).
THEOREM SubscriptionStaysKept == SubSpec => []SubscriptionKept
<1>1. RequestedReadArranged /\ StopReleases => SubscriptionKept
  BY DEF SubscriptionKept
<1> QED
  BY <1>1, SubscriptionSafe, PTL

-------------------------------------------------------------------------------
(***************************************************************************)
(* The rendered session (BlueprintSession).  The start of a mounted source *)
(* follows the runtime or is still in the queue, after whatever was left   *)
(* of older lives; what is shown was read, and what was read is committed. *)
(***************************************************************************)
SeOperations == [op : {"start", "emit", "resync", "external"}, version : Nat, to : Nat,
                 step : {"initialize", "append", "read", "resolve", "compare"}]
SeTypes ==
    /\ journal \in [exists : BOOLEAN, entries : Nat, revision : Nat]
    /\ operations \in Seq(SeOperations)
    /\ session \in [version : Nat, mounted : BOOLEAN, subscribed : BOOLEAN, told : Nat, revision : Nat, tree : Nat]
    /\ seWorker \in [on : BOOLEAN, owed : Nat]
    /\ seUsed \in [mounts : Nat, resyncs : Nat, rejects : Nat]

StartIsNext(operation) == operation.op = "start" /\ operation.version = session.version
StartsHold == \A i \in DOMAIN operations : operations[i].op = "start" =>
    /\ operations[i].version <= session.version
    /\ operations[i].version = session.version => session.mounted
    /\ operations[i].step # "compare"
    /\ operations[i].step # "initialize" => journal.exists
    /\ i # 1 => operations[i].step = "initialize"
ShownHolds ==
    /\ seUsed.rejects = 0 => session.tree = session.revision \/ At("resolve")
    /\ session.tree <= session.revision /\ session.revision <= journal.revision
    /\ ~journal.exists => journal.revision = 0
FollowHolds ==
    /\ session.subscribed => session.mounted
    /\ (session.mounted /\ seUsed.rejects = 0 /\ ~session.subscribed) =>
          \E i \in DOMAIN operations : StartIsNext(operations[i])
OnlyFirstRuns == \A i \in DOMAIN operations : i # 1 => operations[i].step # "resolve"
SeInvariant == SeTypes /\ StartsHold /\ ShownHolds /\ FollowHolds /\ OnlyFirstRuns

\* An operation joins the end of the queue.
LEMMA Enqueued ==
  ASSUME SeTypes, NEW o \in SeOperations, EnqueueOperation(o)
  PROVE  /\ operations' \in Seq(SeOperations) /\ DOMAIN operations = 1..Len(operations) /\ Len(operations) \in Nat
         /\ DOMAIN operations' = 1..(Len(operations) + 1) /\ operations' # <<>>
         /\ \A i \in DOMAIN operations : operations'[i] = operations[i]
         /\ operations'[Len(operations) + 1] = o
<1>1. operations \in Seq(SeOperations) /\ DOMAIN operations = 1..Len(operations) /\ Len(operations) \in Nat
  BY DEF SeTypes
<1>2. PICK q \in Seq(SeOperations) : q = operations'
  BY <1>1, AppendProperties DEF EnqueueOperation
<1>3. /\ Len(q) = Len(operations) + 1 /\ q # <<>>
      /\ \A i \in 1..Len(operations) : q[i] = operations[i]
      /\ q[Len(operations) + 1] = o
  BY <1>1, <1>2, AppendProperties DEF EnqueueOperation
<1>4. DOMAIN q = 1..Len(q)
  OBVIOUS
<1> QED
  BY <1>1, <1>2, <1>3, <1>4

\* The first operation goes on to its next step.
LEMMA Advanced ==
  ASSUME SeTypes, operations # <<>>, NEW step \in {"append", "read", "resolve"}, Advance(step)
  PROVE  /\ operations' \in Seq(SeOperations) /\ DOMAIN operations' = DOMAIN operations /\ 1 \in DOMAIN operations
         /\ operations' # <<>>
         /\ operations'[1].op = operations[1].op /\ operations'[1].version = operations[1].version
         /\ operations'[1].step = step
         /\ \A i \in DOMAIN operations : i # 1 => operations'[i] = operations[i]
<1>1. operations \in Seq(SeOperations) /\ 1 \in DOMAIN operations
  BY DEF SeTypes
<1>2. PICK o \in SeOperations : o = operations[1]
  BY <1>1
<1>3. [o EXCEPT !.step = step] \in SeOperations /\ [o EXCEPT !.step = step].op = o.op
      /\ [o EXCEPT !.step = step].version = o.version /\ [o EXCEPT !.step = step].step = step
  BY DEF SeOperations
<1>4. operations' = [operations EXCEPT ![1] = [o EXCEPT !.step = step]]
  BY <1>2 DEF Advance
<1>5. PICK next \in SeOperations : next = [o EXCEPT !.step = step]
  BY <1>3
<1>6. operations' = [operations EXCEPT ![1] = next]
  BY <1>4, <1>5
<1>7. operations' \in Seq(SeOperations) /\ DOMAIN operations' = DOMAIN operations /\ operations'[1] = next
      /\ \A i \in DOMAIN operations : i # 1 => operations'[i] = operations[i]
  BY <1>1, <1>6
<1> QED
  BY <1>1, <1>2, <1>3, <1>5, <1>7

\* The first operation leaves the queue.
LEMMA Returned ==
  ASSUME SeTypes, operations # <<>>, Return
  PROVE  /\ operations' \in Seq(SeOperations) /\ 1 \in DOMAIN operations
         /\ \A i \in DOMAIN operations' : i + 1 \in DOMAIN operations /\ operations'[i] = operations[i + 1] /\ i \in Nat \ {0}
         /\ \A i \in DOMAIN operations : i # 1 => i \in Nat /\ i - 1 \in DOMAIN operations' /\ operations'[i - 1] = operations[i]
<1>1. operations \in Seq(SeOperations) /\ DOMAIN operations = 1..Len(operations) /\ Len(operations) \in Nat \ {0}
  BY DEF SeTypes
<1>2. PICK q \in Seq(SeOperations) : q = operations'
  BY <1>1, HeadTailProperties DEF Return
<1>3. Len(q) = Len(operations) - 1 /\ \A i \in 1..Len(q) : q[i] = operations[i + 1]
  BY <1>1, <1>2, HeadTailProperties DEF Return
<1>4. DOMAIN q = 1..(Len(operations) - 1)
  BY <1>3
<1>5. \A i \in DOMAIN q : i + 1 \in DOMAIN operations /\ q[i] = operations[i + 1] /\ i \in Nat \ {0}
  BY <1>1, <1>3, <1>4
<1>6. ASSUME NEW i \in DOMAIN operations, i # 1 PROVE i \in Nat /\ i - 1 \in DOMAIN q /\ q[i - 1] = operations[i]
  <2>1. i \in Nat /\ i - 1 \in 1..Len(q) /\ (i - 1) + 1 = i
    BY <1>1, <1>3, <1>6
  <2> QED
    BY <1>3, <1>4, <2>1
<1> QED
  BY <1>1, <1>2, <1>5, <1>6

\* Nothing is mounted.
LEMMA SeInitial == SeInit => SeInvariant
<1> SUFFICES ASSUME SeInit PROVE SeInvariant
  OBVIOUS
<1>1. SeTypes
  BY DEF SeInit, SeTypes
<1> QED
  BY <1>1 DEF SeInit, SeInvariant, StartsHold, ShownHolds, FollowHolds, OnlyFirstRuns

\* Mounting and what a tree asks for join the queue.
LEMMA SeAsked ==
  ASSUME SeInvariant, Mount \/ Emit \/ Resync \/ Told
  PROVE  SeInvariant' /\ session'.tree = session.tree
<1> USE DEF SeInvariant
<1>1. /\ session.version \in Nat /\ session.revision \in Nat /\ session.tree \in Nat /\ journal.revision \in Nat
      /\ Len(operations) \in Nat /\ DOMAIN operations = 1..Len(operations)
  BY DEF SeTypes
<1>2. PICK o \in SeOperations :
        /\ EnqueueOperation(o) /\ o.step # "resolve"
        /\ o.op = "start" => o.step = "initialize" /\ o.version = session.version + 1 /\ Mount
        /\ Mount => o.op = "start"
  <2>1. CASE Mount
    BY <1>1, <2>1 DEF Mount, Operation, SeOperations
  <2>2. CASE Emit
    BY <1>1, <2>2 DEF Emit, Mount, Operation, SeOperations
  <2>3. CASE Resync
    BY <1>1, <2>3 DEF Resync, Mount, Operation, SeOperations
  <2>4. CASE Told
    BY <1>1, <2>4 DEF Told, Mount, Operation, SeOperations
  <2> QED
    BY <2>1, <2>2, <2>3, <2>4
<1>3. /\ operations' \in Seq(SeOperations) /\ DOMAIN operations' = 1..(Len(operations) + 1) /\ operations' # <<>>
      /\ \A i \in DOMAIN operations : operations'[i] = operations[i]
      /\ operations'[Len(operations) + 1] = o
  BY <1>2, Enqueued
<1>4. /\ journal' = journal /\ seUsed'.rejects = seUsed.rejects
      /\ session'.tree = session.tree /\ session'.revision = session.revision
      /\ session'.subscribed = session.subscribed
      /\ \/ Mount /\ ~session.mounted /\ session'.version = session.version + 1 /\ session'.mounted
         \/ ~Mount /\ session'.version = session.version /\ session'.mounted = session.mounted
  BY DEF Mount, Emit, Resync, Told, SeTypes
<1>5. SeTypes'
  <2>1. session' \in [version : Nat, mounted : BOOLEAN, subscribed : BOOLEAN, told : Nat, revision : Nat, tree : Nat]
    <3>1. CASE Mount
      <4> DEFINE T == [version : Nat, mounted : BOOLEAN, subscribed : BOOLEAN, told : Nat, revision : Nat, tree : Nat]
      <4>1. PICK s \in T : s = session
        BY DEF SeTypes
      <4>2. PICK v \in Nat : v = s.version + 1
        OBVIOUS
      <4>3. [s EXCEPT !.version = v, !.mounted = TRUE] \in T
        OBVIOUS
      <4> QED
        BY <3>1, <4>1, <4>2, <4>3 DEF Mount
    <3>2. CASE Emit \/ Resync
      BY <3>2 DEF SeTypes, Emit, Resync
    <3>3. CASE Told
      BY <1>1, <3>3 DEF SeTypes, Told
    <3> QED
      BY <3>1, <3>2, <3>3
  <2>2. seWorker' \in [on : BOOLEAN, owed : Nat]
    <3>1. \A b : ([seWorker EXCEPT !.on = @ \/ b]).on \in BOOLEAN
      BY DEF SeTypes
    <3> QED
      BY <3>1 DEF SeTypes, Mount, Emit, Resync, Told
  <2>3. seUsed' \in [mounts : Nat, resyncs : Nat, rejects : Nat]
    <3>1. PICK u \in [mounts : Nat, resyncs : Nat, rejects : Nat] : u = seUsed
      BY DEF SeTypes
    <3>2. /\ [u EXCEPT !.mounts = @ + 1] \in [mounts : Nat, resyncs : Nat, rejects : Nat]
          /\ [u EXCEPT !.resyncs = @ + 1] \in [mounts : Nat, resyncs : Nat, rejects : Nat]
      OBVIOUS
    <3> QED
      BY <3>1, <3>2 DEF Mount, Emit, Resync, Told
  <2> QED
    BY <1>3, <1>4, <2>1, <2>2, <2>3 DEF SeTypes
<1>6. StartsHold' /\ OnlyFirstRuns'
  <2> SUFFICES ASSUME NEW i \in DOMAIN operations'
               PROVE  /\ i # 1 => operations'[i].step # "resolve"
                      /\ operations'[i].op = "start" =>
                           /\ operations'[i].version <= session'.version
                           /\ operations'[i].version = session'.version => session'.mounted
                           /\ operations'[i].step # "compare"
                           /\ operations'[i].step # "initialize" => journal'.exists
                           /\ i # 1 => operations'[i].step = "initialize"
    BY DEF StartsHold, OnlyFirstRuns
  <2>1. CASE i \in DOMAIN operations
    <3>1. operations'[i] = operations[i] /\ operations[i] \in SeOperations
      BY <1>3, <2>1 DEF SeTypes
    <3>2. operations[i].version \in Nat
      BY <3>1 DEF SeOperations
    <3> QED
      BY <1>1, <1>4, <2>1, <3>1, <3>2 DEF StartsHold, OnlyFirstRuns
  <2>2. CASE i \notin DOMAIN operations
    <3>1. operations'[i] = o
      BY <1>1, <1>3, <2>2
    <3> QED
      BY <1>1, <1>2, <1>4, <3>1
  <2> QED
    BY <2>1, <2>2
<1>7. ShownHolds'
  BY <1>1, <1>3, <1>4 DEF ShownHolds, At
<1>8. FollowHolds'
  BY <1>1, <1>2, <1>3, <1>4 DEF FollowHolds, StartIsNext
<1> QED
  BY <1>4, <1>5, <1>6, <1>7, <1>8

\* The operation that runs goes on.
LEMMA QueueAdvances ==
  ASSUME SeInvariant, operations # <<>>, NEW step \in {"append", "read", "resolve"}, Advance(step),
         journal'.exists \/ operations[1].op # "start", seUsed'.rejects = seUsed.rejects,
         session'.version = session.version, session'.mounted = session.mounted, session'.subscribed = session.subscribed
  PROVE  StartsHold' /\ OnlyFirstRuns' /\ FollowHolds' /\ operations' \in Seq(SeOperations)
         /\ operations' # <<>> /\ operations'[1].step = step
<1> USE DEF SeInvariant
<1>1. /\ operations' \in Seq(SeOperations) /\ DOMAIN operations' = DOMAIN operations /\ 1 \in DOMAIN operations
      /\ operations' # <<>>
      /\ operations'[1].op = operations[1].op /\ operations'[1].version = operations[1].version
      /\ operations'[1].step = step
      /\ \A i \in DOMAIN operations : i # 1 => operations'[i] = operations[i]
  BY Advanced
<1>2. \A i \in DOMAIN operations : operations'[i].op = operations[i].op /\ operations'[i].version = operations[i].version
  BY <1>1
<1>3. StartsHold'
  <2> SUFFICES ASSUME NEW i \in DOMAIN operations, operations[i].op = "start"
               PROVE  /\ operations'[i].version <= session'.version
                      /\ operations'[i].version = session'.version => session'.mounted
                      /\ operations'[i].step # "compare"
                      /\ operations'[i].step # "initialize" => journal'.exists
                      /\ i # 1 => operations'[i].step = "initialize"
    BY <1>1, <1>2 DEF StartsHold
  <2>1. CASE i = 1
    BY <1>1, <2>1 DEF StartsHold
  <2>2. CASE i # 1
    BY <1>1, <2>2 DEF StartsHold
  <2> QED
    BY <2>1, <2>2
<1>4. OnlyFirstRuns'
  BY <1>1 DEF OnlyFirstRuns
<1>5. FollowHolds'
  BY <1>1, <1>2 DEF FollowHolds, StartIsNext
<1> QED
  BY <1>1, <1>3, <1>4, <1>5

\* The operation that runs ends, and its start with it, unless it subscribed.
LEMMA QueueReturns ==
  ASSUME SeInvariant, operations # <<>>, Return,
         journal'.exists = journal.exists,
         session'.version = session.version, session'.mounted = session.mounted,
         session'.subscribed => session'.mounted, session.subscribed => session'.subscribed,
         seUsed'.rejects = 0 => seUsed.rejects = 0,
         StartIsNext(operations[1]) => session'.subscribed \/ seUsed'.rejects # 0
  PROVE  StartsHold' /\ OnlyFirstRuns' /\ FollowHolds' /\ operations' \in Seq(SeOperations)
<1> USE DEF SeInvariant
<1>1. /\ operations' \in Seq(SeOperations) /\ 1 \in DOMAIN operations
      /\ \A i \in DOMAIN operations' : i + 1 \in DOMAIN operations /\ operations'[i] = operations[i + 1] /\ i \in Nat \ {0}
      /\ \A i \in DOMAIN operations : i # 1 => i \in Nat /\ i - 1 \in DOMAIN operations' /\ operations'[i - 1] = operations[i]
  BY Returned
<1>2. \A i \in DOMAIN operations' : i + 1 # 1
  BY <1>1
<1>3. StartsHold' /\ OnlyFirstRuns'
  <2> SUFFICES ASSUME NEW i \in DOMAIN operations'
               PROVE  /\ operations'[i].step # "resolve"
                      /\ operations'[i].op = "start" =>
                           /\ operations'[i].version <= session'.version
                           /\ operations'[i].version = session'.version => session'.mounted
                           /\ operations'[i].step = "initialize"
    BY DEF StartsHold, OnlyFirstRuns
  <2>1. PICK j \in DOMAIN operations : j # 1 /\ operations'[i] = operations[j]
    BY <1>1, <1>2
  <2> QED
    BY <2>1 DEF StartsHold, OnlyFirstRuns
<1>4. FollowHolds'
  <2> SUFFICES ASSUME session'.mounted, seUsed'.rejects = 0, ~session'.subscribed
               PROVE  \E i \in DOMAIN operations' : operations'[i].op = "start" /\ operations'[i].version = session'.version
    BY DEF FollowHolds, StartIsNext
  <2>1. PICK i \in DOMAIN operations : StartIsNext(operations[i])
    BY DEF FollowHolds
  <2>2. i # 1
    BY <2>1
  <2>3. PICK j \in DOMAIN operations' : operations'[j] = operations[i]
    BY <1>1, <2>2
  <2> QED
    BY <2>1, <2>3 DEF StartIsNext
<1> QED
  BY <1>1, <1>3, <1>4

\* What the durable runtime gives the operation that runs.
LEMMA SeRan ==
  ASSUME SeInvariant, Initialize \/ AppendEntry \/ ReadSnapshot
  PROVE  SeInvariant' /\ session'.tree = session.tree
<1> USE DEF SeInvariant
<1> DEFINE T == [version : Nat, mounted : BOOLEAN, subscribed : BOOLEAN, told : Nat, revision : Nat, tree : Nat]
           J == [exists : BOOLEAN, entries : Nat, revision : Nat]
<1>1. PICK s \in T, j \in J : s = session /\ j = journal
  BY DEF SeTypes
<1>2. /\ s.tree <= s.revision /\ s.revision <= j.revision /\ (~j.exists => j.revision = 0)
      /\ seUsed.rejects = 0 => s.tree = s.revision \/ At("resolve")
  BY <1>1 DEF ShownHolds
<1>3. CASE Initialize
  <2>1. operations # <<>> /\ ~At("resolve") /\ session' = session /\ seWorker' = seWorker /\ seUsed' = seUsed
    BY <1>3 DEF Initialize, At
  <2>2. PICK k \in J : k = journal' /\ k.exists = TRUE /\ j.revision <= k.revision
    <3>1. CASE journal.exists
      BY <1>1, <1>3, <3>1 DEF Initialize
    <3>2. CASE ~journal.exists
      <4>1. PICK k \in J : k = [j EXCEPT !.exists = TRUE, !.revision = 1]
        OBVIOUS
      <4>2. k.exists = TRUE /\ k.revision = 1 /\ j.revision = 0
        BY <1>1, <1>2, <3>2, <4>1
      <4>3. journal' = k
        BY <1>1, <1>3, <3>2, <4>1 DEF Initialize
      <4> QED
        BY <4>2, <4>3
    <3> QED
      BY <3>1, <3>2
  <2>3. PICK step \in {"append", "read"} : Advance(step)
    BY <1>3 DEF Initialize
  <2>4. StartsHold' /\ OnlyFirstRuns' /\ FollowHolds' /\ operations' \in Seq(SeOperations)
    BY <2>1, <2>2, <2>3, QueueAdvances
  <2>5. SeTypes'
    BY <2>1, <2>2, <2>4 DEF SeTypes
  <2>6. ShownHolds'
    BY <1>1, <1>2, <2>1, <2>2 DEF ShownHolds
  <2> QED
    BY <2>1, <2>4, <2>5, <2>6
<1>4. CASE AppendEntry
  <2>1. operations # <<>> /\ ~At("resolve") /\ session' = session /\ seWorker' = seWorker /\ seUsed' = seUsed
    BY <1>4 DEF AppendEntry, At
  <2>2. PICK k \in J : k = journal' /\ k.exists = TRUE /\ j.revision <= k.revision
    <3>1. [j EXCEPT !.entries = @ + 1] \in J
      OBVIOUS
    <3> QED
      BY <1>1, <1>4, <3>1 DEF AppendEntry
  <2>3. Advance("read")
    BY <1>4 DEF AppendEntry
  <2>4. StartsHold' /\ OnlyFirstRuns' /\ FollowHolds' /\ operations' \in Seq(SeOperations)
    BY <2>1, <2>2, <2>3, QueueAdvances
  <2>5. SeTypes'
    BY <2>1, <2>2, <2>4 DEF SeTypes
  <2>6. ShownHolds'
    BY <1>1, <1>2, <2>1, <2>2 DEF ShownHolds
  <2> QED
    BY <2>1, <2>4, <2>5, <2>6
<1>5. CASE ReadSnapshot
  <2>1. operations # <<>> /\ journal' = journal /\ seWorker' = seWorker /\ seUsed' = seUsed /\ j.exists = TRUE
    BY <1>1, <1>5 DEF ReadSnapshot, At
  <2>2. PICK n \in T : n = session' /\ n = [s EXCEPT !.revision = j.revision]
    <3>1. [s EXCEPT !.revision = j.revision] \in T
      OBVIOUS
    <3> QED
      BY <1>1, <1>5, <3>1 DEF ReadSnapshot, RevisionRead
  <2>3. n.version = s.version /\ n.mounted = s.mounted /\ n.subscribed = s.subscribed /\ n.tree = s.tree
        /\ n.revision = j.revision
    BY <2>2
  <2>4. Advance("resolve")
    BY <1>5 DEF ReadSnapshot
  <2>5. StartsHold' /\ OnlyFirstRuns' /\ FollowHolds' /\ operations' \in Seq(SeOperations)
        /\ operations' # <<>> /\ operations'[1].step = "resolve"
    BY <1>1, <2>1, <2>2, <2>3, <2>4, QueueAdvances
  <2>6. SeTypes'
    BY <1>1, <2>1, <2>2, <2>5 DEF SeTypes
  <2>7. ShownHolds'
    BY <1>1, <1>2, <2>1, <2>2, <2>3, <2>5 DEF ShownHolds, At
  <2> QED
    BY <1>1, <2>2, <2>3, <2>5, <2>6, <2>7
<1> QED
  BY <1>3, <1>4, <1>5

\* The operation that runs ends: what is shown is what was read last.
LEMMA SeEnded ==
  ASSUME SeInvariant, Resolve \/ Compare \/ RejectOperation \/ Missing
  PROVE  SeInvariant' /\ session'.tree >= session.tree
<1> USE DEF SeInvariant
<1> DEFINE T == [version : Nat, mounted : BOOLEAN, subscribed : BOOLEAN, told : Nat, revision : Nat, tree : Nat]
           W == [on : BOOLEAN, owed : Nat]
<1>1. PICK s \in T, w \in W : s = session /\ w = seWorker
  BY DEF SeTypes
<1>2. /\ s.tree <= s.revision /\ s.revision <= journal.revision /\ (~journal.exists => journal.revision = 0)
      /\ seUsed.rejects = 0 => s.tree = s.revision \/ At("resolve")
      /\ s.subscribed => s.mounted
  BY <1>1 DEF ShownHolds, FollowHolds
<1>3. ASSUME operations # <<>> PROVE operations[1] \in SeOperations /\ 1 \in DOMAIN operations
  <2>1. operations \in Seq(SeOperations)
    BY DEF SeTypes
  <2>2. 1 \in DOMAIN operations
    BY <1>3, <2>1
  <2> QED
    BY <2>1, <2>2
<1>4. CASE Resolve
  <2>1. operations # <<>> /\ Return /\ journal' = journal /\ seUsed' = seUsed
    BY <1>4 DEF Resolve, At
  <2>2. PICK n \in T : /\ n = session' /\ n.version = s.version /\ n.mounted = s.mounted
                       /\ n.tree = s.revision /\ n.revision = s.revision
                       /\ s.subscribed => n.subscribed
                       /\ Subscribes(operations[1]) => n.subscribed
                       /\ n.subscribed => s.subscribed \/ Subscribes(operations[1])
    <3>1. /\ [s EXCEPT !.tree = s.revision, !.subscribed = TRUE, !.told = s.revision] \in T
          /\ [s EXCEPT !.tree = s.revision] \in T
      OBVIOUS
    <3>2. CASE Subscribes(operations[1])
      BY <1>1, <1>4, <3>1, <3>2 DEF Resolve
    <3>3. CASE ~Subscribes(operations[1])
      BY <1>1, <1>4, <3>1, <3>3 DEF Resolve
    <3> QED
      BY <3>2, <3>3
  <2>3. seWorker' \in W
    <3>1. [w EXCEPT !.owed = @ + 1] \in W
      OBVIOUS
    <3> QED
      BY <1>1, <1>4, <3>1 DEF Resolve
  <2>4. Subscribes(operations[1]) => s.mounted
    BY <1>1, <1>3, <2>1 DEF Subscribes, StartsHold
  <2>5. StartIsNext(operations[1]) => n.subscribed
    BY <1>1, <2>2 DEF StartIsNext, Subscribes
  <2>6. StartsHold' /\ OnlyFirstRuns' /\ FollowHolds' /\ operations' \in Seq(SeOperations)
    BY <1>1, <1>2, <2>1, <2>2, <2>4, <2>5, QueueReturns
  <2>7. SeTypes'
    BY <2>1, <2>2, <2>3, <2>6 DEF SeTypes
  <2>8. ShownHolds' /\ session'.tree >= session.tree
    BY <1>1, <1>2, <2>1, <2>2 DEF ShownHolds
  <2> QED
    BY <2>6, <2>7, <2>8
<1>5. CASE Compare
  <2>1. /\ operations # <<>> /\ ~At("resolve") /\ operations[1].op # "start"
        /\ session' = session /\ journal' = journal /\ seUsed' = seUsed /\ seWorker' = seWorker
    BY <1>3, <1>5 DEF Compare, At, StartsHold
  <2>2. CASE Return
    <3>1. StartsHold' /\ OnlyFirstRuns' /\ FollowHolds' /\ operations' \in Seq(SeOperations)
      BY <1>1, <1>2, <2>1, <2>2, QueueReturns DEF StartIsNext
    <3> QED
      BY <1>1, <1>2, <2>1, <3>1 DEF SeTypes, ShownHolds
  <2>3. CASE Advance("read")
    <3>2. StartsHold' /\ OnlyFirstRuns' /\ FollowHolds' /\ operations' \in Seq(SeOperations)
      BY <2>1, <2>3, QueueAdvances
    <3> QED
      BY <1>1, <1>2, <2>1, <3>2 DEF SeTypes, ShownHolds
  <2> QED
    BY <1>5, <2>2, <2>3 DEF Compare
<1>6. CASE RejectOperation
  <2>1. PICK u \in [mounts : Nat, resyncs : Nat, rejects : Nat] : u = seUsed
    BY DEF SeTypes
  <2>2. /\ operations # <<>> /\ Return /\ session' = session /\ journal' = journal /\ seWorker' = seWorker
        /\ seUsed' = [u EXCEPT !.rejects = @ + 1]
    BY <1>6, <2>1 DEF RejectOperation, At
  <2>3. [u EXCEPT !.rejects = @ + 1] \in [mounts : Nat, resyncs : Nat, rejects : Nat]
        /\ [u EXCEPT !.rejects = @ + 1].rejects # 0
    OBVIOUS
  <2>4. StartsHold' /\ OnlyFirstRuns' /\ FollowHolds' /\ operations' \in Seq(SeOperations)
    BY <1>1, <1>2, <2>2, <2>3, QueueReturns
  <2> QED
    BY <1>1, <1>2, <2>2, <2>3, <2>4 DEF SeTypes, ShownHolds
<1>7. CASE Missing
  <2>1. /\ operations # <<>> /\ Return /\ ~At("resolve") /\ operations[1].op # "start"
        /\ session' = session /\ journal' = journal /\ seUsed' = seUsed /\ seWorker' = seWorker
    BY <1>3, <1>7 DEF Missing, At, StartsHold
  <2>2. StartsHold' /\ OnlyFirstRuns' /\ FollowHolds' /\ operations' \in Seq(SeOperations)
    BY <1>1, <1>2, <2>1, QueueReturns DEF StartIsNext
  <2> QED
    BY <1>1, <1>2, <2>1, <2>2 DEF SeTypes, ShownHolds
<1> QED
  BY <1>4, <1>5, <1>6, <1>7

\* Unmounting, the worker, other hosts, and nothing at all.
LEMMA SeAround ==
  ASSUME SeInvariant, Unmount \/ WorkerStarts \/ WorkerCommits \/ OthersCommit \/ OthersAppend \/ UNCHANGED seVars
  PROVE  SeInvariant' /\ session'.tree = session.tree
<1> USE DEF SeInvariant
<1> DEFINE T == [version : Nat, mounted : BOOLEAN, subscribed : BOOLEAN, told : Nat, revision : Nat, tree : Nat]
           J == [exists : BOOLEAN, entries : Nat, revision : Nat]
           W == [on : BOOLEAN, owed : Nat]
<1>1. PICK s \in T, j \in J, w \in W : s = session /\ j = journal /\ w = seWorker
  BY DEF SeTypes
<1>2. operations' = operations /\ seUsed' = seUsed
  BY DEF Unmount, WorkerStarts, WorkerCommits, OthersCommit, CommitAll, OthersAppend, seVars
<1>3. CASE Unmount
  <2>1. PICK n \in T : n = session' /\ n = [s EXCEPT !.version = @ + 1, !.mounted = FALSE, !.subscribed = FALSE]
    <3>1. PICK v \in Nat : v = s.version + 1
      OBVIOUS
    <3>2. [s EXCEPT !.version = v, !.mounted = FALSE, !.subscribed = FALSE] \in T
      OBVIOUS
    <3> QED
      BY <1>1, <1>3, <3>1, <3>2 DEF Unmount
  <2>2. n.version = s.version + 1 /\ n.mounted = FALSE /\ n.subscribed = FALSE /\ n.tree = s.tree /\ n.revision = s.revision
    BY <2>1
  <2>3. seWorker' \in W /\ journal' = journal
    <3>1. [w EXCEPT !.on = FALSE] \in W
      OBVIOUS
    <3> QED
      BY <1>1, <1>3, <3>1 DEF Unmount
  <2>6. SeTypes'
    BY <1>2, <2>1, <2>3 DEF SeTypes
  <2>4. ASSUME NEW i \in DOMAIN operations PROVE operations[i].version \in Nat
    <3>1. operations \in Seq(SeOperations)
      BY DEF SeTypes
    <3>2. operations[i] \in SeOperations
      BY <3>1
    <3> QED
      BY <3>2 DEF SeOperations
  <2>5. ASSUME NEW i \in DOMAIN operations, operations[i].op = "start"
        PROVE  operations[i].version < n.version
    BY <1>1, <2>2, <2>4, <2>5 DEF StartsHold
  <2>7. StartsHold' /\ OnlyFirstRuns'
    BY <1>2, <2>1, <2>2, <2>3, <2>4, <2>5 DEF StartsHold, OnlyFirstRuns
  <2>8. ShownHolds' /\ FollowHolds'
    BY <1>1, <1>2, <2>1, <2>2, <2>3 DEF ShownHolds, FollowHolds, At
  <2> QED
    BY <1>1, <2>1, <2>2, <2>6, <2>7, <2>8
<1>4. CASE ~Unmount
  <2>1. session' = session
    BY <1>4 DEF WorkerStarts, WorkerCommits, OthersCommit, CommitAll, OthersAppend, seVars
  <2>2. PICK k \in J : k = journal' /\ j.revision <= k.revision /\ (j.exists => k.exists) /\ (~k.exists => k.revision = 0)
    <3>1. CASE WorkerCommits \/ OthersCommit
      <4>1. j.exists /\ j.revision < j.entries + 1 /\ journal' = [j EXCEPT !.revision = j.entries + 1]
        BY <1>1, <3>1 DEF WorkerCommits, OthersCommit, CommitAll
      <4>2. PICK n \in Nat : n = j.entries + 1
        OBVIOUS
      <4>3. PICK k \in J : k = [j EXCEPT !.revision = n]
        OBVIOUS
      <4> QED
        BY <4>1, <4>2, <4>3
    <3>2. CASE OthersAppend /\ journal.exists
      <4>1. PICK n \in Nat : n = j.entries + 1
        OBVIOUS
      <4>2. PICK k \in J : k = [j EXCEPT !.entries = n]
        OBVIOUS
      <4>3. journal' = k /\ k.exists = j.exists /\ k.revision = j.revision
        BY <1>1, <3>2, <4>1, <4>2 DEF OthersAppend
      <4>4. j.revision <= j.revision
        BY <1>1
      <4>5. k.exists
        BY <1>1, <3>2, <4>3
      <4> QED
        BY <4>2, <4>3, <4>4, <4>5
    <3>3. CASE OthersAppend /\ ~journal.exists
      <4>1. PICK k \in J : k = [exists |-> TRUE, entries |-> 1, revision |-> 1]
        OBVIOUS
      <4>2. j.revision = 0 /\ ~j.exists
        BY <1>1, <3>3 DEF ShownHolds
      <4>3. journal' = k /\ k.exists = TRUE /\ k.revision = 1
        BY <3>3, <4>1 DEF OthersAppend
      <4> QED
        BY <4>2, <4>3
    <3>4. CASE WorkerStarts \/ UNCHANGED seVars
      BY <1>1, <3>4 DEF WorkerStarts, seVars, ShownHolds
    <3> QED
      BY <1>4, <3>1, <3>2, <3>3, <3>4
  <2>3. seWorker' \in W
    <3>1. CASE WorkerStarts
      BY <1>1, <3>1 DEF WorkerStarts
    <3>2. CASE ~WorkerStarts
      BY <1>1, <1>4, <3>2 DEF WorkerCommits, OthersCommit, CommitAll, OthersAppend, seVars
    <3> QED
      BY <3>1, <3>2
  <2>4. SeTypes'
    BY <1>2, <2>1, <2>2, <2>3 DEF SeTypes
  <2>5. StartsHold' /\ OnlyFirstRuns'
    BY <1>1, <1>2, <2>1, <2>2 DEF StartsHold, OnlyFirstRuns
  <2>6. ShownHolds' /\ FollowHolds'
    BY <1>1, <1>2, <2>1, <2>2 DEF ShownHolds, FollowHolds, At, StartIsNext
  <2> QED
    BY <2>1, <2>4, <2>5, <2>6
<1> QED
  BY <1>3, <1>4

LEMMA SeStep == SeInvariant /\ [SeNext]_seVars => SeInvariant' /\ session'.tree >= session.tree
<1> SUFFICES ASSUME SeInvariant, [SeNext]_seVars PROVE SeInvariant' /\ session'.tree >= session.tree
  OBVIOUS
<1>1. session.tree \in Nat
  BY DEF SeInvariant, SeTypes
<1>2. session'.tree = session.tree => session'.tree >= session.tree
  BY <1>1
<1> QED
  BY <1>2, SeAsked, SeRan, SeEnded, SeAround DEF SeNext, OperationStep

LEMMA SeFollows == SeInvariant => FollowsWhileMounted
BY DEF SeInvariant, FollowsWhileMounted, AtRest, FollowHolds, ShownHolds, At

-------------------------------------------------------------------------------
(***************************************************************************)
(* Hosted children.                                                        *)
(***************************************************************************)
HbPlaces == {"rest", "removing", "choosing", "resolving", "updating", "replacing", "mounting", "stopping"}
Paths == UNION {DOMAIN tree : tree \in HbTrees}
Requests == [stop : {TRUE}, tree : {NoTree}] \cup [stop : {FALSE}, tree : HbTrees]
Turns == [tree : HbTrees \cup {NoTree}, done : SUBSET Paths, at : HbPlaces, path : Paths \cup {""}]
HbTypes ==
    /\ chain \in Seq(Requests) /\ turn \in Turns
    /\ hbUsed \in [requests : Nat, trips : Nat, instances : Nat]
ChildrenOfPaths == DOMAIN children \subseteq Paths
    /\ \A p \in DOMAIN children : children[p].instance = Child(p, children[p].instance.n)

\* What a turn may rely on where it awaits.
TurnHolds ==
    /\ turn.at \in {"rest", "stopping"} => turn.tree = NoTree
    /\ turn.at = "removing" => turn.done = {}
    /\ turn.at \notin {"rest", "stopping", "removing"} => DOMAIN children \subseteq DOMAIN turn.tree
    /\ turn.at \in {"resolving", "updating", "replacing", "mounting"} => turn.path \in DOMAIN turn.tree
    /\ turn.at \in {"updating", "replacing"} => turn.path \in DOMAIN children
    /\ turn.at = "mounting" => \A child \in live : child.path # turn.path
    /\ turn.at = "stopping" => \A p \in turn.done : p \in DOMAIN children /\ children[p].instance \notin live
    /\ turn.at # "stopping" => turn.done \subseteq DOMAIN turn.tree

\* The path that the turn works on, or has unmounted.
Doing(p) == turn.at \in {"resolving", "updating", "replacing", "mounting"} /\ p = turn.path
Gone(p) == \/ turn.at = "stopping" /\ p \in turn.done
           \/ turn.at = "mounting" /\ p = turn.path
AllAlive == hbUsed.trips = 0 => \A p \in DOMAIN children : children[p].instance \in live \/ Gone(p)
DoneAsDeclared == turn.at \notin {"rest", "removing", "stopping"} => \A p \in turn.done :
    Doing(p) \/ (p \in DOMAIN children /\ children[p].signature = turn.tree[p])
Signatures == [p \in DOMAIN children |-> children[p].signature]
RestedAsWanted == turn.at = "rest" /\ hbUsed.trips = 0 => Signatures = wanted
HbInvariant == HbTypes /\ ChildrenOfPaths /\ TurnHolds /\ NoChildIsLost /\ AllAlive /\ DoneAsDeclared /\ RestedAsWanted

\* The empty function is the tree with nothing.
LEMMA HbInitial == HbInit => HbInvariant
<1> SUFFICES ASSUME HbInit PROVE HbInvariant
  OBVIOUS
<1>1. DOMAIN children = {} /\ DOMAIN NoTree = {} /\ live = {}
  BY DEF HbInit, NoTree
<1>2. /\ turn.tree = NoTree /\ turn.done = {} /\ turn.at = "rest" /\ turn.path = ""
      /\ turn \in [tree : HbTrees \cup {NoTree}, done : SUBSET Paths, at : HbPlaces, path : Paths \cup {""}]
  BY DEF HbInit, Resting, HbPlaces
<1>3. HbTypes
  <2>1. turn \in Turns
    BY <1>2 DEF Turns
  <2>2. chain \in Seq(Requests)
    BY DEF HbInit
  <2>3. hbUsed \in [requests : Nat, trips : Nat, instances : Nat]
    BY DEF HbInit
  <2> QED
    BY <2>1, <2>2, <2>3 DEF HbTypes
<1>4. Signatures = NoTree
  BY <1>1 DEF Signatures, NoTree
<1>5. ChildrenOfPaths /\ NoChildIsLost /\ AllAlive
  BY <1>1 DEF ChildrenOfPaths, NoChildIsLost, AllAlive
<1>6. TurnHolds /\ DoneAsDeclared
  BY <1>1, <1>2 DEF TurnHolds, DoneAsDeclared
<1>7. RestedAsWanted
  BY <1>4 DEF RestedAsWanted, HbInit
<1> QED
  BY <1>3, <1>5, <1>6, <1>7 DEF HbInvariant

\* The turn goes on at another place.
LEMMA TurnMoves ==
  ASSUME turn \in Turns, NEW at \in HbPlaces
  PROVE  LET t == [turn EXCEPT !.at = at]
         IN t \in Turns /\ t.at = at /\ t.tree = turn.tree /\ t.done = turn.done /\ t.path = turn.path
BY DEF Turns

\* What a turn has when it begins, and what it knows of its parts.
LEMMA TurnParts ==
  ASSUME turn \in Turns
  PROVE  /\ turn.tree \in HbTrees \cup {NoTree} /\ turn.done \subseteq Paths
         /\ turn.at \in HbPlaces /\ turn.path \in Paths \cup {""}
         /\ turn.tree = [p \in DOMAIN turn.tree |-> turn.tree[p]] /\ DOMAIN turn.tree \subseteq Paths
<1>1. /\ turn.tree \in HbTrees \cup {NoTree} /\ turn.done \subseteq Paths
      /\ turn.at \in HbPlaces /\ turn.path \in Paths \cup {""}
  BY DEF Turns
<1>2. PICK tree \in HbTrees \cup {NoTree} : tree = turn.tree
  BY <1>1
<1>3. CASE tree \in HbTrees
  <2>1. tree = [p \in DOMAIN tree |-> tree[p]]
    BY <1>3, TreesAreFunctions
  <2>2. DOMAIN tree \subseteq Paths
    BY <1>3 DEF Paths
  <2> QED
    BY <1>1, <1>2, <2>1, <2>2
<1>4. CASE tree = NoTree
  <2>1. DOMAIN tree = {} /\ tree = [p \in DOMAIN tree |-> tree[p]]
    BY <1>4 DEF NoTree
  <2> QED
    BY <1>1, <1>2, <2>1
<1> QED
  BY <1>2, <1>3, <1>4

\* A turn that is at rest promises nothing but the children it left.
LEMMA Rests ==
  ASSUME turn' = Resting, chain' = chain, HbTypes, hbUsed' \in [requests : Nat, trips : Nat, instances : Nat]
  PROVE  HbTypes' /\ TurnHolds' /\ DoneAsDeclared' /\ turn'.at = "rest"
<1>1. /\ turn'.tree = NoTree /\ turn'.done = {} /\ turn'.at = "rest" /\ turn'.path = ""
      /\ turn' \in [tree : HbTrees \cup {NoTree}, done : SUBSET Paths, at : HbPlaces, path : Paths \cup {""}]
  BY DEF Resting, HbPlaces
<1> QED
  BY <1>1 DEF HbTypes, Turns, TurnHolds, DoneAsDeclared

\* A child that is no longer kept.
LEMMA Forgotten ==
  ASSUME NEW paths, children' = Forget(paths), ChildrenOfPaths
  PROVE  /\ DOMAIN children' = DOMAIN children \ paths
         /\ \A p \in DOMAIN children' : children'[p] = children[p]
         /\ ChildrenOfPaths'
BY DEF Forget, ChildrenOfPaths

\* A child that is kept, with what the tree declares for it.
LEMMA IsKept ==
  ASSUME NEW path \in Paths, NEW n, children' = Kept(path, n), ChildrenOfPaths
  PROVE  /\ DOMAIN children' = DOMAIN children \cup {path}
         /\ children'[path].instance = Child(path, n) /\ children'[path].signature = turn.tree[path]
         /\ \A p \in DOMAIN children \ {path} : children'[p] = children[p]
         /\ ChildrenOfPaths'
<1>1. /\ DOMAIN children' = DOMAIN children \cup {path}
      /\ children'[path] = [instance |-> Child(path, n), signature |-> turn.tree[path]]
      /\ \A p \in DOMAIN children \ {path} : children'[p] = children[p]
  BY DEF Kept
<1>2. Child(path, n) = Child(path, Child(path, n).n)
  BY DEF Child
<1> QED
  BY <1>1, <1>2 DEF ChildrenOfPaths

\* Two children have different instances.
LEMMA OfTheirPaths ==
  ASSUME ChildrenOfPaths, NEW p \in DOMAIN children
  PROVE  /\ children[p].instance.path = p
         /\ \A q \in DOMAIN children : children[q].instance = children[p].instance => q = p
<1>1. ASSUME NEW q \in DOMAIN children PROVE children[q].instance.path = q
  <2>1. PICK i : i = children[q].instance
    OBVIOUS
  <2>2. i = [path |-> q, n |-> i.n]
    BY <2>1 DEF ChildrenOfPaths, Child
  <2>3. i.path = q
    BY <2>2
  <2> QED
    BY <2>1, <2>3
<1> QED
  BY <1>1

\* reconcile and stop join the chain.
LEMMA HbRequested ==
  ASSUME HbInvariant, Reconcile \/ StopChildren
  PROVE  HbInvariant'
<1> USE DEF HbInvariant
<1>1. PICK what \in Requests : Request(what)
  BY DEF Reconcile, StopChildren, Requests
<1>2. PICK u \in [requests : Nat, trips : Nat, instances : Nat] : u = hbUsed
  BY DEF HbTypes
<1>3. /\ UNCHANGED <<updates, children, live, turn, wanted>> /\ hbUsed' = [u EXCEPT !.requests = @ + 1]
      /\ chain' = Append(chain, what)
  BY <1>1, <1>2 DEF Request
<1>4. [u EXCEPT !.requests = @ + 1] \in [requests : Nat, trips : Nat, instances : Nat]
      /\ [u EXCEPT !.requests = @ + 1].trips = u.trips
  OBVIOUS
<1>5. chain' \in Seq(Requests)
  BY <1>1, <1>3, AppendProperties DEF HbTypes
<1>6. HbTypes'
  BY <1>3, <1>4, <1>5 DEF HbTypes
<1>7. hbUsed'.trips = hbUsed.trips
  BY <1>2, <1>3, <1>4
<1> QED
  BY <1>3, <1>6, <1>7 DEF ChildrenOfPaths, TurnHolds, NoChildIsLost, AllAlive, Gone, DoneAsDeclared, Doing, RestedAsWanted, Signatures

\* A turn begins with all children alive.
LEMMA HbBegins ==
  ASSUME HbInvariant, BeginTurn
  PROVE  HbInvariant'
<1> USE DEF HbInvariant
<1>1. chain \in Seq(Requests) /\ chain # <<>> /\ turn.at = "rest"
  BY DEF BeginTurn, MayBegin, HbTypes
<1>2. PICK asked \in Requests : asked = chain[1]
  BY <1>1
<1>3. /\ asked.stop \in BOOLEAN /\ asked.tree \in HbTrees \cup {NoTree} /\ (asked.stop => asked.tree = NoTree)
  BY DEF Requests
<1>4. PICK at \in {"stopping", "removing"} : at = (IF asked.stop THEN "stopping" ELSE "removing")
  OBVIOUS
<1>5. PICK t : t = [tree |-> asked.tree, done |-> {}, at |-> at, path |-> ""]
  OBVIOUS
<1>6. turn' = t /\ UNCHANGED <<updates, children, live, wanted, hbUsed>>
  BY <1>2, <1>4, <1>5 DEF BeginTurn
<1>7. t \in Turns
  BY <1>3, <1>4, <1>5 DEF Turns, HbPlaces
<1>8. chain' \in Seq(Requests)
  BY <1>1, HeadTailProperties DEF BeginTurn
<1>9. t.at = at /\ t.done = {} /\ t.tree = asked.tree /\ (at = "stopping" => asked.stop)
  BY <1>4, <1>5
<1>10. HbTypes'
  BY <1>6, <1>7, <1>8 DEF HbTypes
<1>11. TurnHolds'
  BY <1>3, <1>4, <1>6, <1>9 DEF TurnHolds
<1>12. AllAlive' /\ DoneAsDeclared' /\ RestedAsWanted'
  BY <1>1, <1>4, <1>6, <1>9 DEF AllAlive, Gone, DoneAsDeclared, RestedAsWanted
<1> QED
  BY <1>6, <1>10, <1>11, <1>12 DEF ChildrenOfPaths, NoChildIsLost

\* A child that is no longer in the tree is unmounted and forgotten.
LEMMA HbRemoves ==
  ASSUME HbInvariant, RemoveChild
  PROVE  HbInvariant'
<1> USE DEF HbInvariant
<1>1. PICK p \in DOMAIN children \ DOMAIN turn.tree :
         live' = live \ {children[p].instance} /\ children' = Forget({p})
  BY DEF RemoveChild
<1>2. turn.at = "removing" /\ UNCHANGED <<updates, chain, turn, wanted, hbUsed>>
  BY DEF RemoveChild
<1>3. /\ DOMAIN children' = DOMAIN children \ {p}
      /\ \A q \in DOMAIN children' : children'[q] = children[q]
      /\ ChildrenOfPaths'
  BY <1>1, Forgotten
<1>4. NoChildIsLost'
  BY <1>1, <1>3 DEF NoChildIsLost
<1>5. AllAlive'
  <2> SUFFICES ASSUME hbUsed.trips = 0, NEW q \in DOMAIN children' PROVE children[q].instance \in live'
    BY <1>2, <1>3 DEF AllAlive
  <2>1. children[q].instance \in live
    BY <1>2, <1>3 DEF AllAlive, Gone
  <2>2. children[q].instance # children[p].instance
    BY <1>1, <1>3, OfTheirPaths
  <2> QED
    BY <1>1, <2>1, <2>2
<1>6. HbTypes' /\ TurnHolds' /\ DoneAsDeclared' /\ RestedAsWanted'
  BY <1>2 DEF HbTypes, TurnHolds, DoneAsDeclared, RestedAsWanted
<1> QED
  BY <1>3, <1>4, <1>5, <1>6

\* What is left is in the tree.
LEMMA HbRemoved ==
  ASSUME HbInvariant, RemovalEnds
  PROVE  HbInvariant'
<1> USE DEF HbInvariant
<1>1. turn.at = "removing" /\ DOMAIN children \subseteq DOMAIN turn.tree
      /\ UNCHANGED <<updates, children, live, chain, wanted, hbUsed>>
  BY DEF RemovalEnds
<1>2. PICK t \in Turns : t = turn' /\ t.at = "choosing" /\ t.tree = turn.tree /\ t.done = turn.done /\ t.path = turn.path
  BY TurnMoves DEF RemovalEnds, HbTypes, HbPlaces
<1>3. turn.done = {}
  BY <1>1 DEF TurnHolds
<1>4. HbTypes'
  BY <1>1, <1>2 DEF HbTypes
<1> QED
  BY <1>1, <1>2, <1>3, <1>4 DEF ChildrenOfPaths, TurnHolds, NoChildIsLost, AllAlive, Gone, DoneAsDeclared, Doing, RestedAsWanted

\* The next path: it is as declared, or the turn will see to it.
LEMMA HbChooses ==
  ASSUME HbInvariant, ChooseChild
  PROVE  HbInvariant'
<1> USE DEF HbInvariant
<1>1. turn.at = "choosing" /\ UNCHANGED <<updates, children, live, chain, wanted, hbUsed>>
  BY DEF ChooseChild
<1>2. PICK p \in DOMAIN turn.tree \ turn.done :
         LET same == p \in DOMAIN children /\ children[p].signature = turn.tree[p]
         IN turn' = [turn EXCEPT !.done = @ \cup {p}, !.path = p, !.at = IF same THEN "choosing" ELSE "resolving"]
  BY DEF ChooseChild
<1>3. PICK at \in {"choosing", "resolving"} :
         /\ turn' = [turn EXCEPT !.done = @ \cup {p}, !.path = p, !.at = at]
         /\ at = "choosing" => p \in DOMAIN children /\ children[p].signature = turn.tree[p]
  BY <1>2
<1>4. turn \in Turns
  BY DEF HbTypes
<1>5. p \in Paths
  BY <1>4, TurnParts
<1>6. PICK t \in Turns : /\ t = turn' /\ t.at = at /\ t.tree = turn.tree /\ t.done = turn.done \cup {p} /\ t.path = p
  <2>1. PICK done \in SUBSET Paths : done = turn.done \cup {p}
    BY <1>4, <1>5, TurnParts
  <2>2. at \in HbPlaces
    BY DEF HbPlaces
  <2>3. PICK t : t = [turn EXCEPT !.done = done, !.path = p, !.at = at]
    OBVIOUS
  <2>4. t \in Turns /\ t.at = at /\ t.tree = turn.tree /\ t.done = done /\ t.path = p
    BY <1>4, <1>5, <2>1, <2>2, <2>3 DEF Turns
  <2>5. turn' = t
    BY <1>3, <1>4, <2>1, <2>3 DEF Turns
  <2> QED
    BY <2>1, <2>4, <2>5
<1>7. HbTypes'
  BY <1>1, <1>6 DEF HbTypes
<1>8. TurnHolds'
  BY <1>1, <1>3, <1>6 DEF TurnHolds
<1>9. DoneAsDeclared'
  BY <1>1, <1>3, <1>6 DEF DoneAsDeclared, Doing
<1> QED
  BY <1>1, <1>3, <1>6, <1>7, <1>8, <1>9 DEF ChildrenOfPaths, NoChildIsLost, AllAlive, Gone, RestedAsWanted

LEMMA HbResolves ==
  ASSUME HbInvariant, ResolveChild
  PROVE  HbInvariant'
<1> USE DEF HbInvariant
<1>1. turn.at = "resolving" /\ UNCHANGED <<updates, children, live, chain, wanted, hbUsed>>
  BY DEF ResolveChild
<1>2. PICK at \in {"mounting", "updating", "replacing"} :
         /\ turn' = [turn EXCEPT !.at = at]
         /\ at = "mounting" <=> turn.path \notin DOMAIN children
  BY DEF ResolveChild
<1>3. PICK t \in Turns : t = turn' /\ t.at = at /\ t.tree = turn.tree /\ t.done = turn.done /\ t.path = turn.path
  BY <1>2, TurnMoves DEF HbTypes, HbPlaces
<1>4. HbTypes'
  BY <1>1, <1>3 DEF HbTypes
<1>5. TurnHolds'
  BY <1>1, <1>2, <1>3 DEF TurnHolds, NoChildIsLost
<1>6. DoneAsDeclared'
  BY <1>1, <1>2, <1>3 DEF DoneAsDeclared, Doing
<1> QED
  BY <1>1, <1>2, <1>3, <1>4, <1>5, <1>6 DEF ChildrenOfPaths, NoChildIsLost, AllAlive, Gone, RestedAsWanted

LEMMA CountsInstance ==
  ASSUME HbTypes, hbUsed' = [hbUsed EXCEPT !.instances = @ + 1]
  PROVE  hbUsed' \in [requests : Nat, trips : Nat, instances : Nat] /\ hbUsed'.trips = hbUsed.trips
<1>1. PICK u \in [requests : Nat, trips : Nat, instances : Nat] : u = hbUsed
  BY DEF HbTypes
<1>2. [u EXCEPT !.instances = @ + 1] \in [requests : Nat, trips : Nat, instances : Nat]
      /\ [u EXCEPT !.instances = @ + 1].trips = u.trips
  OBVIOUS
<1> QED
  BY <1>1, <1>2

\* The path has a child with what the tree declares, and no other one.
LEMMA HbKeeps ==
  ASSUME HbInvariant, NEW n, children' = Kept(turn.path, n),
         turn.at \in {"updating", "mounting"}, turn' = [turn EXCEPT !.at = "choosing"],
         UNCHANGED <<chain, wanted>>, hbUsed' \in [requests : Nat, trips : Nat, instances : Nat],
         hbUsed'.trips = hbUsed.trips,
         hbUsed.trips = 0 => Child(turn.path, n) \in live',
         \A child \in live' : child = Child(turn.path, n) \/ (child \in live /\ child.path # turn.path),
         \A child \in live : child \in live' \/ child.path = turn.path
  PROVE  HbInvariant'
<1> USE DEF HbInvariant
<1>1. PICK t \in Turns : t = turn' /\ t.at = "choosing" /\ t.tree = turn.tree /\ t.done = turn.done /\ t.path = turn.path
  BY TurnMoves DEF HbTypes, HbPlaces
<1>2. /\ DOMAIN children' = DOMAIN children \cup {turn.path}
      /\ children'[turn.path].instance = Child(turn.path, n) /\ children'[turn.path].signature = turn.tree[turn.path]
      /\ \A p \in DOMAIN children \ {turn.path} : children'[p] = children[p]
      /\ ChildrenOfPaths'
  <2>1. turn.path \in Paths
    BY TurnParts DEF HbTypes, TurnHolds
  <2> QED
    BY <2>1, IsKept
<1>3. HbTypes'
  BY <1>1 DEF HbTypes
<1>4. turn.path \in DOMAIN turn.tree /\ DOMAIN children \subseteq DOMAIN turn.tree /\ turn.done \subseteq DOMAIN turn.tree
  BY DEF TurnHolds
<1>5. TurnHolds'
  BY <1>1, <1>2, <1>4 DEF TurnHolds
<1>6. Child(turn.path, n).path = turn.path
  BY DEF Child
<1>7. NoChildIsLost'
  BY <1>2, <1>6 DEF NoChildIsLost
<1>8. DoneAsDeclared'
  BY <1>1, <1>2 DEF DoneAsDeclared, Doing
<1>9. AllAlive'
  <2> SUFFICES ASSUME hbUsed.trips = 0, NEW p \in DOMAIN children' PROVE children'[p].instance \in live'
    BY DEF AllAlive
  <2>1. CASE p = turn.path
    BY <1>2, <2>1
  <2>2. CASE p # turn.path
    <3>1. p \in DOMAIN children /\ children'[p] = children[p] /\ children[p].instance \in live
      BY <1>2, <2>2 DEF AllAlive, Gone
    <3>2. children[p].instance.path = p
      BY <3>1, OfTheirPaths
    <3> QED
      BY <2>2, <3>1, <3>2
  <2> QED
    BY <2>1, <2>2
<1>10. RestedAsWanted'
  BY <1>1 DEF RestedAsWanted
<1> QED
  BY <1>2, <1>3, <1>5, <1>7, <1>8, <1>9, <1>10

\* update keeps the instance or returns another one in its place.
LEMMA HbUpdates ==
  ASSUME HbInvariant, UpdateChild
  PROVE  HbInvariant'
<1> USE DEF HbInvariant
<1>1. /\ turn.at = "updating" /\ UNCHANGED <<chain, wanted>> /\ turn' = [turn EXCEPT !.at = "choosing"]
  BY DEF UpdateChild
<1>2. turn.path \in DOMAIN children
  BY <1>1 DEF TurnHolds
<1>3. PICK old : old = children[turn.path].instance
  OBVIOUS
<1>4. old = Child(turn.path, old.n) /\ old.path = turn.path
  BY <1>2, <1>3, OfTheirPaths DEF ChildrenOfPaths
<1>5. \A child \in live : child = old \/ child.path # turn.path
  BY <1>3 DEF NoChildIsLost
<1>6. hbUsed.trips = 0 => old \in live
  BY <1>1, <1>2, <1>3 DEF AllAlive, Gone
<1>7. CASE children' = Kept(turn.path, old.n) /\ UNCHANGED <<live, hbUsed>>
  <2>1. hbUsed' \in [requests : Nat, trips : Nat, instances : Nat]
    BY <1>7 DEF HbTypes
  <2> QED
    BY <1>1, <1>4, <1>5, <1>6, <1>7, <2>1, HbKeeps
<1>8. CASE /\ children' = Kept(turn.path, hbUsed.instances + 1)
           /\ live' = (live \ {old}) \cup {Child(turn.path, hbUsed.instances + 1)}
           /\ hbUsed' = [hbUsed EXCEPT !.instances = @ + 1]
  <2>1. hbUsed' \in [requests : Nat, trips : Nat, instances : Nat] /\ hbUsed'.trips = hbUsed.trips
    BY <1>8, CountsInstance
  <2>2. \A child \in live' : child = Child(turn.path, hbUsed.instances + 1) \/ (child \in live /\ child.path # turn.path)
    BY <1>5, <1>8
  <2>3. \A child \in live : child \in live' \/ child.path = turn.path
    BY <1>4, <1>8
  <2> QED
    BY <1>1, <1>8, <2>1, <2>2, <2>3, HbKeeps
<1> QED
  BY <1>3, <1>7, <1>8 DEF UpdateChild

\* A child that cannot be updated is unmounted before another one is mounted.
LEMMA HbReplaces ==
  ASSUME HbInvariant, ReplaceChild
  PROVE  HbInvariant'
<1> USE DEF HbInvariant
<1>1. turn.at = "replacing" /\ live' = live \ {children[turn.path].instance}
      /\ UNCHANGED <<updates, children, chain, wanted, hbUsed>>
  BY DEF ReplaceChild, UnmountedInPlace
<1>2. PICK t \in Turns : t = turn' /\ t.at = "mounting" /\ t.tree = turn.tree /\ t.done = turn.done /\ t.path = turn.path
  BY TurnMoves DEF ReplaceChild, HbTypes, HbPlaces
<1>3. turn.path \in DOMAIN children
  BY <1>1 DEF TurnHolds
<1>4. HbTypes' /\ NoChildIsLost'
  BY <1>1, <1>2 DEF HbTypes, NoChildIsLost
<1>5. TurnHolds'
  <2>1. \A child \in live' : child.path # turn.path
    BY <1>1 DEF NoChildIsLost
  <2> QED
    BY <1>1, <1>2, <2>1 DEF TurnHolds
<1>6. AllAlive'
  <2> SUFFICES ASSUME hbUsed.trips = 0, NEW p \in DOMAIN children, p # turn.path PROVE children[p].instance \in live'
    BY <1>1, <1>2 DEF AllAlive, Gone
  <2>1. children[p].instance \in live
    BY <1>1 DEF AllAlive, Gone
  <2>2. children[p].instance # children[turn.path].instance
    BY <1>3, OfTheirPaths
  <2> QED
    BY <1>1, <2>1, <2>2
<1>7. ChildrenOfPaths' /\ DoneAsDeclared' /\ RestedAsWanted'
  BY <1>1, <1>2 DEF ChildrenOfPaths, DoneAsDeclared, Doing, RestedAsWanted
<1> QED
  BY <1>4, <1>5, <1>6, <1>7

LEMMA HbMounts ==
  ASSUME HbInvariant, MountChild
  PROVE  HbInvariant'
<1> USE DEF HbInvariant
<1>1. /\ turn.at = "mounting" /\ UNCHANGED <<chain, wanted>> /\ turn' = [turn EXCEPT !.at = "choosing"]
      /\ children' = Kept(turn.path, hbUsed.instances + 1)
      /\ live' = live \cup {Child(turn.path, hbUsed.instances + 1)}
      /\ hbUsed' = [hbUsed EXCEPT !.instances = @ + 1]
  BY DEF MountChild
<1>2. hbUsed' \in [requests : Nat, trips : Nat, instances : Nat] /\ hbUsed'.trips = hbUsed.trips
  BY <1>1, CountsInstance
<1>3. \A child \in live : child.path # turn.path
  BY <1>1 DEF TurnHolds
<1> QED
  BY <1>1, <1>2, <1>3, HbKeeps

\* stop unmounts one child after the other.
LEMMA HbStops ==
  ASSUME HbInvariant, StopChild
  PROVE  HbInvariant'
<1> USE DEF HbInvariant
<1>1. turn.at = "stopping" /\ UNCHANGED <<updates, children, chain, wanted, hbUsed>>
  BY DEF StopChild
<1>2. PICK p \in DOMAIN children \ turn.done :
         live' = live \ {children[p].instance} /\ turn' = [turn EXCEPT !.done = @ \cup {p}]
  BY DEF StopChild
<1>3. turn \in Turns
  BY DEF HbTypes
<1>4. p \in Paths
  BY DEF ChildrenOfPaths
<1>5. PICK t \in Turns : t = turn' /\ t.at = "stopping" /\ t.tree = turn.tree /\ t.done = turn.done \cup {p}
  <2>1. PICK done \in SUBSET Paths : done = turn.done \cup {p}
    BY <1>3, <1>4, TurnParts
  <2>2. PICK t : t = [turn EXCEPT !.done = done]
    OBVIOUS
  <2>3. t \in Turns /\ t.at = "stopping" /\ t.tree = turn.tree /\ t.done = done
    BY <1>1, <1>3, <2>1, <2>2 DEF Turns
  <2>4. turn' = t
    BY <1>2, <1>3, <2>1, <2>2 DEF Turns
  <2> QED
    BY <2>1, <2>3, <2>4
<1>6. HbTypes' /\ NoChildIsLost'
  BY <1>1, <1>2, <1>5 DEF HbTypes, NoChildIsLost
<1>7. TurnHolds'
  BY <1>1, <1>2, <1>5 DEF TurnHolds
<1>8. AllAlive'
  <2> SUFFICES ASSUME hbUsed.trips = 0, NEW q \in DOMAIN children, q \notin t.done PROVE children[q].instance \in live'
    BY <1>1, <1>5 DEF AllAlive, Gone
  <2>1. children[q].instance \in live
    BY <1>1, <1>5 DEF AllAlive, Gone
  <2>2. q # p
    BY <1>5
  <2>3. children[q].instance # children[p].instance
    BY <1>2, <2>2, OfTheirPaths
  <2> QED
    BY <1>2, <2>1, <2>3
<1>9. ChildrenOfPaths' /\ DoneAsDeclared' /\ RestedAsWanted'
  BY <1>1, <1>5 DEF ChildrenOfPaths, DoneAsDeclared, RestedAsWanted
<1> QED
  BY <1>6, <1>7, <1>8, <1>9

\* A turn that ends leaves the children of its tree, or none.
LEMMA HbEnds ==
  ASSUME HbInvariant, TurnEnds
  PROVE  HbInvariant'
<1> USE DEF HbInvariant
<1>1. turn' = Resting /\ wanted' = turn.tree /\ UNCHANGED <<updates, live, chain, hbUsed>>
  BY DEF TurnEnds
<1>2. HbTypes' /\ TurnHolds' /\ DoneAsDeclared' /\ turn'.at = "rest"
  BY <1>1, Rests DEF HbTypes
<1>3. CASE turn.at = "choosing" /\ turn.done = DOMAIN turn.tree /\ UNCHANGED children
  <2>1. DOMAIN children = DOMAIN turn.tree /\ \A p \in DOMAIN children : children[p].signature = turn.tree[p]
    BY <1>3 DEF TurnHolds, DoneAsDeclared, Doing
  <2>2. turn.tree = [p \in DOMAIN turn.tree |-> turn.tree[p]]
    BY TurnParts DEF HbTypes
  <2>3. Signatures = turn.tree
    BY <2>1, <2>2 DEF Signatures
  <2>4. RestedAsWanted'
    BY <1>1, <1>3, <2>3 DEF RestedAsWanted, Signatures
  <2> QED
    BY <1>1, <1>2, <1>3, <2>4 DEF ChildrenOfPaths, NoChildIsLost, AllAlive, Gone
<1>4. CASE turn.at = "stopping" /\ turn.done = DOMAIN children /\ children' = Forget(DOMAIN children)
  <2>1. DOMAIN children' = {}
    BY <1>4 DEF Forget
  <2>2. live = {}
    BY <1>4 DEF TurnHolds, NoChildIsLost
  <2>3. turn.tree = NoTree
    BY <1>4 DEF TurnHolds
  <2>4. Signatures' = NoTree
    BY <2>1 DEF Signatures, NoTree
  <2> QED
    BY <1>1, <1>2, <2>1, <2>2, <2>3, <2>4 DEF ChildrenOfPaths, NoChildIsLost, AllAlive, RestedAsWanted
<1> QED
  BY <1>3, <1>4 DEF TurnEnds

LEMMA HbRejects ==
  ASSUME HbInvariant, TurnRejects
  PROVE  HbInvariant'
<1> USE DEF HbInvariant
<1>1. turn' = Resting /\ UNCHANGED <<updates, children, chain, wanted>> /\ live' \subseteq live
      /\ hbUsed' = [hbUsed EXCEPT !.trips = @ + 1]
  BY DEF TurnRejects
<1>2. hbUsed' \in [requests : Nat, trips : Nat, instances : Nat] /\ hbUsed'.trips # 0
  <2>1. PICK u \in [requests : Nat, trips : Nat, instances : Nat] : u = hbUsed
    BY DEF HbTypes
  <2>2. [u EXCEPT !.trips = @ + 1] \in [requests : Nat, trips : Nat, instances : Nat]
        /\ [u EXCEPT !.trips = @ + 1].trips # 0
    OBVIOUS
  <2> QED
    BY <1>1, <2>1, <2>2
<1>3. HbTypes' /\ TurnHolds' /\ DoneAsDeclared'
  BY <1>1, <1>2, Rests
<1> QED
  BY <1>1, <1>2, <1>3 DEF ChildrenOfPaths, NoChildIsLost, AllAlive, RestedAsWanted

LEMMA HbStep == HbInvariant /\ [HbNext]_hbVars => HbInvariant'
<1> SUFFICES ASSUME HbInvariant, [HbNext]_hbVars PROVE HbInvariant'
  OBVIOUS
<1>1. CASE UNCHANGED hbVars
  BY <1>1 DEF HbInvariant, hbVars, HbTypes, ChildrenOfPaths, TurnHolds, NoChildIsLost, AllAlive, Gone,
              DoneAsDeclared, Doing, RestedAsWanted, Signatures
<1> QED
  BY <1>1, HbRequested, HbBegins, HbRemoves, HbRemoved, HbChooses, HbResolves, HbUpdates, HbReplaces, HbMounts,
     HbStops, HbEnds, HbRejects DEF HbNext

LEMMA HbChildren == HbInvariant => ChildrenHold
<1> SUFFICES ASSUME HbInvariant PROVE ChildrenHold
  OBVIOUS
<1> USE DEF HbInvariant
<1>1. OneChildPerPath
  BY DEF OneChildPerPath, NoChildIsLost
<1>2. ASSUME turn.at = "rest", hbUsed.trips = 0
      PROVE  live = {children[p].instance : p \in DOMAIN children} /\ Signatures = wanted
  BY <1>2 DEF NoChildIsLost, AllAlive, Gone, RestedAsWanted
<1> QED
  BY <1>1, <1>2 DEF ChildrenHold, ChildrenOfTheTree, Signatures

-------------------------------------------------------------------------------
(***************************************************************************)
(* The projection.                                                         *)
(***************************************************************************)
PjTypes == resolving \subseteq (Declarations \X BOOLEAN) /\ error \in BOOLEAN /\ props \in Declarations
ResolvesNewest ==
    /\ resolution # Nothing => resolution = effect
    /\ \A r \in resolving : r[2] => r[1] = effect
    /\ <<effect, TRUE>> \in resolving => resolution = Nothing /\ ~error
PjInvariant == PjTypes /\ ResolvesNewest /\ ProjectionHolds

LEMMA PjInitial == PjInit => PjInvariant
BY NothingIsNoDeclaration DEF PjInit, PjInvariant, PjTypes, ResolvesNewest, ProjectionHolds, Nothing

LEMMA PjStep == PjInvariant /\ [PjNext]_pjVars => PjInvariant'
<1> SUFFICES ASSUME PjInvariant, [PjNext]_pjVars PROVE PjInvariant'
  OBVIOUS
<1> USE DEF PjInvariant
<1>1. CASE RenderChild
  BY <1>1 DEF RenderChild, PjTypes, ResolvesNewest, ProjectionHolds
<1>2. CASE RunEffects
  <2>1. \A r \in Deactivated : r \in Declarations \X BOOLEAN /\ ~r[2]
    <3> SUFFICES ASSUME NEW q \in resolving PROVE <<q[1], FALSE>> \in Declarations \X BOOLEAN /\ ~<<q[1], FALSE>>[2]
      BY DEF Deactivated
    <3>1. q[1] \in Declarations
      BY DEF PjTypes
    <3> QED
      BY <3>1
  <2>2. PICK new : new = (IF Valid(props) THEN {<<props, TRUE>>} ELSE {})
    OBVIOUS
  <2>3. /\ effect' = props /\ props' = props /\ props \in Declarations
        /\ resolution' = Nothing /\ error' = (props = "invalid")
        /\ resolving' = Deactivated \cup new
        /\ loading' = LoadingFor(props, Nothing, props = "invalid")
    BY <1>2, <2>2 DEF RunEffects, PjTypes
  <2>4. \A r \in new : r = <<props, TRUE>> /\ Valid(props)
    BY <2>2
  <2>5. PjTypes'
    <3>1. \A r \in new : r \in Declarations \X BOOLEAN
      <4>1. <<props, TRUE>> \in Declarations \X BOOLEAN
        BY <2>3
      <4> QED
        BY <2>4, <4>1
    <3>2. error' \in BOOLEAN
      BY <2>3
    <3> QED
      BY <2>1, <2>3, <3>1, <3>2 DEF PjTypes
  <2>6. \A r \in resolving' : r[2] => r = <<props, TRUE>> /\ r[1] = props /\ Valid(props)
    <3> SUFFICES ASSUME NEW r \in resolving', r[2] PROVE r = <<props, TRUE>> /\ r[1] = props /\ Valid(props)
      OBVIOUS
    <3>1. r \in new
      BY <2>1, <2>3
    <3>2. r = <<props, TRUE>> /\ Valid(props)
      BY <2>4, <3>1
    <3> QED
      BY <3>2
  <2>7. <<effect', TRUE>> \in resolving' => ~error'
    <3> SUFFICES ASSUME <<props, TRUE>> \in resolving' PROVE props # "invalid"
      BY <2>3
    <3>1. <<props, TRUE>> \notin Deactivated
      BY <2>1
    <3> QED
      BY <2>3, <2>4, <3>1 DEF Valid
  <2>8. ResolvesNewest'
    BY <2>3, <2>6, <2>7 DEF ResolvesNewest
  <2>9. loading' # "hidden" => <<props, TRUE>> \in resolving' /\ ~error'
    BY <2>2, <2>3 DEF LoadingFor, Valid
  <2>10. ProjectionHolds'
    BY <2>3, <2>9 DEF ProjectionHolds
  <2> QED
    BY <2>5, <2>8, <2>10
<1>3. CASE ResolutionSettles
  <2>1. PICK r \in resolving :
           /\ resolving' = resolving \ {r}
           /\ \/ r[2] /\ resolution' = r[1] /\ UNCHANGED error
              \/ r[2] /\ error' = TRUE /\ UNCHANGED resolution
              \/ ~r[2] /\ UNCHANGED <<resolution, error>>
    BY <1>3 DEF ResolutionSettles
  <2>2. r = <<r[1], r[2]>> /\ r[1] \in Declarations /\ r[2] \in BOOLEAN
    BY DEF PjTypes
  <2>3. /\ UNCHANGED <<props, effect>>
        /\ loading' = IF resolution' # resolution \/ error' # error THEN LoadingFor(effect, resolution', error') ELSE loading
    BY <1>3 DEF ResolutionSettles
  <2>4. CASE r[2]
    <3>1. /\ r[1] = effect /\ r = <<effect, TRUE>> /\ effect # Nothing /\ resolution = Nothing /\ ~error
      BY <2>2, <2>4, NothingIsNoDeclaration DEF ResolvesNewest
    <3>2. \/ resolution' = effect /\ error' = error /\ ~error'
          \/ error' = TRUE /\ resolution' = Nothing
      BY <2>1, <2>4, <3>1
    <3>3. loading' = "hidden"
      BY <2>3, <3>1, <3>2 DEF LoadingFor
    <3>4. <<effect, TRUE>> \notin resolving'
      BY <2>1, <3>1
    <3>5. PjTypes'
      BY <2>1, <2>3, <3>2 DEF PjTypes
    <3>6. ResolvesNewest'
      BY <2>1, <2>3, <3>1, <3>2, <3>4 DEF ResolvesNewest
    <3>7. ProjectionHolds'
      BY <2>3, <3>1, <3>2, <3>3 DEF ProjectionHolds
    <3> QED
      BY <3>5, <3>6, <3>7
  <2>5. CASE ~r[2]
    <3>1. UNCHANGED <<resolution, error, loading>>
      BY <2>1, <2>3, <2>5
    <3>2. r # <<effect, TRUE>>
      <4> SUFFICES ASSUME r = <<effect, TRUE>> PROVE r[2]
        BY <2>5
      <4> QED
        OBVIOUS
    <3>3. PjTypes'
      BY <2>1, <2>3, <3>1 DEF PjTypes
    <3>4. ResolvesNewest'
      BY <2>1, <2>3, <3>1 DEF ResolvesNewest
    <3>5. ProjectionHolds'
      BY <2>1, <2>3, <3>1, <3>2 DEF ProjectionHolds
    <3> QED
      BY <3>3, <3>4, <3>5
  <2> QED
    BY <2>4, <2>5
<1>4. CASE LoadingTimerFires
  BY <1>4 DEF LoadingTimerFires, PjTypes, ResolvesNewest, ProjectionHolds
<1>5. CASE UNCHANGED pjVars
  BY <1>5 DEF pjVars, PjTypes, ResolvesNewest, ProjectionHolds
<1> QED
  BY <1>1, <1>2, <1>3, <1>4, <1>5 DEF PjNext

-------------------------------------------------------------------------------
(***************************************************************************)
(* Together.                                                               *)
(***************************************************************************)
\* A hint belongs to a commit; of the rest of the subscription's types the
\* invariants above say nothing.
SubscriptionTypes ==
    /\ hints \in Nat /\ hints < current
    /\ failures \in 0..MaxFailures
    /\ attach \in {"awaiting", "attached", "absent"}
    /\ timer \in BOOLEAN /\ stopped \in BOOLEAN /\ readPending \in BOOLEAN
    /\ drainScheduled \in BOOLEAN /\ draining \in BOOLEAN

LEMMA SubscriptionTypesInitial == SubInit => SubscriptionTypes
<1> SUFFICES ASSUME SubInit PROVE SubscriptionTypes
  OBVIOUS
<1>1. hints = 0 /\ current \in {1, 2} /\ failures = 0
  BY DEF SubInit
<1>2. readPending \in BOOLEAN /\ drainScheduled \in BOOLEAN /\ (attach = "absent") \in BOOLEAN
  BY DEF SubInit
<1>3. timer \in BOOLEAN /\ stopped \in BOOLEAN /\ draining \in BOOLEAN /\ attach \in {"awaiting", "attached", "absent"}
  BY DEF SubInit
<1> QED
  BY <1>1, <1>2, <1>3, SubscriptionBounds DEF SubscriptionTypes

\* What a call does to what it does not own.
LEMMA LoopTestTypes ==
    ASSUME readPending \in BOOLEAN, NEW others, NEW next, LoopTest(others, next)
    PROVE  readPending' \in BOOLEAN
BY DEF LoopTest, Turn

LEMMA SubscriptionTypesStep ==
    ASSUME SubscriptionInvariant, SubscriptionTypes, [SubNext]_subVars
    PROVE  SubscriptionTypes'
<1> USE DEF SubscriptionTypes
<1>1. current \in Nat
  BY DEF SubscriptionInvariant, RevisionsOrdered, Revisions
<1>2. ScheduleRead => readPending' \in BOOLEAN /\ drainScheduled' \in BOOLEAN
  <2>1. (drainScheduled \/ DrainFree) \in BOOLEAN
    OBVIOUS
  <2> QED
    BY <2>1 DEF ScheduleRead, request
<1>3. CASE Commit
  <2>1. /\ current' = current + 1 /\ hints' \in {hints, hints + 1}
        /\ UNCHANGED <<attach, timer, stopped, request, loop, failures>>
    BY <1>3 DEF Commit
  <2> QED
    BY <1>1, <2>1 DEF request, loop
<1>4. CASE Invalidated
  <2>1. hints' = hints - 1 /\ hints > 0 /\ UNCHANGED <<current, attach, timer, stopped, loop, failures>>
        /\ (ScheduleRead \/ UNCHANGED request)
    BY <1>4 DEF Invalidated
  <2> QED
    BY <1>1, <1>2, <2>1 DEF request, loop
<1>5. CASE Reconnected
  BY <1>2, <1>5 DEF Reconnected, provider, loop
<1>6. CASE AttachSettles
  BY <1>2, <1>6 DEF AttachSettles, CleanupArrives, provider, loop
<1>7. CASE PollFires
  <2>1. PollAgain \in BOOLEAN
    BY DEF PollAgain
  <2> QED
    BY <1>2, <1>7, <2>1 DEF PollFires, provider, loop
<1>8. CASE Microtask
  <2>1. UNCHANGED <<current, hints, attach, timer, stopped, failures>> /\ drainScheduled' = FALSE
    BY <1>8 DEF Microtask, provider
  <2>2. readPending' \in BOOLEAN /\ draining' \in BOOLEAN
    <3>1. CASE ~stopped /\ DrainFree
      BY <1>8, <3>1, LoopTestTypes DEF Microtask
    <3>2. CASE ~(~stopped /\ DrainFree)
      BY <1>8, <3>2 DEF Microtask, loop
    <3> QED
      BY <3>1, <3>2
  <2> QED
    BY <2>1, <2>2
<1>9. CASE DrainFinally
  BY <1>9 DEF DrainFinally, AskAgain, provider, request
<1>10. CASE Unsubscribe
  BY <1>10 DEF Unsubscribe, provider, loop
<1>11. ASSUME NEW c \in calls, CallStep(c)
       PROVE  SubscriptionTypes'
  <2>1. /\ UNCHANGED <<current, hints, attach, timer, stopped, drainScheduled, draining>>
        /\ failures' = failures \/ Fails
    BY <1>11 DEF CallStep, ProviderReads, ReadReturns, ReadRejects, ListenerResolves, ListenerRejects, provider, request
  <2>2. failures' \in 0..MaxFailures
    BY <2>1, SubscriptionBounds DEF Fails
  <2>3. readPending' \in BOOLEAN
    <3>1. readPending' = readPending \/ \E next : LoopTest(calls \ {c}, next)
      BY <1>11 DEF CallStep, ProviderReads, ReadReturns, ReadRejects, ListenerResolves, ListenerRejects, request
    <3> QED
      BY <3>1, LoopTestTypes
  <2> QED
    BY <2>1, <2>2, <2>3
<1>12. CASE UNCHANGED subVars
  BY <1>12 DEF subVars, provider, request, loop
<1> QED
  BY <1>3, <1>4, <1>5, <1>6, <1>7, <1>8, <1>9, <1>10, <1>11, <1>12 DEF SubNext

LEMMA SubscriptionTyped == SubscriptionInvariant /\ SubscriptionTypes => SubscriptionTypeOK
<1> SUFFICES ASSUME SubscriptionInvariant, SubscriptionTypes PROVE SubscriptionTypeOK
  OBVIOUS
<1>1. current \in Revisions /\ revision \in Revisions /\ view \in Revisions /\ hints \in 0..MaxCommits
  BY SubscriptionBounds DEF SubscriptionInvariant, RevisionsOrdered, Revisions, SubscriptionTypes
<1>2. calls \subseteq Calls /\ loopEnds \in {0, 1}
  BY DEF SubscriptionInvariant, DrainInvariant, CallCurrent
<1> QED
  BY <1>1, <1>2 DEF SubscriptionTypes, SubscriptionTypeOK

\* Each part keeps its own invariant, whatever the others do.
HostingInvariant ==
    WorkerInvariant /\ SubscriptionInvariant /\ SubscriptionTypes /\ SeInvariant /\ HbInvariant /\ PjInvariant

LEMMA HostingStep ==
    ASSUME HostingInvariant, [HostingNext]_HostingVars
    PROVE  HostingInvariant' /\ session'.tree >= session.tree
<1> USE DEF HostingInvariant
<1>1. /\ [WorkerNext]_vars /\ [SubNext]_subVars /\ [SeNext]_seVars /\ [HbNext]_hbVars /\ [PjNext]_pjVars
  BY DEF HostingNext, HostingVars
<1>2. WorkerInvariant'
  BY <1>1, WorkerInvariantStep
<1>3. SubscriptionInvariant' /\ SubscriptionTypes'
  BY <1>1, SubscriptionStep, SubscriptionTypesStep
<1>4. SeInvariant' /\ session'.tree >= session.tree
  BY <1>1, SeStep
<1>5. HbInvariant' /\ PjInvariant'
  BY <1>1, HbStep, PjStep
<1> QED
  BY <1>2, <1>3, <1>4, <1>5

LEMMA HostingInvariance == HostingSpec => []HostingInvariant
<1>1. HostingInit => HostingInvariant
  BY WorkerInvariantInitial, SubscriptionInitial, SubscriptionTypesInitial, SeInitial, HbInitial, PjInitial
  DEF HostingInit, HostingInvariant
<1>2. HostingInvariant /\ [HostingNext]_HostingVars => HostingInvariant'
  BY HostingStep
<1> QED
  BY <1>1, <1>2, PTL DEF HostingSpec

(***************************************************************************)
(* What is shown belongs to what is mounted.  However mounts and unmounts  *)
(* overtake the starts in the queue, a source is subscribed only while it  *)
(* is mounted and every start has its turn (durable-blueprint-             *)
(* controller.ts:70); the hosted children are one per path, none lost,     *)
(* those of the last tree (hosted-blueprint-reconciler.ts:52); a late      *)
(* resolution never replaces a newer one; and worker and subscription stay *)
(* typed.                                                                  *)
(***************************************************************************)
THEOREM HostingStaysSafe == HostingSpec => []HostingSafe
<1>1. HostingInvariant => HostingSafe
  <2> SUFFICES ASSUME HostingInvariant PROVE HostingSafe
    OBVIOUS
  <2>1. WorkerTypeOK
    BY InvariantSuffices DEF HostingInvariant, WorkerInvariant, WorkerTypes, WorkerFlags, WorkerTypeOK
  <2>2. SubscriptionTypeOK
    BY SubscriptionTyped DEF HostingInvariant
  <2>3. FollowsWhileMounted /\ ChildrenHold /\ ProjectionHolds
    BY SeFollows, HbChildren DEF HostingInvariant, PjInvariant
  <2> QED
    BY <2>1, <2>2, <2>3 DEF HostingSafe
<1> QED
  BY <1>1, HostingInvariance, PTL

(***************************************************************************)
(* What a rendered source shows never goes back to an older revision,      *)
(* whatever was told late and whichever operation rejected.                *)
(***************************************************************************)
THEOREM TreeNeverReverts == HostingSpec => TreeForward
<1>1. HostingInvariant /\ [HostingNext]_HostingVars => [session'.tree >= session.tree]_seVars
  BY HostingStep
<1> QED
  BY <1>1, HostingInvariance, PTL DEF HostingSpec, TreeForward
=================================================================================
