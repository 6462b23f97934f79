-------------------------- MODULE DurableRuntimeProofs --------------------------
(***************************************************************************)
(* Proofs about DurableRuntime for every set of workers and events, every  *)
(* clock and every bound: the commit and its outbox, then the wake marker, *)
(* the effects lane and its leases, and that it implements DurableInbox.   *)
(***************************************************************************)
EXTENDS DurableRuntime, TLAPS

(***************************************************************************)
(* The type invariant is not inductive alone: what a commit writes is      *)
(* typed only if the batch it folds lies inside the journal.               *)
(***************************************************************************)
SnapshotsBounded ==
    \A w \in Workers : snapshot[w].upto <= Len(journal)

TypeInv == TypeOK /\ SnapshotsBounded

-------------------------------------------------------------------------------
\* Appending keeps the journal typed and every earlier entry in its place.
LEMMA AppendFacts ==
    ASSUME NEW j \in Seq(Entries), NEW entry \in Entries
    PROVE  /\ Append(j, entry) \in Seq(Entries)
           /\ Len(Append(j, entry)) = Len(j) + 1
           /\ Len(j) \in Nat
           /\ \A i \in 1..Len(j) : Append(j, entry)[i] = j[i]
           /\ Append(j, entry)[Len(j) + 1] = entry
  OBVIOUS

\* The entries the runtime and its hosts append are entries.
LEMMA EntriesTyped ==
    /\ \A event \in Events : EventEntry(event) \in Entries
    /\ \A id \in MessageIds : SettledEntry(id) \in Entries
  BY DEF EventEntry, SettledEntry, Entries

\* What a transition computes from a batch inside the journal is typed.
LEMMA BatchTyped ==
    ASSUME NEW j \in Seq(Entries), NEW from \in Nat, NEW to \in Nat,
           to <= Len(j), from >= 1, NEW settled
    PROVE  /\ Folded(j, from, to, settled) \in SUBSET Nat
           /\ Consumed(j, from, to) \in SUBSET MessageIds
           /\ Emitting(j, from, to) \in SUBSET Nat
  <1>1. \A i \in from..to : j[i] \in Entries /\ i \in Nat
    OBVIOUS
  <1>2. \A e \in Entries : ~IsEvent(e) => e.message \in MessageIds
    BY DEF Entries, IsEvent
  <1> QED
    BY <1>1, <1>2 DEF Folded, Accepted, Consumed, Emitting

\* A wake stays typed when an entry is appended, and requestedAt is the stamp.
LEMMA StampTyped ==
    ASSUME TypeOK, NEW now \in Clock
    PROVE  NextRequestedAt(now) \in Nat
  BY ClockAssumption DEF TypeOK, NextRequestedAt, WakeFloor

\* The journal and the wake after an append, and the typing they keep.
LEMMA AppendTyped ==
    ASSUME TypeInv, NEW entry \in Entries, AppendAndWake(entry)
    PROVE  /\ journal' \in Seq(Entries)
           /\ Len(journal') = Len(journal) + 1
           /\ wake' \in [requestedAt : Nat, processedAt : Nat]
  <1>1. journal' \in Seq(Entries) /\ Len(journal') = Len(journal) + 1
    BY AppendFacts DEF TypeInv, TypeOK, AppendAndWake
  <1>2. PICK now \in Clock : wake' = [wake EXCEPT !.requestedAt = NextRequestedAt(now)]
    BY DEF AppendAndWake
  <1> QED
    BY <1>1, <1>2, StampTyped DEF TypeInv, TypeOK

\* A call that returns leaves typed locals behind.
LEMMA ReturnTyped ==
    ASSUME TypeInv, NEW w \in Workers, Return(w)
    PROVE  /\ pc' \in [Workers -> {"idle"} \cup EngineSteps \cup QueueSteps]
           /\ wakeSeen' \in [Workers -> Nat]
           /\ snapshot' \in [Workers -> [from : Checkpoints, upto : Nat]]
           /\ work' \in [Workers -> [id : MessageIds, attempt : Nat]]
           /\ \A v \in Workers : snapshot'[v].upto <= Len(journal)
  <1>1. NoSnapshot \in [from : Checkpoints, upto : Nat] /\ NoSnapshot.upto = 0
    BY DEF NoSnapshot, InitialCheckpoint, Checkpoints
  <1>2. NoWork \in [id : MessageIds, attempt : Nat]
    BY DEF NoWork, MessageIds
  <1>3. Len(journal) \in Nat
    BY DEF TypeInv, TypeOK
  <1> QED
    BY <1>1, <1>2, <1>3 DEF TypeInv, TypeOK, SnapshotsBounded, Return, Goto

\* A commit writes a typed checkpoint and typed messages.
LEMMA CommitTyped ==
    ASSUME TypeInv, NEW w \in Workers
    PROVE  /\ NextCheckpoint(w) \in Checkpoints
           /\ NewMessages(w) \subseteq MessageIds
  <1> DEFINE from == snapshot[w].from
             first == from.cursor + 1
             upto == snapshot[w].upto
  <1>1. /\ from \in Checkpoints /\ upto \in Nat /\ upto <= Len(journal)
        /\ journal \in Seq(Entries) /\ checkpoint \in Checkpoints
    BY DEF TypeInv, TypeOK, SnapshotsBounded
  <1>2. first \in Nat /\ first >= 1 /\ checkpoint.revision + 1 \in Nat
    BY <1>1, SMTT(30) DEF Checkpoints
  <1>3. /\ Folded(journal, first, upto, from.settled) \in SUBSET Nat
        /\ Consumed(journal, first, upto) \in SUBSET MessageIds
        /\ Emitting(journal, first, upto) \in SUBSET Nat
    BY <1>1, <1>2, BatchTyped
  <1>4. NextCheckpoint(w) \in Checkpoints
    BY <1>1, <1>2, <1>3 DEF NextCheckpoint, Checkpoints
  <1>5. NewMessages(w) \subseteq MessageIds
    BY <1>2, <1>3 DEF NewMessages, MessageIds
  <1> QED
    BY <1>4, <1>5

\* The fault budget is not overdrawn.
LEMMA FaultTyped ==
    ASSUME TypeInv, Fault
    PROVE  faults' \in 0..MaxFaults
  BY BoundsAssumption DEF TypeInv, TypeOK, Fault

\* Every step keeps it.
LEMMA TypeStep ==
    ASSUME TypeInv, [Next]_vars
    PROVE  TypeInv'
  <1>1. CASE HostAppend
    <2>1. PICK event \in Events : AppendAndWake(EventEntry(event))
      BY <1>1 DEF HostAppend
    <2>2. EventEntry(event) \in Entries
      BY EntriesTyped
    <2>3. /\ journal' \in Seq(Entries) /\ Len(journal') = Len(journal) + 1
          /\ wake' \in [requestedAt : Nat, processedAt : Nat]
      BY <2>1, <2>2, AppendTyped
    <2>4. /\ UNCHANGED <<runtimeVars, queue, pc, localVars, faults>>
          /\ Len(journal) \in Nat
      BY <1>1 DEF HostAppend, TypeInv, TypeOK
    <2>5. TypeOK'
      BY <2>3, <2>4 DEF TypeInv, TypeOK, runtimeVars, localVars
    <2>6. SnapshotsBounded'
      BY <2>3, <2>4 DEF TypeInv, TypeOK, SnapshotsBounded, localVars
    <2> QED
      BY <2>5, <2>6 DEF TypeInv
  <1>2. ASSUME NEW w \in Workers, ReadWake(w) PROVE TypeInv'
    BY <1>2 DEF ReadWake, Goto, TypeInv, TypeOK, SnapshotsBounded, EngineSteps, runtimeVars, localVars
  <1>3. ASSUME NEW w \in Workers, AcquireBusy(w) PROVE TypeInv'
    BY <1>3, ReturnTyped DEF AcquireBusy, TypeInv, TypeOK, SnapshotsBounded, runtimeVars, localVars
  <1>4. ASSUME NEW w \in Workers, Acquire(w) PROVE TypeInv'
    BY <1>4 DEF Acquire, Goto, TypeInv, TypeOK, SnapshotsBounded, EngineSteps, runtimeVars, localVars
  <1>5. ASSUME NEW w \in Workers, AbortEmpty(w) PROVE TypeInv'
    BY <1>5 DEF AbortEmpty, ReleaseIfHeld, NoLease, Goto, TypeInv, TypeOK, SnapshotsBounded, EngineSteps, runtimeVars, localVars
  <1>6. ASSUME NEW w \in Workers, TransitionThrows(w) PROVE TypeInv'
    BY <1>6, FaultTyped DEF TransitionThrows, Goto, TypeInv, TypeOK, SnapshotsBounded, EngineSteps, runtimeVars, localVars
  <1>7. ASSUME NEW w \in Workers, AbortAfterThrow(w) PROVE TypeInv'
    BY <1>7, ReturnTyped DEF AbortAfterThrow, ReleaseIfHeld, NoLease, TypeInv, TypeOK, SnapshotsBounded, runtimeVars, localVars
  <1>8. ASSUME NEW w \in Workers, Commit(w) PROVE TypeInv'
    <2>1. CASE CommitAccepted(w)
      <3>1. /\ checkpoint' = NextCheckpoint(w)
            /\ queue' = [id \in DOMAIN queue \cup NewMessages(w) |->
                           IF id \in DOMAIN queue THEN queue[id] ELSE ActiveMessage]
            /\ pc' = [pc EXCEPT ![w] = "mark"]
            /\ lease' \in {NoLease, lease}
            /\ UNCHANGED <<journal, wake, localVars, faults>>
        BY <1>8, <2>1 DEF Commit, Goto
      <3>2. ActiveMessage \in Messages
        BY DEF ActiveMessage, Messages
      <3>3. DOMAIN queue' \subseteq MessageIds /\ queue' \in [DOMAIN queue' -> Messages]
        BY <3>1, <3>2, CommitTyped DEF TypeInv, TypeOK
      <3>4. pc' \in [Workers -> {"idle"} \cup EngineSteps \cup QueueSteps]
        BY <3>1 DEF TypeInv, TypeOK, EngineSteps
      <3>5. lease' \in [holder : Workers \cup {NoWorker}, expired : BOOLEAN]
        <4>1. /\ NoLease \in [holder : Workers \cup {NoWorker}, expired : BOOLEAN]
              /\ lease \in [holder : Workers \cup {NoWorker}, expired : BOOLEAN]
          BY DEF NoLease, TypeInv, TypeOK
        <4> QED
          BY <3>1, <4>1
      <3>6. checkpoint' \in Checkpoints
        BY <3>1, CommitTyped
      <3> QED
        BY <3>1, <3>3, <3>4, <3>5, <3>6 DEF TypeInv, TypeOK, SnapshotsBounded, localVars
    <2>2. CASE ~CommitAccepted(w)
      BY <1>8, <2>2, ReturnTyped DEF Commit, NoLease, TypeInv, TypeOK, SnapshotsBounded, runtimeVars, localVars
    <2> QED
      BY <2>1, <2>2
  <1>9. ASSUME NEW w \in Workers, MarkProcessed(w) PROVE TypeInv'
    BY <1>9, ReturnTyped DEF MarkProcessed, TypeInv, TypeOK, SnapshotsBounded, runtimeVars, localVars
  <1>10. ASSUME NEW w \in Workers, LeaseItem(w) PROVE TypeInv'
    <2>1. PICK id \in DOMAIN queue :
            LET leased == [state |-> "leased", attempt |-> queue[id].attempt + 1,
                           holder |-> w, expired |-> FALSE]
            IN /\ queue' = [queue EXCEPT ![id] = leased]
               /\ work' = [work EXCEPT ![w] = [id |-> id, attempt |-> leased.attempt]]
      BY <1>10 DEF LeaseItem
    <2>2. queue[id] \in Messages /\ id \in MessageIds
      BY DEF TypeInv, TypeOK
    <2>3. queue[id].attempt + 1 \in Nat
      BY <2>2 DEF Messages
    <2>4. /\ DOMAIN queue' = DOMAIN queue
          /\ queue' \in [DOMAIN queue -> Messages]
          /\ work' \in [Workers -> [id : MessageIds, attempt : Nat]]
      BY <2>1, <2>2, <2>3 DEF TypeInv, TypeOK, Messages
    <2> QED
      BY <1>10, <2>4 DEF LeaseItem, Goto, TypeInv, TypeOK, SnapshotsBounded, QueueSteps, runtimeVars, localVars
  <1>11. ASSUME NEW w \in Workers, ReadSnapshot(w) PROVE TypeInv'
    BY <1>11 DEF ReadSnapshot, Goto, TypeInv, TypeOK, SnapshotsBounded, QueueSteps, runtimeVars, localVars
  <1>12. ASSUME NEW w \in Workers, ExecuteEffect(w) PROVE TypeInv'
    BY <1>12 DEF ExecuteEffect, Goto, TypeInv, TypeOK, SnapshotsBounded, QueueSteps, runtimeVars, localVars
  <1>13. ASSUME NEW w \in Workers, EffectThrows(w) PROVE TypeInv'
    BY <1>13 DEF EffectThrows, AfterThrow, Goto, TypeInv, TypeOK, SnapshotsBounded, QueueSteps, runtimeVars, localVars
  <1>14. ASSUME NEW w \in Workers, EffectStopped(w) PROVE TypeInv'
    BY <1>14, FaultTyped DEF EffectStopped, Goto, TypeInv, TypeOK, SnapshotsBounded, QueueSteps, runtimeVars, localVars
  <1>15. ASSUME NEW w \in Workers, AppendSettlement(w) PROVE TypeInv'
    <2>1. SettledEntry(work[w].id) \in Entries
      BY EntriesTyped DEF TypeInv, TypeOK
    <2>2. /\ journal' \in Seq(Entries) /\ Len(journal') = Len(journal) + 1
          /\ wake' \in [requestedAt : Nat, processedAt : Nat]
      BY <1>15, <2>1, AppendTyped DEF AppendSettlement
    <2>3. Len(journal) \in Nat
      BY DEF TypeInv, TypeOK
    <2> QED
      BY <1>15, <2>2, <2>3, SMTT(30) DEF AppendSettlement, Goto, TypeInv, TypeOK, SnapshotsBounded, QueueSteps, runtimeVars, localVars
  <1>16. ASSUME NEW w \in Workers, AppendThrows(w) PROVE TypeInv'
    BY <1>16, FaultTyped DEF AppendThrows, AfterThrow, Goto, TypeInv, TypeOK, SnapshotsBounded, QueueSteps, runtimeVars, localVars
  <1>17. ASSUME NEW w \in Workers, ReportFailure(w) PROVE TypeInv'
    <2>1. SettledEntry(work[w].id) \in Entries
      BY EntriesTyped DEF TypeInv, TypeOK
    <2>2. CASE Settling(journal, work[w].id)
      BY <1>17, <2>1, <2>2, AppendTyped, SMTT(30) DEF ReportFailure, Goto, TypeInv, TypeOK, SnapshotsBounded, QueueSteps, runtimeVars, localVars
    <2>3. CASE ~Settling(journal, work[w].id)
      BY <1>17, <2>3 DEF ReportFailure, Goto, TypeInv, TypeOK, SnapshotsBounded, QueueSteps, runtimeVars, localVars
    <2> QED
      BY <2>2, <2>3
  <1>18. ASSUME NEW w \in Workers, ReportThrows(w) PROVE TypeInv'
    BY <1>18, FaultTyped DEF ReportThrows, Goto, TypeInv, TypeOK, SnapshotsBounded, QueueSteps, runtimeVars, localVars
  <1>19. ASSUME NEW w \in Workers, NEW state \in {"active", "done", "dead"},
                Settle(w, state)
         PROVE TypeInv'
    <2>1. CASE ItemHeld(w) /\ work[w].id \in DOMAIN queue
      <3>1. queue' = [queue EXCEPT ![work[w].id] =
                        [@ EXCEPT !.state = state, !.holder = NoWorker, !.expired = FALSE]]
        BY <1>19, <2>1 DEF Settle
      <3>2. [queue[work[w].id] EXCEPT !.state = state, !.holder = NoWorker,
                                      !.expired = FALSE] \in Messages
        <4>1. queue[work[w].id] \in Messages
          BY <2>1 DEF TypeInv, TypeOK
        <4> QED
          BY <4>1 DEF Messages
      <3>3. DOMAIN queue' = DOMAIN queue /\ queue' \in [DOMAIN queue -> Messages]
        BY <2>1, <3>1, <3>2 DEF TypeInv, TypeOK
      <3> QED
        BY <1>19, <3>3, ReturnTyped DEF Settle, TypeInv, TypeOK, SnapshotsBounded, runtimeVars, localVars
    <2>2. CASE ~(ItemHeld(w) /\ work[w].id \in DOMAIN queue)
      <3>1. queue' = queue
        BY <1>19, <2>2 DEF Settle, TypeInv, TypeOK
      <3> QED
        BY <1>19, <3>1, ReturnTyped DEF Settle, TypeInv, TypeOK, SnapshotsBounded, runtimeVars, localVars
    <2> QED
      BY <2>1, <2>2
  <1>20. ASSUME NEW w \in Workers, Crash(w) PROVE TypeInv'
    BY <1>20, ReturnTyped, FaultTyped DEF Crash, TypeInv, TypeOK, SnapshotsBounded, runtimeVars, localVars
  <1>21. CASE AbandonedLeaseExpires \/ LeaseExpiresEarly
    <2>1. LeaseExpires /\ faults' \in 0..MaxFaults
      BY <1>21, FaultTyped DEF AbandonedLeaseExpires, LeaseExpiresEarly, TypeInv, TypeOK
    <2>2. lease' \in [holder : Workers \cup {NoWorker}, expired : BOOLEAN]
      BY <2>1 DEF LeaseExpires, TypeInv, TypeOK
    <2> QED
      BY <2>1, <2>2 DEF LeaseExpires, TypeInv, TypeOK, SnapshotsBounded, runtimeVars, localVars
  <1>22. CASE AbandonedItemExpires \/ ItemExpiresEarly
    <2>1. PICK id \in DOMAIN queue : ItemExpires(id) /\ faults' \in 0..MaxFaults
      BY <1>22, FaultTyped
      DEF AbandonedItemExpires, ItemExpiresEarly, TypeInv, TypeOK
    <2>2. [queue[id] EXCEPT !.expired = TRUE] \in Messages
      <3>1. queue[id] \in Messages
        BY DEF TypeInv, TypeOK
      <3> QED
        BY <3>1 DEF Messages
    <2>3. DOMAIN queue' = DOMAIN queue /\ queue' \in [DOMAIN queue -> Messages]
      BY <2>1, <2>2 DEF ItemExpires, TypeInv, TypeOK
    <2> QED
      BY <2>1, <2>3 DEF ItemExpires, TypeInv, TypeOK, SnapshotsBounded, runtimeVars, localVars
  <1>23. CASE UNCHANGED vars
    BY <1>23 DEF vars, TypeInv, TypeOK, SnapshotsBounded
  <1> QED
    BY <1>1, <1>2, <1>3, <1>4, <1>5, <1>6, <1>7, <1>8, <1>9, <1>10, <1>11, <1>12, <1>13, <1>14, <1>15, <1>16, <1>17, <1>18, <1>19, <1>20, <1>21, <1>22, <1>23
    DEF Next, Engine, QueueLane, Failure, Expiry, Ack, Nack, NackDead

\* Every variable keeps its type, and no worker acquired more than was journalled.
LEMMA TypeInvariance == Spec => []TypeInv
<1>1. Init => TypeInv
  <2> SUFFICES ASSUME Init PROVE TypeInv
    OBVIOUS
  <2>1. queue \in [DOMAIN queue -> Messages] /\ DOMAIN queue = {}
    BY DEF Init
  <2>2. /\ journal \in Seq(Entries) /\ Len(journal) = 0
        /\ faults \in 0..MaxFaults
    BY BoundsAssumption DEF Init
  <2>3. checkpoint \in Checkpoints /\ NoSnapshot \in [from : Checkpoints, upto : Nat]
    BY DEF Init, InitialCheckpoint, NoSnapshot, Checkpoints
  <2>4. NoWork \in [id : MessageIds, attempt : Nat]
    BY DEF NoWork, MessageIds
  <2> QED
    BY <2>1, <2>2, <2>3, <2>4
    DEF Init, TypeInv, TypeOK, SnapshotsBounded, NoSnapshot, NoLease
<1> QED
  BY <1>1, TypeStep, PTL DEF Spec

\* Every variable keeps its type, whatever the workers, the clock and the faults.
THEOREM TypeCorrect == Spec => []TypeOK
<1>1. TypeInv => TypeOK
  BY DEF TypeInv
<1> QED
  BY <1>1, TypeInvariance, PTL

-------------------------------------------------------------------------------
(***************************************************************************)
(* Exactly once.  Two facts about the pure transition: what it says about  *)
(* a prefix does not change when the journal grows, and a batch folded     *)
(* onto a prefix gives the fold of the longer prefix.                      *)
(***************************************************************************)
LEMMA PrefixStable ==
    ASSUME NEW j \in Seq(Entries), NEW entry \in Entries,
           NEW to \in Nat, to <= Len(j)
    PROVE  /\ Folded(Append(j, entry), 1, to, {}) = Folded(j, 1, to, {})
           /\ Consumed(Append(j, entry), 1, to) = Consumed(j, 1, to)
           /\ Emitting(Append(j, entry), 1, to) = Emitting(j, 1, to)
  <1> DEFINE k == Append(j, entry)
  <1>1. \A i \in 1..to : k[i] = j[i]
    BY AppendFacts
  <1>2. \A i \in 1..to : \A h \in 1..(i - 1) : h \in 1..to
    OBVIOUS
  <1> HIDE DEF k
  <1>3. Folded(k, 1, to, {}) = Folded(j, 1, to, {})
    BY <1>1, <1>2 DEF Folded, Accepted
  <1>4. Consumed(k, 1, to) = Consumed(j, 1, to)
    BY <1>1 DEF Consumed
  <1>5. Emitting(k, 1, to) = Emitting(j, 1, to)
    BY <1>1 DEF Emitting
  <1> QED
    BY <1>3, <1>4, <1>5 DEF k

LEMMA BatchExtendsPrefix ==
    ASSUME NEW j \in Seq(Entries), NEW from \in Nat, NEW to \in Nat,
           from <= to, to <= Len(j)
    PROVE  /\ Folded(j, 1, from, {})
                \cup Folded(j, from + 1, to, Consumed(j, 1, from))
                = Folded(j, 1, to, {})
           /\ Consumed(j, 1, from) \cup Consumed(j, from + 1, to)
                = Consumed(j, 1, to)
           /\ Emitting(j, 1, from) \cup Emitting(j, from + 1, to)
                = Emitting(j, 1, to)
  <1>1. 1..to = (1..from) \cup ((from + 1)..to)
    OBVIOUS
  <1>2. ASSUME NEW i \in (from + 1)..to
        PROVE  1..(i - 1) = (1..from) \cup ((from + 1)..(i - 1))
    OBVIOUS
  <1>3. \A e \in Entries : ~IsEvent(e) => (e.kind = "settled")
    BY DEF Entries, IsEvent
  <1>4. \A i \in 1..to : j[i] \in Entries
    OBVIOUS
  <1>5. ASSUME NEW i \in (from + 1)..to, ~IsEvent(j[i])
        PROVE  (\A h \in 1..from : ~Settles(j[h], j[i].message))
                 <=> j[i].message \notin Consumed(j, 1, from)
    BY <1>3, <1>4 DEF Consumed, Settles, IsEvent
  <1>6. ASSUME NEW i \in (from + 1)..to, ~IsEvent(j[i])
        PROVE  (\A h \in 1..(i - 1) : ~Settles(j[h], j[i].message))
                 <=> /\ j[i].message \notin Consumed(j, 1, from)
                     /\ \A h \in (from + 1)..(i - 1) : ~Settles(j[h], j[i].message)
    <2> DEFINE Same(h) == Settles(j[h], j[i].message)
    <2>1. (\A h \in 1..(i - 1) : ~Same(h))
            <=> (\A h \in 1..from : ~Same(h))
                  /\ (\A h \in (from + 1)..(i - 1) : ~Same(h))
      <3> HIDE DEF Same
      <3> QED
        BY <1>2
    <2> QED
      BY <2>1, <1>5, <1>6
  <1>7. Accepted(j, 1, to, {})
          = Accepted(j, 1, from, {})
              \cup Accepted(j, from + 1, to, Consumed(j, 1, from))
    BY <1>1, <1>6 DEF Accepted
  <1>8. Folded(j, 1, from, {}) \cup Folded(j, from + 1, to, Consumed(j, 1, from))
          = Folded(j, 1, to, {})
    BY <1>1, <1>7 DEF Folded
  <1>9. Consumed(j, 1, from) \cup Consumed(j, from + 1, to) = Consumed(j, 1, to)
    BY <1>1 DEF Consumed
  <1>10. Emitting(j, 1, from) \cup Emitting(j, from + 1, to) = Emitting(j, 1, to)
    BY <1>1 DEF Emitting
  <1> QED
    BY <1>8, <1>9, <1>10

(***************************************************************************)
(* What a step does to the journal, the checkpoint and the domain of the   *)
(* lane: it appends one entry, commits one batch, or leaves them alone.    *)
(***************************************************************************)
AppendStep ==
    /\ \E entry \in Entries : journal' = Append(journal, entry)
    /\ UNCHANGED <<checkpoint, lease, snapshot, queue>>

CommitStep(w) ==
    /\ pc[w] = "transition" /\ CommitAccepted(w)
    /\ checkpoint' = NextCheckpoint(w)
    /\ DOMAIN queue' = DOMAIN queue \cup NewMessages(w)
    /\ UNCHANGED journal

QuietStep == UNCHANGED <<journal, checkpoint, DOMAIN queue>>

LEMMA StepKinds ==
    ASSUME TypeInv, [Next]_vars
    PROVE  AppendStep \/ (\E w \in Workers : CommitStep(w)) \/ QuietStep
  <1>1. CASE HostAppend
    BY <1>1, EntriesTyped
    DEF HostAppend, AppendAndWake, AppendStep, runtimeVars, localVars
  <1>2. ASSUME NEW w \in Workers, AppendSettlement(w) PROVE AppendStep
    BY <1>2, EntriesTyped
    DEF AppendSettlement, AppendAndWake, AppendStep, runtimeVars, localVars,
        TypeInv, TypeOK
  <1>3. ASSUME NEW w \in Workers, ReportFailure(w) PROVE AppendStep \/ QuietStep
    BY <1>3, EntriesTyped
    DEF ReportFailure, AppendAndWake, AppendStep, QuietStep, runtimeVars,
        localVars, TypeInv, TypeOK
  <1>4. ASSUME NEW w \in Workers, Commit(w) PROVE CommitStep(w) \/ QuietStep
    BY <1>4 DEF Commit, CommitStep, QuietStep
  <1>5. ASSUME NEW w \in Workers,
               \/ ReadWake(w) \/ AcquireBusy(w) \/ Acquire(w) \/ AbortEmpty(w)
               \/ TransitionThrows(w) \/ AbortAfterThrow(w) \/ MarkProcessed(w)
               \/ ReadSnapshot(w) \/ ExecuteEffect(w) \/ EffectThrows(w)
               \/ EffectStopped(w) \/ AppendThrows(w) \/ ReportThrows(w) \/ Crash(w)
        PROVE  QuietStep
    BY <1>5
    DEF ReadWake, AcquireBusy, Acquire, AbortEmpty, TransitionThrows,
        AbortAfterThrow, MarkProcessed, ReadSnapshot, ExecuteEffect, EffectThrows,
        EffectStopped, AppendThrows, ReportThrows, Crash, QuietStep, runtimeVars
  <1>6. ASSUME NEW w \in Workers,
               LeaseItem(w) \/ (\E state \in {"active", "done", "dead"} : Settle(w, state))
        PROVE  QuietStep
    BY <1>6 DEF LeaseItem, Settle, QuietStep, runtimeVars, TypeInv, TypeOK
  <1>7. CASE Expiry
    BY <1>7
    DEF Expiry, AbandonedLeaseExpires, LeaseExpiresEarly, LeaseExpires,
        AbandonedItemExpires, ItemExpiresEarly, ItemExpires, QuietStep,
        runtimeVars, TypeInv, TypeOK
  <1>8. CASE UNCHANGED vars
    BY <1>8 DEF vars, QuietStep
  <1> QED
    BY <1>1, <1>2, <1>3, <1>4, <1>5, <1>6, <1>7, <1>8
    DEF Next, Engine, QueueLane, Failure, Ack, Nack, NackDead

(***************************************************************************)
(* The strengthening: besides the two invariants and the lease protecting  *)
(* its holder's snapshot, every acquired batch starts before it ends.      *)
(***************************************************************************)
BatchesOrdered ==
    \A w \in Workers : snapshot[w].from.cursor <= snapshot[w].upto

ExactlyOnceInv ==
    /\ AppliedMatchesPrefix
    /\ OutboxMatchesPrefix
    /\ LeaseProtectsSnapshot
    /\ BatchesOrdered

\* A growing journal changes nothing about the committed prefix.
LEMMA AppendKeepsPrefix ==
    ASSUME TypeInv, AppliedMatchesPrefix, OutboxMatchesPrefix, AppendStep
    PROVE  AppliedMatchesPrefix' /\ OutboxMatchesPrefix'
  <1>1. PICK entry \in Entries : journal' = Append(journal, entry)
    BY DEF AppendStep
  <1>2. journal \in Seq(Entries) /\ checkpoint.cursor \in Nat
    BY DEF TypeInv, TypeOK, Checkpoints
  <1>3. checkpoint.cursor <= Len(journal)
    BY DEF AppliedMatchesPrefix
  <1>4. /\ Folded(journal', 1, checkpoint.cursor, {}) = Folded(journal, 1, checkpoint.cursor, {})
        /\ Consumed(journal', 1, checkpoint.cursor) = Consumed(journal, 1, checkpoint.cursor)
        /\ Emitting(journal', 1, checkpoint.cursor) = Emitting(journal, 1, checkpoint.cursor)
    BY <1>1, <1>2, <1>3, PrefixStable
  <1>5. Len(journal') = Len(journal) + 1 /\ Len(journal) \in Nat
    BY <1>1, <1>2, AppendFacts
  <1>6. UNCHANGED <<checkpoint, queue>>
    BY DEF AppendStep
  <1>7. checkpoint.cursor <= Len(journal')
    BY <1>2, <1>3, <1>5
  <1>8. AppliedMatchesPrefix'
    BY <1>4, <1>6, <1>7 DEF AppliedMatchesPrefix
  <1>9. OutboxMatchesPrefix'
    BY <1>4, <1>6 DEF OutboxMatchesPrefix
  <1> QED
    BY <1>8, <1>9

\* A commit that passes its checks extends the prefix by its batch.
LEMMA CommitExtendsPrefix ==
    ASSUME TypeInv, ExactlyOnceInv, NEW w \in Workers, CommitStep(w)
    PROVE  AppliedMatchesPrefix' /\ OutboxMatchesPrefix'
  <1> DEFINE from == checkpoint.cursor
             upto == snapshot[w].upto
  <1>1. snapshot[w].from = checkpoint
    BY DEF CommitStep, CommitAccepted, LeaseHeld, ExactlyOnceInv,
           LeaseProtectsSnapshot, LeaseSteps
  <1>2. /\ journal \in Seq(Entries) /\ from \in Nat /\ upto \in Nat
        /\ from <= upto /\ upto <= Len(journal)
    BY <1>1 DEF TypeInv, TypeOK, Checkpoints, SnapshotsBounded, ExactlyOnceInv,
                BatchesOrdered
  <1>3. /\ checkpoint.state = Folded(journal, 1, from, {})
        /\ checkpoint.settled = Consumed(journal, 1, from)
        /\ {id[2] : id \in DOMAIN queue} = Emitting(journal, 1, from)
        /\ \A a, b \in DOMAIN queue : a[2] = b[2] => a = b
    BY DEF ExactlyOnceInv, AppliedMatchesPrefix, OutboxMatchesPrefix
  <1>4. AppliedMatchesPrefix'
    <2>1. /\ checkpoint'.cursor = upto
          /\ checkpoint'.state = checkpoint.state
                                    \cup Folded(journal, from + 1, upto, checkpoint.settled)
          /\ checkpoint'.settled = checkpoint.settled \cup Consumed(journal, from + 1, upto)
      BY <1>1 DEF CommitStep, NextCheckpoint
    <2>2. /\ checkpoint'.state = Folded(journal, 1, upto, {})
          /\ checkpoint'.settled = Consumed(journal, 1, upto)
      BY <1>2, <1>3, <2>1, BatchExtendsPrefix
    <2> QED
      BY <1>2, <2>1, <2>2 DEF CommitStep, AppliedMatchesPrefix
  <1>5. OutboxMatchesPrefix'
    <2> DEFINE new == Emitting(journal, from + 1, upto)
    <2>1. NewMessages(w) = {<<checkpoint.revision + 1, p>> : p \in new}
      BY <1>1 DEF NewMessages
    <2>2. /\ \A id \in NewMessages(w) : id[2] \in new
          /\ \A a, b \in NewMessages(w) : a[2] = b[2] => a = b
      <3>1. \A id \in NewMessages(w) : id = <<checkpoint.revision + 1, id[2]>> /\ id[2] \in new
        BY <2>1
      <3> QED
        BY <3>1
    <2>3. \A p \in new : \E id \in NewMessages(w) : id[2] = p
      <3> SUFFICES ASSUME NEW p \in new
                   PROVE  \E id \in NewMessages(w) : id[2] = p
        OBVIOUS
      <3>1. <<checkpoint.revision + 1, p>> \in NewMessages(w)
        BY <2>1
      <3>2. <<checkpoint.revision + 1, p>>[2] = p
        OBVIOUS
      <3> QED
        BY <3>1, <3>2
    <2>4. \A p \in Emitting(journal, 1, from) : p \notin new
      BY <1>2 DEF Emitting
    <2>5. checkpoint'.cursor = upto /\ journal' = journal
      BY DEF CommitStep, NextCheckpoint
    <2>6. DOMAIN queue' = DOMAIN queue \cup NewMessages(w)
      BY DEF CommitStep
    <2>7. Emitting(journal, 1, upto) = Emitting(journal, 1, from) \cup new
      BY <1>2, BatchExtendsPrefix
    <2>8. {id[2] : id \in DOMAIN queue'} = Emitting(journal, 1, upto)
      <3> HIDE DEF new
      <3>1. ASSUME NEW id \in DOMAIN queue' PROVE id[2] \in Emitting(journal, 1, upto)
        BY <1>3, <2>2, <2>6, <2>7
      <3>2. ASSUME NEW p \in Emitting(journal, 1, upto)
            PROVE  \E id \in DOMAIN queue' : id[2] = p
        BY <1>3, <2>3, <2>6, <2>7
      <3> QED
        BY <3>1, <3>2
    <2>9. \A a, b \in DOMAIN queue' : a[2] = b[2] => a = b
      <3> HIDE DEF new
      <3>1. \A id \in DOMAIN queue : id[2] \in Emitting(journal, 1, from)
        BY <1>3
      <3> QED
        BY <1>3, <2>2, <2>4, <2>6, <3>1
    <2> QED
      BY <2>5, <2>8, <2>9 DEF OutboxMatchesPrefix
  <1> QED
    BY <1>4, <1>5

\* A returning call no longer believes in a lease, and its batch is empty.
LEMMA ReturnKeepsLeases ==
    ASSUME TypeInv, LeaseProtectsSnapshot, BatchesOrdered, NEW w \in Workers,
           Return(w), UNCHANGED checkpoint, lease' \in {lease, NoLease}
    PROVE  LeaseProtectsSnapshot' /\ BatchesOrdered'
  <1>1. /\ pc' = [pc EXCEPT ![w] = "idle"]
        /\ snapshot' = [snapshot EXCEPT ![w] = NoSnapshot]
        /\ pc \in [Workers -> {"idle"} \cup EngineSteps \cup QueueSteps]
        /\ snapshot \in [Workers -> [from : Checkpoints, upto : Nat]]
    BY DEF Return, Goto, TypeInv, TypeOK
  <1>2. NoSnapshot.from.cursor <= NoSnapshot.upto
    BY DEF NoSnapshot, InitialCheckpoint
  <1>3. \A v \in Workers : lease'.holder = v => lease.holder = v
    BY WorkerAssumption DEF NoLease
  <1> QED
    BY <1>1, <1>2, <1>3 DEF LeaseProtectsSnapshot, BatchesOrdered, LeaseSteps

\* A step that stays among the calls a worker makes without acquiring.
LEMMA StepKeepsLeases ==
    ASSUME TypeInv, LeaseProtectsSnapshot, BatchesOrdered,
           UNCHANGED <<checkpoint, snapshot>>,
           \A v \in Workers : pc'[v] \in LeaseSteps => pc[v] \in LeaseSteps,
           \A v \in Workers : lease'.holder = v => lease.holder = v
    PROVE  LeaseProtectsSnapshot' /\ BatchesOrdered'
  BY DEF LeaseProtectsSnapshot, BatchesOrdered

\* The lease goes on protecting its holder's snapshot, and batches stay ordered.
LEMMA LeaseKept ==
    ASSUME TypeInv, ExactlyOnceInv, [Next]_vars
    PROVE  LeaseProtectsSnapshot' /\ BatchesOrdered'
  <1> USE DEF ExactlyOnceInv
  <1>0. pc \in [Workers -> {"idle"} \cup EngineSteps \cup QueueSteps]
    BY DEF TypeInv, TypeOK
  <1>1. CASE HostAppend \/ UNCHANGED vars
    BY <1>1, StepKeepsLeases DEF HostAppend, runtimeVars, localVars, vars
  <1>2. ASSUME NEW w \in Workers,
               \/ ReadWake(w) \/ TransitionThrows(w)
               \/ ReadSnapshot(w) \/ ExecuteEffect(w) \/ EffectThrows(w)
               \/ EffectStopped(w) \/ AppendThrows(w) \/ ReportThrows(w)
               \/ AppendSettlement(w) \/ ReportFailure(w)
        PROVE  LeaseProtectsSnapshot' /\ BatchesOrdered'
    <2>1. UNCHANGED <<checkpoint, snapshot, lease>>
      BY <1>2
      DEF ReadWake, TransitionThrows, ReadSnapshot, ExecuteEffect, EffectThrows,
          EffectStopped, AppendThrows, ReportThrows, AppendSettlement,
          ReportFailure, runtimeVars, localVars
    <2>2. \A v \in Workers : pc'[v] \in LeaseSteps => pc[v] \in LeaseSteps
      BY <1>0, <1>2
      DEF ReadWake, TransitionThrows, ReadSnapshot, ExecuteEffect, EffectThrows,
          EffectStopped, AppendThrows, ReportThrows, AppendSettlement,
          ReportFailure, Goto, AfterThrow, LeaseSteps
    <2> QED
      BY <2>1, <2>2, StepKeepsLeases
  <1>3. ASSUME NEW w \in Workers, AbortEmpty(w)
        PROVE  LeaseProtectsSnapshot' /\ BatchesOrdered'
    <2>1. UNCHANGED <<checkpoint, snapshot>>
      BY <1>3 DEF AbortEmpty, localVars
    <2>2. \A v \in Workers : pc'[v] \in LeaseSteps => pc[v] \in LeaseSteps
      BY <1>0, <1>3 DEF AbortEmpty, Goto, LeaseSteps
    <2>3. \A v \in Workers : lease'.holder = v => lease.holder = v
      BY <1>3, WorkerAssumption DEF AbortEmpty, ReleaseIfHeld, NoLease
    <2> QED
      BY <2>1, <2>2, <2>3, StepKeepsLeases
  <1>4. ASSUME NEW w \in Workers,
               \/ AcquireBusy(w) \/ AbortAfterThrow(w) \/ MarkProcessed(w) \/ Crash(w)
               \/ \E state \in {"active", "done", "dead"} : Settle(w, state)
        PROVE  LeaseProtectsSnapshot' /\ BatchesOrdered'
    <2>1. Return(w) /\ UNCHANGED checkpoint /\ lease' \in {lease, NoLease}
      BY <1>4
      DEF AcquireBusy, AbortAfterThrow, MarkProcessed, Crash, Settle,
          ReleaseIfHeld, runtimeVars
    <2> QED
      BY <2>1, ReturnKeepsLeases
  <1>5. ASSUME NEW w \in Workers, Acquire(w)
        PROVE  LeaseProtectsSnapshot' /\ BatchesOrdered'
    <2>1. /\ lease'.holder = w
          /\ snapshot' = [snapshot EXCEPT ![w] = [from |-> checkpoint, upto |-> Len(journal)]]
          /\ checkpoint' = checkpoint
      BY <1>5 DEF Acquire
    <2>2. snapshot \in [Workers -> [from : Checkpoints, upto : Nat]]
      BY DEF TypeInv, TypeOK
    <2>3. checkpoint.cursor <= Len(journal)
      BY DEF AppliedMatchesPrefix
    <2>4. snapshot'[w].from = checkpoint' /\ snapshot'[w].from.cursor <= snapshot'[w].upto
      BY <2>1, <2>2, <2>3
    <2>5. \A v \in Workers : v # w => snapshot'[v] = snapshot[v] /\ lease'.holder # v
      BY <2>1, <2>2
    <2> QED
      BY <2>4, <2>5 DEF LeaseProtectsSnapshot, BatchesOrdered
  <1>6. ASSUME NEW w \in Workers, Commit(w)
        PROVE  LeaseProtectsSnapshot' /\ BatchesOrdered'
    <2>1. CASE CommitAccepted(w)
      <3>1. lease' = NoLease /\ UNCHANGED snapshot
        BY <1>6, <2>1 DEF Commit, CommitAccepted, localVars
      <3> QED
        BY <3>1, WorkerAssumption DEF LeaseProtectsSnapshot, BatchesOrdered, NoLease
    <2>2. CASE ~CommitAccepted(w)
      <3>1. Return(w) /\ UNCHANGED checkpoint /\ lease' \in {lease, NoLease}
        BY <1>6, <2>2 DEF Commit
      <3> QED
        BY <3>1, ReturnKeepsLeases
    <2> QED
      BY <2>1, <2>2
  <1>7. ASSUME NEW w \in Workers, LeaseItem(w)
        PROVE  LeaseProtectsSnapshot' /\ BatchesOrdered'
    <2>1. UNCHANGED <<checkpoint, snapshot, lease>>
      BY <1>7 DEF LeaseItem, runtimeVars
    <2>2. \A v \in Workers : pc'[v] \in LeaseSteps => pc[v] \in LeaseSteps
      BY <1>0, <1>7 DEF LeaseItem, Goto, LeaseSteps
    <2> QED
      BY <2>1, <2>2, StepKeepsLeases
  <1>8. CASE Expiry
    <2>1. UNCHANGED <<checkpoint, snapshot, pc>>
      BY <1>8
      DEF Expiry, AbandonedLeaseExpires, LeaseExpiresEarly, LeaseExpires,
          AbandonedItemExpires, ItemExpiresEarly, ItemExpires, runtimeVars, localVars
    <2>2. lease'.holder = lease.holder
      BY <1>8
      DEF Expiry, AbandonedLeaseExpires, LeaseExpiresEarly, LeaseExpires,
          AbandonedItemExpires, ItemExpiresEarly, ItemExpires, runtimeVars,
          TypeInv, TypeOK
    <2> QED
      BY <2>1, <2>2, StepKeepsLeases
  <1> QED
    BY <1>1, <1>2, <1>3, <1>4, <1>5, <1>6, <1>7, <1>8
    DEF Next, Engine, QueueLane, Failure, Ack, Nack, NackDead

\* The strengthening holds in every state.
LEMMA ExactlyOnceInvariance == Spec => []ExactlyOnceInv
<1>1. Init => ExactlyOnceInv
  <2> SUFFICES ASSUME Init PROVE ExactlyOnceInv
    OBVIOUS
  <2>1. Folded(<< >>, 1, 0, {}) = {} /\ Consumed(<< >>, 1, 0) = {} /\ Emitting(<< >>, 1, 0) = {}
    <3>1. 1..0 = {}
      OBVIOUS
    <3> QED
      BY <3>1 DEF Folded, Accepted, Consumed, Emitting
  <2>2. DOMAIN queue = {} /\ journal = << >> /\ checkpoint = InitialCheckpoint /\ lease = NoLease
    BY DEF Init
  <2>3. AppliedMatchesPrefix /\ OutboxMatchesPrefix
    BY <2>1, <2>2 DEF AppliedMatchesPrefix, OutboxMatchesPrefix, InitialCheckpoint
  <2>4. LeaseProtectsSnapshot /\ BatchesOrdered
    BY WorkerAssumption
    DEF Init, LeaseProtectsSnapshot, BatchesOrdered, NoLease, NoSnapshot,
        InitialCheckpoint, LeaseSteps
  <2> QED
    BY <2>3, <2>4 DEF ExactlyOnceInv
<1>2. TypeInv /\ ExactlyOnceInv /\ [Next]_vars => ExactlyOnceInv'
  <2> SUFFICES ASSUME TypeInv, ExactlyOnceInv, [Next]_vars
               PROVE  ExactlyOnceInv'
    OBVIOUS
  <2>1. LeaseProtectsSnapshot' /\ BatchesOrdered'
    BY LeaseKept
  <2>2. CASE AppendStep
    BY <2>1, <2>2, AppendKeepsPrefix DEF ExactlyOnceInv
  <2>3. ASSUME NEW w \in Workers, CommitStep(w) PROVE ExactlyOnceInv'
    BY <2>1, <2>3, CommitExtendsPrefix DEF ExactlyOnceInv
  <2>4. CASE QuietStep
    BY <2>1, <2>4
    DEF QuietStep, ExactlyOnceInv, AppliedMatchesPrefix, OutboxMatchesPrefix
  <2> QED
    BY <2>2, <2>3, <2>4, StepKinds
<1> QED
  BY <1>1, <1>2, TypeInvariance, PTL DEF Spec

(***************************************************************************)
(* The committed state and the outbox are exactly those of the journal     *)
(* prefix, whatever was lost, retried, abandoned or expired; and a worker  *)
(* that still holds the lease never meets the optimistic "conflict".       *)
(***************************************************************************)
THEOREM ExactlyOnce ==
    Spec => [](AppliedMatchesPrefix /\ OutboxMatchesPrefix /\ LeaseProtectsSnapshot)
<1>1. ExactlyOnceInv => AppliedMatchesPrefix /\ OutboxMatchesPrefix /\ LeaseProtectsSnapshot
  BY DEF ExactlyOnceInv
<1> QED
  BY <1>1, ExactlyOnceInvariance, PTL

(***************************************************************************)
(* The effects lane alone: one message for each emitting event that a      *)
(* commit folded, however often its batch was acquired and lost before.    *)
(***************************************************************************)
THEOREM OutboxExact == Spec => []OutboxMatchesPrefix
<1>1. ExactlyOnceInv => OutboxMatchesPrefix
  BY DEF ExactlyOnceInv
<1> QED
  BY <1>1, ExactlyOnceInvariance, PTL

-------------------------------------------------------------------------------
(***************************************************************************)
(* The wake marker, the effects lane and the leases, and that              *)
(* DurableRuntime implements DurableInbox.                                 *)
(***************************************************************************)
(***************************************************************************)
(* What a step may do to a message of the lane: no message is removed, its *)
(* delivery count never falls, and only a worker that is about to          *)
(* acknowledge it (or to give it up) makes it "done" (or "dead").          *)
(***************************************************************************)
Finisher(state) == IF state = "done" THEN "ack" ELSE "nackDead"

MessageStep(id) ==
    /\ id \in DOMAIN queue'
    /\ queue[id].attempt <= queue'[id].attempt
    /\ queue'[id].state \in {"done", "dead"}
         => \/ queue'[id].state = queue[id].state
            \/ /\ queue[id].state = "leased"
               /\ \E w \in Workers : /\ pc[w] = Finisher(queue'[id].state)
                                     /\ work[w].id = id
                                     /\ queue[id].holder = w

\* A step that leaves the lane alone.
LEMMA SameLane ==
    ASSUME TypeInv, queue' = queue
    PROVE  \A id \in DOMAIN queue : MessageStep(id)
  BY DEF TypeInv, TypeOK, Messages, MessageStep

\* Settling a message the worker no longer holds changes nothing.
LEMMA SettleStep ==
    ASSUME TypeInv, NEW w \in Workers, NEW state \in {"active", "done", "dead"},
           Settle(w, state), state \in {"done", "dead"} => pc[w] = Finisher(state)
    PROVE  \A id \in DOMAIN queue : MessageStep(id)
  <1>1. CASE ItemHeld(w) /\ work[w].id \in DOMAIN queue
    <2>1. queue' = [queue EXCEPT ![work[w].id] =
                      [@ EXCEPT !.state = state, !.holder = NoWorker, !.expired = FALSE]]
      BY <1>1 DEF Settle
    <2>2. queue \in [DOMAIN queue -> Messages]
      BY DEF TypeInv, TypeOK
    <2>3. DOMAIN queue' = DOMAIN queue
      BY <2>1
    <2>4. ASSUME NEW id \in DOMAIN queue, id # work[w].id PROVE MessageStep(id)
      BY <2>1, <2>2, <2>3, <2>4 DEF MessageStep, Messages
    <2>5. MessageStep(work[w].id)
      <3>1. queue[work[w].id] \in Messages
        BY <1>1, <2>2
      <3>2. /\ queue'[work[w].id].state = state
            /\ queue'[work[w].id].attempt = queue[work[w].id].attempt
        BY <1>1, <2>1, <3>1 DEF Messages
      <3> QED
        BY <1>1, <2>3, <3>1, <3>2 DEF MessageStep, Messages, ItemHeld
    <2> QED
      BY <2>4, <2>5
  <1>2. CASE ~(ItemHeld(w) /\ work[w].id \in DOMAIN queue)
    <2>1. queue' = queue
      BY <1>2 DEF Settle, TypeInv, TypeOK
    <2> QED
      BY <2>1, SameLane
  <1> QED
    BY <1>1, <1>2

LEMMA MessageSteps ==
    ASSUME TypeInv, [Next]_vars
    PROVE  \A id \in DOMAIN queue : MessageStep(id)
  <1>1. CASE HostAppend \/ UNCHANGED vars
    BY <1>1, SameLane DEF HostAppend, vars
  <1>2. ASSUME NEW w \in Workers,
               \/ ReadWake(w) \/ AcquireBusy(w) \/ Acquire(w) \/ AbortEmpty(w)
               \/ TransitionThrows(w) \/ AbortAfterThrow(w) \/ MarkProcessed(w)
               \/ ReadSnapshot(w) \/ ExecuteEffect(w) \/ EffectThrows(w)
               \/ EffectStopped(w) \/ AppendSettlement(w) \/ AppendThrows(w)
               \/ ReportFailure(w) \/ ReportThrows(w) \/ Crash(w)
        PROVE  \A id \in DOMAIN queue : MessageStep(id)
    <2>1. queue' = queue
      BY <1>2
      DEF ReadWake, AcquireBusy, Acquire, AbortEmpty, TransitionThrows,
          AbortAfterThrow, MarkProcessed, ReadSnapshot, ExecuteEffect,
          EffectThrows, EffectStopped, AppendSettlement, AppendThrows,
          ReportFailure, ReportThrows, Crash
    <2> QED
      BY <2>1, SameLane
  <1>3. ASSUME NEW w \in Workers, Commit(w)
        PROVE  \A id \in DOMAIN queue : MessageStep(id)
    <2>1. CASE CommitAccepted(w)
      <3>1. \A id \in DOMAIN queue : id \in DOMAIN queue' /\ queue'[id] = queue[id]
        BY <1>3, <2>1 DEF Commit
      <3> QED
        BY <3>1 DEF MessageStep, TypeInv, TypeOK, Messages
    <2>2. CASE ~CommitAccepted(w)
      BY <1>3, <2>2, SameLane DEF Commit
    <2> QED
      BY <2>1, <2>2
  <1>4. ASSUME NEW w \in Workers, LeaseItem(w)
        PROVE  \A id \in DOMAIN queue : MessageStep(id)
    <2>1. PICK it \in DOMAIN queue :
            queue' = [queue EXCEPT ![it] =
                        [state |-> "leased", attempt |-> queue[it].attempt + 1,
                         holder |-> w, expired |-> FALSE]]
      BY <1>4 DEF LeaseItem
    <2>2. \A id \in DOMAIN queue : queue[id] \in Messages
      BY DEF TypeInv, TypeOK
    <2> QED
      BY <2>1, <2>2 DEF MessageStep, Messages
  <1>5. ASSUME NEW w \in Workers, Ack(w) \/ NackDead(w) \/ Nack(w)
        PROVE  \A id \in DOMAIN queue : MessageStep(id)
    BY <1>5, SettleStep DEF Ack, NackDead, Nack, Finisher
  <1>6. CASE Expiry
    <2>1. CASE AbandonedLeaseExpires \/ LeaseExpiresEarly
      BY <2>1, SameLane
      DEF AbandonedLeaseExpires, LeaseExpiresEarly, LeaseExpires
    <2>2. CASE AbandonedItemExpires \/ ItemExpiresEarly
      <3>1. PICK it \in DOMAIN queue : ItemExpires(it)
        BY <2>2 DEF AbandonedItemExpires, ItemExpiresEarly
      <3>2. \A id \in DOMAIN queue : queue[id] \in Messages
        BY DEF TypeInv, TypeOK
      <3> QED
        BY <3>1, <3>2 DEF MessageStep, Messages, ItemExpires
    <2> QED
      BY <1>6, <2>1, <2>2 DEF Expiry
  <1> QED
    BY <1>1, <1>2, <1>3, <1>4, <1>5, <1>6 DEF Next, Engine, QueueLane, Failure

\* A message that appears in the lane is new and has not been delivered.
LEMMA NewMessageActive ==
    ASSUME TypeInv, [Next]_vars, NEW id \in DOMAIN queue', id \notin DOMAIN queue
    PROVE  queue'[id] = ActiveMessage
  <1>1. ~QuietStep /\ ~AppendStep
    BY DEF QuietStep, AppendStep
  <1>2. PICK w \in Workers : CommitStep(w)
    BY <1>1, StepKinds
  <1>3. \E v \in Workers : Commit(v) /\ CommitAccepted(v)
    <2>1. checkpoint' # checkpoint
      BY <1>2 DEF CommitStep, NextCheckpoint, TypeInv, TypeOK, Checkpoints
    <2> QED
      BY <2>1
      DEF Next, Engine, QueueLane, Failure, Expiry, HostAppend, ReadWake,
          AcquireBusy, Acquire, AbortEmpty, AbortAfterThrow, Commit, MarkProcessed,
          LeaseItem, ReadSnapshot, ExecuteEffect, EffectThrows, AppendSettlement,
          Ack, ReportFailure, NackDead, Nack, Settle, TransitionThrows,
          EffectStopped, AppendThrows, ReportThrows, Crash, AbandonedLeaseExpires,
          LeaseExpiresEarly, LeaseExpires, AbandonedItemExpires, ItemExpiresEarly,
          ItemExpires, runtimeVars, vars
  <1> QED
    BY <1>3 DEF Commit

-------------------------------------------------------------------------------
(***************************************************************************)
(* What a step may do to a worker that is running an effect afterwards: it *)
(* has just leased its message, or it moves on with the message it had.    *)
(***************************************************************************)
Leased(w) ==
    /\ pc'[w] = "handler"
    /\ work'[w].id \in DOMAIN queue
    /\ queue'[work'[w].id].attempt = work'[w].attempt

MovesOn(w) ==
    /\ pc[w] \in QueueSteps
    /\ work'[w] = work[w]
    /\ pc'[w] \in {"report", "nackDead"}
         => pc[w] \in {"report", "nackDead"} \/ work[w].attempt >= MaxAttempts
    /\ pc'[w] \in {"ack", "nackDead"}
         => \/ pc[w] = pc'[w]
            \/ ~Settling(journal, work[w].id)
            \/ work[w].id \in checkpoint.settled
            \/ journal' = Append(journal, SettledEntry(work[w].id))

WorkerStep(w) == pc'[w] \in QueueSteps => Leased(w) \/ MovesOn(w)

\* A worker that takes no part in a step stays where it is.
LEMMA OthersStay ==
    ASSUME NEW v \in Workers, pc'[v] = pc[v], work'[v] = work[v]
    PROVE  WorkerStep(v)
  BY DEF WorkerStep, MovesOn

LEMMA WorkerSteps ==
    ASSUME TypeInv, [Next]_vars
    PROVE  \A v \in Workers : WorkerStep(v)
  <1>0. /\ pc \in [Workers -> {"idle"} \cup EngineSteps \cup QueueSteps]
        /\ work \in [Workers -> [id : MessageIds, attempt : Nat]]
    BY DEF TypeInv, TypeOK
  <1> SUFFICES ASSUME NEW v \in Workers PROVE WorkerStep(v)
    OBVIOUS
  <1>1. CASE HostAppend \/ Expiry \/ UNCHANGED vars
    <2>1. UNCHANGED <<pc, work>>
      BY <1>1
      DEF HostAppend, Expiry, AbandonedLeaseExpires, LeaseExpiresEarly,
          LeaseExpires, AbandonedItemExpires, ItemExpiresEarly, ItemExpires,
          localVars, vars
    <2> QED
      BY <2>1, OthersStay
  <1>2. ASSUME NEW w \in Workers, Engine(w) PROVE WorkerStep(v)
    <2>1. pc'[v] \in QueueSteps => pc'[v] = pc[v] /\ work'[v] = work[v]
      BY <1>0, <1>2
      DEF Engine, ReadWake, AcquireBusy, Acquire, AbortEmpty, AbortAfterThrow,
          Commit, MarkProcessed, Goto, Return, localVars, QueueSteps
    <2> QED
      BY <2>1, OthersStay DEF WorkerStep
  <1>3. ASSUME NEW w \in Workers, LeaseItem(w) PROVE WorkerStep(v)
    <2>1. CASE v = w
      <3>1. PICK it \in DOMAIN queue :
              /\ queue' = [queue EXCEPT ![it] =
                            [state |-> "leased", attempt |-> queue[it].attempt + 1,
                             holder |-> w, expired |-> FALSE]]
              /\ work' = [work EXCEPT ![w] = [id |-> it, attempt |-> queue[it].attempt + 1]]
        BY <1>3 DEF LeaseItem
      <3>2. pc'[w] = "handler"
        BY <1>0, <1>3 DEF LeaseItem, Goto
      <3>3. work'[w] = [id |-> it, attempt |-> queue[it].attempt + 1]
        BY <1>0, <3>1
      <3>4. queue'[it].attempt = queue[it].attempt + 1
        BY <3>1
      <3> QED
        BY <2>1, <3>2, <3>3, <3>4 DEF WorkerStep, Leased
    <2>2. CASE v # w
      <3>1. pc'[v] = pc[v] /\ work'[v] = work[v]
        BY <1>0, <1>3, <2>2 DEF LeaseItem, Goto
      <3> QED
        BY <3>1, OthersStay
    <2> QED
      BY <2>1, <2>2
  <1>4. ASSUME NEW w \in Workers,
               \/ ReadSnapshot(w) \/ ExecuteEffect(w) \/ EffectThrows(w)
               \/ EffectStopped(w) \/ AppendSettlement(w) \/ AppendThrows(w)
               \/ ReportFailure(w) \/ ReportThrows(w)
        PROVE  WorkerStep(v)
    <2>1. /\ work' = work
          /\ \E step : Goto(w, step)
      BY <1>4
      DEF ReadSnapshot, ExecuteEffect, EffectThrows, EffectStopped,
          AppendSettlement, AppendThrows, ReportFailure, ReportThrows, localVars
    <2>2. CASE v # w
      BY <1>0, <2>1, <2>2, OthersStay DEF Goto
    <2>3. CASE v = w
      <3>1. pc[w] \in QueueSteps /\ work'[w] = work[w]
        BY <1>4, <2>1
        DEF ReadSnapshot, ExecuteEffect, EffectThrows, EffectStopped,
            AppendSettlement, AppendThrows, ReportFailure, ReportThrows, QueueSteps
      <3>2. pc'[w] \in {"report", "nackDead"}
              => pc[w] \in {"report", "nackDead"} \/ work[w].attempt >= MaxAttempts
        BY <1>0, <1>4
        DEF ReadSnapshot, ExecuteEffect, EffectThrows, EffectStopped,
            AppendSettlement, AppendThrows, ReportFailure, ReportThrows, Goto,
            AfterThrow
      <3>3. pc'[w] \in {"ack", "nackDead"}
              => \/ ~Settling(journal, work[w].id)
                 \/ work[w].id \in checkpoint.settled
                 \/ journal' = Append(journal, SettledEntry(work[w].id))
        BY <1>0, <1>4
        DEF ReadSnapshot, ExecuteEffect, EffectThrows, EffectStopped,
            AppendSettlement, AppendThrows, ReportFailure, ReportThrows, Goto,
            AfterThrow, AppendAndWake
      <3> QED
        BY <2>3, <3>1, <3>2, <3>3 DEF WorkerStep, MovesOn
    <2> QED
      BY <2>2, <2>3
  <1>5. ASSUME NEW w \in Workers, Return(w) PROVE WorkerStep(v)
    <2>1. CASE v = w
      BY <1>0, <1>5, <2>1 DEF Return, Goto, WorkerStep, QueueSteps
    <2>2. CASE v # w
      BY <1>0, <1>5, <2>2, OthersStay DEF Return, Goto
    <2> QED
      BY <2>1, <2>2
  <1>6. ASSUME NEW w \in Workers, Ack(w) \/ NackDead(w) \/ Nack(w) \/ Crash(w)
        PROVE  Return(w)
    BY <1>6 DEF Ack, NackDead, Nack, Crash, Settle
  <1>7. ASSUME NEW w \in Workers, TransitionThrows(w) PROVE WorkerStep(v)
    <2>1. pc'[v] \in QueueSteps => pc'[v] = pc[v] /\ work'[v] = work[v]
      BY <1>0, <1>7 DEF TransitionThrows, Goto, localVars, QueueSteps
    <2> QED
      BY <2>1, OthersStay DEF WorkerStep
  <1> QED
    BY <1>1, <1>2, <1>3, <1>4, <1>5, <1>6, <1>7 DEF Next, QueueLane, Failure

-------------------------------------------------------------------------------
(***************************************************************************)
(* The strengthening for the lane.  A worker may still be running a        *)
(* message that another worker leased after it, so nothing relates it to   *)
(* the message's lease; what holds is that the message has been delivered  *)
(* at least as often as the worker believes, that only the last permitted  *)
(* delivery is given up, and that a worker about to acknowledge or give up *)
(* has the outcome, if there is one, in the journal.                       *)
(***************************************************************************)
WorkTracked ==
    \A w \in Workers :
       pc[w] \in QueueSteps
         => /\ work[w].id \in DOMAIN queue
            /\ work[w].attempt <= queue[work[w].id].attempt

GivesUpExhausted ==
    \A w \in Workers :
       pc[w] \in {"report", "nackDead"} => work[w].attempt >= MaxAttempts

OutcomeJournalled ==
    \A w \in Workers :
       pc[w] \in {"ack", "nackDead"} /\ Settling(journal, work[w].id)
         => Reported(work[w].id)

LaneInv ==
    /\ WorkTracked
    /\ GivesUpExhausted
    /\ OutcomeJournalled
    /\ DeadIsExhausted
    /\ FinishedIsReported

\* The event that emitted a message of the lane is in the journal.
LEMMA MessageEmitted ==
    ASSUME TypeInv, ExactlyOnceInv, NEW id \in DOMAIN queue
    PROVE  id[2] \in 1..Len(journal)
  <1>1. id[2] \in Emitting(journal, 1, checkpoint.cursor)
    BY DEF ExactlyOnceInv, OutboxMatchesPrefix
  <1>2. checkpoint.cursor <= Len(journal) /\ checkpoint.cursor \in Nat /\ Len(journal) \in Nat
    BY DEF ExactlyOnceInv, AppliedMatchesPrefix, TypeInv, TypeOK, Checkpoints
  <1> QED
    BY <1>1, <1>2 DEF Emitting

\* The journal only grows, so outcomes stay in it and effects keep their kind.
LEMMA OutcomesKept ==
    ASSUME TypeInv, ExactlyOnceInv, [Next]_vars, NEW id \in DOMAIN queue
    PROVE  /\ Settling(journal', id) <=> Settling(journal, id)
           /\ Reported(id) => Reported(id)'
  <1>1. CASE journal' = journal
    BY <1>1 DEF Reported
  <1>2. CASE \E entry \in Entries : journal' = Append(journal, entry)
    <2>1. PICK entry \in Entries : journal' = Append(journal, entry)
      BY <1>2
    <2>2. journal \in Seq(Entries)
      BY DEF TypeInv, TypeOK
    <2>3. /\ Len(journal') = Len(journal) + 1 /\ Len(journal) \in Nat
          /\ \A i \in 1..Len(journal) : journal'[i] = journal[i]
      BY <2>1, <2>2, AppendFacts
    <2>4. Settling(journal', id) <=> Settling(journal, id)
      BY <2>3, MessageEmitted DEF Settling
    <2>5. Reported(id) => Reported(id)'
      BY <2>3 DEF Reported
    <2> QED
      BY <2>4, <2>5
  <1> QED
    BY <1>1, <1>2, StepKinds DEF AppendStep, CommitStep, QuietStep

\* The settlement that made an effect consumed is in the journal.
LEMMA ConsumedIsReported ==
    ASSUME TypeInv, ExactlyOnceInv, NEW id \in checkpoint.settled
    PROVE  Reported(id)
  <1>1. /\ journal \in Seq(Entries)
        /\ checkpoint.cursor \in Nat /\ checkpoint.cursor <= Len(journal)
        /\ id \in Consumed(journal, 1, checkpoint.cursor)
    BY DEF TypeInv, TypeOK, Checkpoints, ExactlyOnceInv, AppliedMatchesPrefix
  <1>2. PICK i \in 1..checkpoint.cursor : ~IsEvent(journal[i]) /\ journal[i].message = id
    BY <1>1 DEF Consumed
  <1>3. i \in 1..Len(journal)
    BY <1>1
  <1>4. Settles(journal[i], id)
    BY <1>1, <1>2, <1>3 DEF Entries, IsEvent, Settles
  <1> QED
    BY <1>3, <1>4 DEF Reported

\* An appended settlement is a report.
LEMMA AppendedIsReported ==
    ASSUME TypeInv, NEW id \in MessageIds, journal' = Append(journal, SettledEntry(id))
    PROVE  Reported(id)'
  <1>1. journal \in Seq(Entries) /\ SettledEntry(id) \in Entries
    BY EntriesTyped DEF TypeInv, TypeOK
  <1>2. /\ Len(journal') = Len(journal) + 1 /\ Len(journal) \in Nat
        /\ journal'[Len(journal) + 1] = SettledEntry(id)
    BY <1>1, AppendFacts
  <1>3. Len(journal') \in 1..Len(journal')
    BY <1>2
  <1> QED
    BY <1>2, <1>3 DEF Reported, Settles, SettledEntry

\* Every step keeps the invariant of the lane.
LEMMA LaneStep ==
    ASSUME TypeInv, ExactlyOnceInv, LaneInv, [Next]_vars
    PROVE  LaneInv'
  <1>0. \A id \in DOMAIN queue : queue[id] \in Messages
    BY DEF TypeInv, TypeOK
  <1>1. WorkTracked'
    <2> SUFFICES ASSUME NEW w \in Workers, pc'[w] \in QueueSteps
                 PROVE  /\ work'[w].id \in DOMAIN queue'
                        /\ work'[w].attempt <= queue'[work'[w].id].attempt
      BY DEF WorkTracked
    <2>0. \A id \in DOMAIN queue' : queue'[id].attempt \in Nat
      <3>1. \A id \in DOMAIN queue : MessageStep(id)
        BY MessageSteps
      <3>2. TypeOK'
        BY TypeStep DEF TypeInv
      <3> QED
        BY <3>2 DEF TypeOK, Messages
    <2>1. CASE Leased(w)
      <3>1. work'[w].id \in DOMAIN queue'
        BY <2>1, MessageSteps DEF Leased, MessageStep
      <3> QED
        BY <2>0, <2>1, <3>1 DEF Leased
    <2>2. CASE MovesOn(w)
      <3> DEFINE id == work[w].id
      <3>1. id \in DOMAIN queue /\ work[w].attempt <= queue[id].attempt
        BY <2>2 DEF MovesOn, LaneInv, WorkTracked
      <3>2. id \in DOMAIN queue' /\ queue[id].attempt <= queue'[id].attempt
        BY <3>1, MessageSteps DEF MessageStep
      <3>3. work[w].attempt \in Nat /\ queue[id].attempt \in Nat
        BY <1>0, <3>1 DEF Messages, TypeInv, TypeOK
      <3> QED
        BY <2>0, <2>2, <3>1, <3>2, <3>3 DEF MovesOn
    <2> QED
      BY <2>1, <2>2, WorkerSteps DEF WorkerStep
  <1>2. GivesUpExhausted'
    <2> SUFFICES ASSUME NEW w \in Workers, pc'[w] \in {"report", "nackDead"}
                 PROVE  work'[w].attempt >= MaxAttempts
      BY DEF GivesUpExhausted
    <2>1. MovesOn(w)
      BY WorkerSteps DEF WorkerStep, Leased, QueueSteps
    <2> QED
      BY <2>1 DEF MovesOn, LaneInv, GivesUpExhausted
  <1>3. OutcomeJournalled'
    <2> SUFFICES ASSUME NEW w \in Workers, pc'[w] \in {"ack", "nackDead"},
                        Settling(journal', work'[w].id)
                 PROVE  Reported(work[w].id)'
      BY DEF OutcomeJournalled
    <2>1. MovesOn(w)
      BY WorkerSteps DEF WorkerStep, Leased, QueueSteps
    <2>2. PICK id \in DOMAIN queue : id = work[w].id /\ id = work'[w].id
      BY <2>1 DEF MovesOn, LaneInv, WorkTracked
    <2>3. Settling(journal, id) /\ (Reported(id) => Reported(id)') /\ id \in MessageIds
      BY <2>2, OutcomesKept DEF TypeInv, TypeOK
    <2>4. ASSUME pc[w] = pc'[w] PROVE Reported(id)'
      BY <2>2, <2>3, <2>4 DEF LaneInv, OutcomeJournalled
    <2>5. ASSUME id \in checkpoint.settled PROVE Reported(id)'
      BY <2>3, <2>5, ConsumedIsReported
    <2>6. ASSUME journal' = Append(journal, SettledEntry(id)) PROVE Reported(id)'
      BY <2>3, <2>6, AppendedIsReported
    <2>7. Reported(id)'
      BY <2>1, <2>2, <2>3, <2>4, <2>5, <2>6 DEF MovesOn
    <2> QED
      BY <2>2, <2>7 DEF Reported
  <1>4. DeadIsExhausted'
    <2> SUFFICES ASSUME NEW id \in DOMAIN queue', queue'[id].state = "dead"
                 PROVE  queue'[id].attempt >= MaxAttempts
      BY DEF DeadIsExhausted
    <2>1. id \in DOMAIN queue
      BY NewMessageActive DEF ActiveMessage
    <2>2. MessageStep(id) /\ queue[id] \in Messages /\ queue'[id].attempt \in Nat
      BY <1>0, <2>1, MessageSteps, TypeStep DEF TypeInv, TypeOK, Messages
    <2>3. queue[id].attempt >= MaxAttempts
      <3>1. CASE queue[id].state = "dead"
        BY <2>1, <3>1 DEF LaneInv, DeadIsExhausted
      <3>2. ASSUME NEW w \in Workers, pc[w] = "nackDead", work[w].id = id
            PROVE  queue[id].attempt >= MaxAttempts
        <4>1. work[w].attempt >= MaxAttempts /\ work[w].attempt <= queue[id].attempt
          BY <3>2 DEF LaneInv, GivesUpExhausted, WorkTracked, QueueSteps
        <4>2. work[w].attempt \in Nat /\ queue[id].attempt \in Nat
          BY <2>2 DEF Messages, TypeInv, TypeOK
        <4> QED
          BY <4>1, <4>2, AttemptsAssumption
      <3> QED
        BY <2>2, <3>1, <3>2 DEF MessageStep, Finisher
    <2> QED
      BY <2>2, <2>3, AttemptsAssumption DEF MessageStep, Messages
  <1>5. FinishedIsReported'
    <2> SUFFICES ASSUME NEW id \in DOMAIN queue', queue'[id].state \in {"done", "dead"},
                        Settling(journal', id)
                 PROVE  Reported(id)'
      BY DEF FinishedIsReported
    <2>1. id \in DOMAIN queue
      BY NewMessageActive DEF ActiveMessage
    <2>2. Settling(journal, id) /\ (Reported(id) => Reported(id)')
      BY <2>1, OutcomesKept
    <2>3. CASE queue'[id].state = queue[id].state
      BY <2>1, <2>2, <2>3 DEF LaneInv, FinishedIsReported
    <2>4. ASSUME NEW w \in Workers, pc[w] = Finisher(queue'[id].state), work[w].id = id
          PROVE  Reported(id)
      BY <2>2, <2>4 DEF LaneInv, OutcomeJournalled, Finisher
    <2> QED
      BY <2>1, <2>2, <2>3, <2>4, MessageSteps DEF MessageStep
  <1> QED
    BY <1>1, <1>2, <1>3, <1>4, <1>5 DEF LaneInv

\* So it always holds.
LEMMA LaneInvariance == Spec => []LaneInv
<1>1. Init => LaneInv
  BY DEF Init, LaneInv, WorkTracked, GivesUpExhausted, OutcomeJournalled,
         DeadIsExhausted, FinishedIsReported, QueueSteps
<1>2. TypeInv /\ ExactlyOnceInv /\ LaneInv /\ [Next]_vars => LaneInv'
  BY LaneStep
<1> QED
  BY <1>1, <1>2, TypeInvariance, ExactlyOnceInvariance, PTL DEF Spec

(***************************************************************************)
(* An effect is acknowledged or dead only once its outcome is journalled,  *)
(* even when two workers ran it at the same time and the one that finishes *)
(* the message is not the one that reported.                               *)
(***************************************************************************)
THEOREM NoOutcomeLost == Spec => []FinishedIsReported
<1>1. LaneInv => FinishedIsReported
  BY DEF LaneInv
<1> QED
  BY <1>1, LaneInvariance, PTL

\* An effect is given up only after it has been delivered MaxAttempts times.
THEOREM NoEarlyDeath == Spec => []DeadIsExhausted
<1>1. LaneInv => DeadIsExhausted
  BY DEF LaneInv
<1> QED
  BY <1>1, LaneInvariance, PTL

-------------------------------------------------------------------------------
(***************************************************************************)
(* Leases.  While the transition lease has not expired, whoever takes it   *)
(* from its holder is the holder, leaving the step it was at.              *)
(***************************************************************************)
THEOREM TransitionLeaseSafe == Spec => TransitionLeaseHonoured
<1> DEFINE Honoured ==
      LeaseHeld(lease.holder) /\ lease.holder # NoWorker
        => \/ lease'.holder = lease.holder
           \/ pc'[lease.holder] # pc[lease.holder]
<1>1. TypeInv /\ [Next]_vars => Honoured
  <2> SUFFICES ASSUME TypeInv, [Next]_vars, ~lease.expired, lease.holder # NoWorker,
                      lease'.holder # lease.holder
               PROVE  pc'[lease.holder] # pc[lease.holder]
    BY DEF LeaseHeld
  <2>0. /\ pc \in [Workers -> {"idle"} \cup EngineSteps \cup QueueSteps]
        /\ lease \in [holder : Workers \cup {NoWorker}, expired : BOOLEAN]
    BY DEF TypeInv, TypeOK
  <2>1. ~Expiry
    BY <2>0
    DEF Expiry, AbandonedLeaseExpires, LeaseExpiresEarly, LeaseExpires,
        AbandonedItemExpires, ItemExpiresEarly, ItemExpires, runtimeVars
  <2>2. ASSUME NEW w \in Workers, AbortEmpty(w) \/ AbortAfterThrow(w)
        PROVE  pc'[lease.holder] # pc[lease.holder]
    BY <2>0, <2>2
    DEF AbortEmpty, AbortAfterThrow, ReleaseIfHeld, Return, Goto
  <2>3. ASSUME NEW w \in Workers, Commit(w)
        PROVE  pc'[lease.holder] # pc[lease.holder]
    <3>1. LeaseHeld(w) /\ pc[w] = "transition"
      BY <2>3 DEF Commit
    <3>2. pc'[w] \in {"mark", "idle"}
      BY <2>0, <2>3 DEF Commit, Return, Goto
    <3> QED
      BY <3>1, <3>2 DEF LeaseHeld
  <2> QED
    BY <2>1, <2>2, <2>3
    DEF Next, Engine, QueueLane, Failure, HostAppend, ReadWake, AcquireBusy,
        Acquire, LeaseFree, MarkProcessed, LeaseItem, ReadSnapshot,
        ExecuteEffect, EffectThrows, AppendSettlement, Ack, ReportFailure,
        NackDead, Nack, Settle, TransitionThrows, EffectStopped, AppendThrows,
        ReportThrows, Crash, runtimeVars, vars
<1> QED
  BY <1>1, TypeInvariance, PTL DEF Spec, TransitionLeaseHonoured

(***************************************************************************)
(* While a message's lease has not expired, only its holder takes it out   *)
(* of "leased", and nobody leases it a second time.                        *)
(***************************************************************************)
THEOREM ItemLeaseSafe == Spec => ItemLeaseHonoured
<1> DEFINE Honoured ==
      \A id \in DOMAIN queue :
         queue[id].state = "leased" /\ ~queue[id].expired
           => LET w == queue[id].holder
              IN \/ queue'[id].state = "leased" /\ queue'[id].holder = w
                 \/ pc'[w] # pc[w] /\ work[w].id = id
<1>1. TypeInv /\ [Next]_vars => Honoured
  <2> SUFFICES ASSUME TypeInv, [Next]_vars, NEW id \in DOMAIN queue,
                      queue[id].state = "leased", ~queue[id].expired,
                      queue'[id].state # "leased" \/ queue'[id].holder # queue[id].holder
               PROVE  /\ pc'[queue[id].holder] # pc[queue[id].holder]
                      /\ work[queue[id].holder].id = id
    OBVIOUS
  <2>0. /\ pc \in [Workers -> {"idle"} \cup EngineSteps \cup QueueSteps]
        /\ queue \in [DOMAIN queue -> Messages]
        /\ queue' # queue
    BY DEF TypeInv, TypeOK
  <2>1. ASSUME NEW w \in Workers PROVE ~Commit(w)
    BY <2>0 DEF Commit
  <2>2. ASSUME NEW w \in Workers PROVE ~LeaseItem(w)
    <3> SUFFICES ASSUME LeaseItem(w) PROVE FALSE
      OBVIOUS
    <3>1. PICK it \in DOMAIN queue :
            /\ Leasable(it)
            /\ queue' = [queue EXCEPT ![it] =
                          [state |-> "leased", attempt |-> queue[it].attempt + 1,
                           holder |-> w, expired |-> FALSE]]
      BY DEF LeaseItem
    <3>2. it # id
      BY <3>1 DEF Leasable
    <3> QED
      BY <2>0, <3>1, <3>2
  <2>3. ~Expiry
    BY <2>0
    DEF Expiry, AbandonedLeaseExpires, LeaseExpiresEarly, LeaseExpires,
        AbandonedItemExpires, ItemExpiresEarly, ItemExpires, Messages
  <2>4. ASSUME NEW w \in Workers, NEW state, Settle(w, state), pc[w] # "idle"
        PROVE  /\ pc'[queue[id].holder] # pc[queue[id].holder]
               /\ work[queue[id].holder].id = id
    <3>1. ItemHeld(w) /\ work[w].id = id
      BY <2>0, <2>4 DEF Settle
    <3>2. queue[id].holder = w
      BY <3>1 DEF ItemHeld
    <3>3. pc'[w] = "idle"
      BY <2>0, <2>4 DEF Settle, Return, Goto
    <3> QED
      BY <2>4, <3>1, <3>2, <3>3
  <2> QED
    BY <2>0, <2>1, <2>2, <2>3, <2>4
    DEF Next, Engine, QueueLane, Failure, HostAppend, ReadWake, AcquireBusy,
        Acquire, AbortEmpty, AbortAfterThrow, MarkProcessed, ReadSnapshot,
        ExecuteEffect, EffectThrows, AppendSettlement, Ack, ReportFailure,
        NackDead, Nack, TransitionThrows, EffectStopped, AppendThrows,
        ReportThrows, Crash, vars
<1> QED
  BY <1>1, TypeInvariance, PTL DEF Spec, ItemLeaseHonoured

-------------------------------------------------------------------------------
(***************************************************************************)
(* Wakes.  A worker consumes the request it read before it acquired: either *)
(* a newer request is pending behind it, or the batch it acquired (and,    *)
(* after its commit, the checkpoint) reaches the end of the journal.  This *)
(* needs every append to move requestedAt, as the memory provider's does.  *)
(***************************************************************************)
SeenIsPast == \A w \in Workers : wakeSeen[w] <= wake.requestedAt

NewerRequest(w) == wakeSeen[w] < wake.requestedAt

BatchCovers ==
    \A w \in Workers :
       pc[w] = "transition" => NewerRequest(w) \/ snapshot[w].upto = Len(journal)

CheckpointCovers ==
    \A w \in Workers :
       pc[w] \in {"abortEmpty", "mark"}
         => NewerRequest(w) \/ checkpoint.cursor = Len(journal)

WakeInv == SeenIsPast /\ BatchCovers /\ CheckpointCovers /\ NoWakeLost

\* The cursor never moves back, and never past the end of the journal.
LEMMA CursorForward ==
    ASSUME TypeInv, ExactlyOnceInv, [Next]_vars
    PROVE  checkpoint.cursor <= checkpoint'.cursor
  <1>1. checkpoint.cursor \in Nat
    BY DEF TypeInv, TypeOK, Checkpoints
  <1>2. CASE checkpoint' = checkpoint
    BY <1>1, <1>2
  <1>3. ASSUME NEW w \in Workers, CommitStep(w)
        PROVE  checkpoint.cursor <= checkpoint'.cursor
    <2>1. snapshot[w].from = checkpoint
      BY <1>3
      DEF CommitStep, CommitAccepted, LeaseHeld, ExactlyOnceInv,
          LeaseProtectsSnapshot, LeaseSteps
    <2>2. checkpoint'.cursor = snapshot[w].upto
      BY <1>3 DEF CommitStep, NextCheckpoint
    <2> QED
      BY <2>1, <2>2 DEF ExactlyOnceInv, BatchesOrdered
  <1> QED
    BY <1>2, <1>3, StepKinds DEF AppendStep, QuietStep

\* Every append of the memory provider moves the request forward.
LEMMA RequestAdvances ==
    ASSUME TypeInv, Provider = "memory",
           NEW entry, AppendAndWake(entry)
    PROVE  /\ wake'.requestedAt > wake.requestedAt
           /\ wake'.requestedAt > wake'.processedAt
           /\ wake'.requestedAt \in Nat
           /\ wake'.processedAt = wake.processedAt
  <1>1. PICK now \in Clock : wake' = [wake EXCEPT !.requestedAt = NextRequestedAt(now)]
    BY DEF AppendAndWake
  <1>2. /\ wake \in [requestedAt : Nat, processedAt : Nat]
        /\ now \in Nat
    BY ClockAssumption DEF TypeInv, TypeOK
  <1>3. wake'.requestedAt = NextRequestedAt(now) /\ wake'.processedAt = wake.processedAt
    BY <1>1, <1>2
  <1> QED
    BY <1>2, <1>3 DEF NextRequestedAt, WakeFloor

\* A step that journals nothing, moves no marker and acquires nothing.
LEMMA WakeUndisturbed ==
    ASSUME TypeInv, ExactlyOnceInv, ExactlyOnceInv', WakeInv, [Next]_vars,
           UNCHANGED <<journal, wake>>,
           \A v \in Workers : wakeSeen'[v] \in {wakeSeen[v], 0},
           \A v \in Workers : pc'[v] = "transition"
             => pc[v] = "transition" /\ UNCHANGED <<wakeSeen[v], snapshot[v]>>,
           \A v \in Workers : pc'[v] \in {"abortEmpty", "mark"}
             => /\ wakeSeen'[v] = wakeSeen[v]
                /\ \/ pc[v] \in {"abortEmpty", "mark"}
                   \/ pc[v] = "transition" /\ checkpoint'.cursor = snapshot[v].upto
    PROVE  WakeInv'
  <1>1. /\ checkpoint.cursor <= checkpoint'.cursor
        /\ checkpoint.cursor \in Nat /\ checkpoint'.cursor \in Nat /\ Len(journal) \in Nat
        /\ checkpoint'.cursor <= Len(journal)
        /\ wake.requestedAt \in Nat
    <2>1. TypeInv' /\ checkpoint.cursor <= checkpoint'.cursor
      BY CursorForward, TypeStep
    <2>2. checkpoint \in Checkpoints /\ checkpoint' \in Checkpoints
      BY <2>1 DEF TypeInv, TypeOK
    <2>3. checkpoint'.cursor <= Len(journal)
      BY DEF ExactlyOnceInv, AppliedMatchesPrefix
    <2> QED
      BY <2>1, <2>2, <2>3 DEF TypeInv, TypeOK, Checkpoints
  <1>2. SeenIsPast'
    BY <1>1 DEF WakeInv, SeenIsPast
  <1>3. BatchCovers'
    BY DEF WakeInv, BatchCovers, NewerRequest
  <1>4. CheckpointCovers'
    BY <1>1 DEF WakeInv, BatchCovers, CheckpointCovers, NewerRequest
  <1>5. NoWakeLost'
    BY <1>1 DEF WakeInv, NoWakeLost, WakePending
  <1> QED
    BY <1>2, <1>3, <1>4, <1>5 DEF WakeInv

\* An append leaves a request behind it that is newer than any seen.
LEMMA AppendLeavesWake ==
    ASSUME TypeInv, Provider = "memory", WakeInv, NEW entry, AppendAndWake(entry),
           UNCHANGED <<wakeSeen, snapshot>>,
           \A v \in Workers : pc'[v] \in {"transition", "abortEmpty", "mark"}
             => pc'[v] = pc[v]
    PROVE  WakeInv'
  <1>1. /\ wake'.requestedAt > wake.requestedAt
        /\ wake'.requestedAt > wake'.processedAt
        /\ wake.requestedAt \in Nat /\ wake'.requestedAt \in Nat
        /\ wakeSeen \in [Workers -> Nat]
    BY RequestAdvances DEF TypeInv, TypeOK
  <1>2. \A v \in Workers : NewerRequest(v)' /\ wakeSeen'[v] <= wake'.requestedAt
    BY <1>1 DEF WakeInv, SeenIsPast, NewerRequest
  <1> QED
    BY <1>1, <1>2
    DEF WakeInv, SeenIsPast, BatchCovers, CheckpointCovers, NoWakeLost, WakePending

\* Every step keeps the wakes, if the marker is written with the value read.
LEMMA WakeStep ==
    ASSUME TypeInv, ExactlyOnceInv, ExactlyOnceInv', Provider = "memory", WakeInv,
           [Next]_vars
    PROVE  WakeInv'
  <1>0. /\ pc \in [Workers -> {"idle"} \cup EngineSteps \cup QueueSteps]
        /\ wakeSeen \in [Workers -> Nat]
        /\ snapshot \in [Workers -> [from : Checkpoints, upto : Nat]]
        /\ wake \in [requestedAt : Nat, processedAt : Nat]
        /\ Len(journal) \in Nat
    BY DEF TypeInv, TypeOK
  <1>1. CASE HostAppend
    BY <1>1, AppendLeavesWake DEF HostAppend, localVars
  <1>2. ASSUME NEW w \in Workers, AppendSettlement(w) \/ ReportFailure(w)
        PROVE  WakeInv'
    <2>1. /\ UNCHANGED <<checkpoint, wakeSeen, snapshot>>
          /\ \A v \in Workers : pc'[v] \in {"transition", "abortEmpty", "mark"}
               => pc'[v] = pc[v]
      BY <1>0, <1>2 DEF AppendSettlement, ReportFailure, Goto, runtimeVars, localVars
    <2>2. CASE UNCHANGED <<journal, wake>>
      BY <2>1, <2>2, WakeUndisturbed
    <2>3. CASE \E entry : AppendAndWake(entry)
      BY <2>1, <2>3, AppendLeavesWake
    <2> QED
      BY <1>2, <2>2, <2>3 DEF AppendSettlement, ReportFailure
  <1>3. ASSUME NEW w \in Workers, ReadWake(w) PROVE WakeInv'
    <2>1. /\ UNCHANGED <<journal, wake, checkpoint, snapshot>>
          /\ wakeSeen' = [wakeSeen EXCEPT ![w] = wake.requestedAt]
          /\ pc' = [pc EXCEPT ![w] = "acquire"]
      BY <1>3 DEF ReadWake, Goto, runtimeVars
    <2> QED
      BY <1>0, <2>1
      DEF WakeInv, SeenIsPast, BatchCovers, CheckpointCovers, NewerRequest,
          NoWakeLost, WakePending
  <1>4. ASSUME NEW w \in Workers, Acquire(w) PROVE WakeInv'
    <2>1. /\ UNCHANGED <<journal, wake, checkpoint, wakeSeen>>
          /\ snapshot' = [snapshot EXCEPT ![w] = [from |-> checkpoint, upto |-> Len(journal)]]
          /\ pc' = [pc EXCEPT ![w] = IF checkpoint.cursor = Len(journal)
                                     THEN "abortEmpty" ELSE "transition"]
      BY <1>4 DEF Acquire, Goto
    <2>2. SeenIsPast' /\ NoWakeLost'
      BY <2>1 DEF WakeInv, SeenIsPast, NoWakeLost, WakePending
    <2>3. BatchCovers'
      BY <1>0, <2>1 DEF WakeInv, BatchCovers, NewerRequest
    <2>4. CheckpointCovers'
      BY <1>0, <2>1 DEF WakeInv, CheckpointCovers, NewerRequest
    <2> QED
      BY <2>2, <2>3, <2>4 DEF WakeInv
  <1>5. ASSUME NEW w \in Workers, Commit(w) PROVE WakeInv'
    <2>1. CASE CommitAccepted(w)
      <3>1. /\ UNCHANGED <<journal, wake, wakeSeen, snapshot>>
            /\ checkpoint'.cursor = snapshot[w].upto
            /\ pc[w] = "transition"
            /\ pc' = [pc EXCEPT ![w] = "mark"]
        BY <1>5, <2>1 DEF Commit, NextCheckpoint, Goto, localVars
      <3> QED
        BY <1>0, <3>1, WakeUndisturbed
    <2>2. CASE ~CommitAccepted(w)
      <3>1. /\ UNCHANGED <<journal, wake>>
            /\ wakeSeen' = [wakeSeen EXCEPT ![w] = 0]
            /\ snapshot' = [snapshot EXCEPT ![w] = NoSnapshot]
            /\ pc' = [pc EXCEPT ![w] = "idle"]
        BY <1>5, <2>2 DEF Commit, Return, Goto
      <3> QED
        BY <1>0, <3>1, WakeUndisturbed
    <2> QED
      BY <2>1, <2>2
  <1>6. ASSUME NEW w \in Workers, MarkProcessed(w) PROVE WakeInv'
    <2>1. /\ UNCHANGED <<journal, checkpoint>>
          /\ wake'.requestedAt = wake.requestedAt
          /\ wake'.processedAt \in {wake.processedAt, wakeSeen[w]}
          /\ pc[w] = "mark"
          /\ wakeSeen' = [wakeSeen EXCEPT ![w] = 0]
          /\ snapshot' = [snapshot EXCEPT ![w] = NoSnapshot]
          /\ pc' = [pc EXCEPT ![w] = "idle"]
      BY <1>0, <1>6 DEF MarkProcessed, Return, Goto, runtimeVars
    <2>2. SeenIsPast' /\ BatchCovers' /\ CheckpointCovers'
      BY <1>0, <2>1
      DEF WakeInv, SeenIsPast, BatchCovers, CheckpointCovers, NewerRequest
    <2>3. NoWakeLost'
      <3>1. NewerRequest(w) \/ checkpoint.cursor = Len(journal)
        BY <2>1 DEF WakeInv, CheckpointCovers
      <3>2. checkpoint.cursor \in Nat
        BY DEF TypeInv, TypeOK, Checkpoints
      <3> QED
        BY <1>0, <2>1, <3>1, <3>2 DEF WakeInv, NoWakeLost, WakePending, NewerRequest
    <2> QED
      BY <2>2, <2>3 DEF WakeInv
  <1>7. ASSUME NEW w \in Workers,
               AcquireBusy(w) \/ AbortAfterThrow(w) \/ Crash(w)
                 \/ Ack(w) \/ NackDead(w) \/ Nack(w)
        PROVE  WakeInv'
    <2>1. /\ UNCHANGED <<journal, wake>>
          /\ wakeSeen' = [wakeSeen EXCEPT ![w] = 0]
          /\ snapshot' = [snapshot EXCEPT ![w] = NoSnapshot]
          /\ pc' = [pc EXCEPT ![w] = "idle"]
      BY <1>7
      DEF AcquireBusy, AbortAfterThrow, Crash, Ack, NackDead, Nack, Settle, Return, Goto
    <2> QED
      BY <1>0, <2>1, WakeUndisturbed
  <1>8. ASSUME NEW w \in Workers,
               \/ AbortEmpty(w) \/ TransitionThrows(w) \/ LeaseItem(w)
               \/ ReadSnapshot(w) \/ ExecuteEffect(w) \/ EffectThrows(w)
               \/ EffectStopped(w) \/ AppendThrows(w) \/ ReportThrows(w)
        PROVE  WakeInv'
    <2>1. UNCHANGED <<journal, wake, checkpoint, wakeSeen, snapshot>>
      BY <1>8
      DEF AbortEmpty, TransitionThrows, LeaseItem, ReadSnapshot, ExecuteEffect,
          EffectThrows, EffectStopped, AppendThrows, ReportThrows, runtimeVars,
          localVars
    <2>2. \A v \in Workers :
            /\ pc'[v] = "transition" => pc[v] = "transition"
            /\ pc'[v] \in {"abortEmpty", "mark"} => pc[v] \in {"abortEmpty", "mark"}
      BY <1>0, <1>8
      DEF AbortEmpty, TransitionThrows, LeaseItem, ReadSnapshot, ExecuteEffect,
          EffectThrows, EffectStopped, AppendThrows, ReportThrows, Goto, AfterThrow
    <2> QED
      BY <2>1, <2>2, WakeUndisturbed
  <1>9. CASE Expiry \/ UNCHANGED vars
    <2>1. UNCHANGED <<journal, wake, checkpoint, wakeSeen, snapshot, pc>>
      BY <1>9
      DEF Expiry, AbandonedLeaseExpires, LeaseExpiresEarly, LeaseExpires,
          AbandonedItemExpires, ItemExpiresEarly, ItemExpires, runtimeVars,
          localVars, vars
    <2> QED
      BY <2>1, WakeUndisturbed
  <1> QED
    BY <1>1, <1>2, <1>3, <1>4, <1>5, <1>6, <1>7, <1>8, <1>9
    DEF Next, Engine, QueueLane, Failure

(***************************************************************************)
(* With the memory provider no wake is lost: as long as an entry is not    *)
(* committed the marker is pending.  With IndexedDB it can be, when two    *)
(* appends fall in one millisecond: a run shows how.                       *)
(***************************************************************************)
THEOREM NoWakeIsLost ==
    ASSUME Provider = "memory"
    PROVE  Spec => []NoWakeLost
<1>1. Init => WakeInv
  BY DEF Init, WakeInv, SeenIsPast, BatchCovers, CheckpointCovers, NoWakeLost,
         InitialCheckpoint
<1>2. TypeInv /\ ExactlyOnceInv /\ ExactlyOnceInv' /\ WakeInv /\ [Next]_vars => WakeInv'
  BY WakeStep
<1>3. WakeInv => NoWakeLost
  BY DEF WakeInv
<1> QED
  BY <1>1, <1>2, <1>3, TypeInvariance, ExactlyOnceInvariance, PTL DEF Spec

-------------------------------------------------------------------------------
(***************************************************************************)
(* The refinement.  A commit of the abstract inbox moves the cursor, so    *)
(* besides the invariants above every batch being committed has an entry.  *)
(***************************************************************************)
BatchesNonEmpty ==
    \A w \in Workers :
       pc[w] = "transition" => snapshot[w].from.cursor < snapshot[w].upto

\* No batch is empty.
LEMMA BatchesNonEmptyInvariance == Spec => []BatchesNonEmpty
<1>1. Init => BatchesNonEmpty
  BY DEF Init, BatchesNonEmpty
<1>2. TypeInv /\ ExactlyOnceInv /\ BatchesNonEmpty /\ [Next]_vars => BatchesNonEmpty'
  <2> SUFFICES ASSUME TypeInv, ExactlyOnceInv, BatchesNonEmpty, [Next]_vars,
                      NEW v \in Workers, pc'[v] = "transition"
               PROVE  snapshot'[v].from.cursor < snapshot'[v].upto
    BY DEF BatchesNonEmpty
  <2>0. /\ pc \in [Workers -> {"idle"} \cup EngineSteps \cup QueueSteps]
        /\ snapshot \in [Workers -> [from : Checkpoints, upto : Nat]]
    BY DEF TypeInv, TypeOK
  <2>1. CASE pc[v] = "transition" /\ snapshot'[v] = snapshot[v]
    BY <2>1 DEF BatchesNonEmpty
  <2>2. ASSUME NEW w \in Workers, Acquire(w)
        PROVE  \/ pc[v] = "transition" /\ snapshot'[v] = snapshot[v]
               \/ snapshot'[v].from.cursor < snapshot'[v].upto
    <3>1. CASE v # w
      BY <2>0, <2>2, <3>1 DEF Acquire, Goto
    <3>2. CASE v = w
      <4>1. snapshot'[v] = [from |-> checkpoint, upto |-> Len(journal)]
        BY <2>0, <2>2, <3>2 DEF Acquire
      <4>2. checkpoint.cursor # Len(journal)
        BY <2>0, <2>2, <3>2 DEF Acquire, Goto
      <4>3. /\ checkpoint.cursor <= Len(journal)
            /\ checkpoint.cursor \in Nat /\ Len(journal) \in Nat
        BY DEF TypeInv, TypeOK, Checkpoints, ExactlyOnceInv, AppliedMatchesPrefix
      <4> QED
        BY <4>1, <4>2, <4>3
    <3> QED
      BY <3>1, <3>2
  <2>3. ASSUME NEW w \in Workers,
               \/ ReadWake(w) \/ AcquireBusy(w) \/ AbortEmpty(w)
               \/ AbortAfterThrow(w) \/ Commit(w) \/ MarkProcessed(w)
               \/ QueueLane(w) \/ Failure(w)
        PROVE  pc[v] = "transition" /\ snapshot'[v] = snapshot[v]
    BY <2>0, <2>3
    DEF ReadWake, AcquireBusy, AbortEmpty, AbortAfterThrow, Commit, MarkProcessed,
        QueueLane, LeaseItem, ReadSnapshot, ExecuteEffect, EffectThrows,
        AppendSettlement, Ack, ReportFailure, NackDead, Nack, Settle, Failure,
        TransitionThrows, EffectStopped, AppendThrows, ReportThrows, Crash,
        AfterThrow, Goto, Return, localVars
  <2>4. CASE HostAppend \/ Expiry \/ UNCHANGED vars
    BY <2>1, <2>4
    DEF HostAppend, Expiry, AbandonedLeaseExpires, LeaseExpiresEarly,
        LeaseExpires, AbandonedItemExpires, ItemExpiresEarly, ItemExpires,
        localVars, vars
  <2> QED
    BY <2>1, <2>2, <2>3, <2>4 DEF Next, Engine
<1> QED
  BY <1>1, <1>2, TypeInvariance, ExactlyOnceInvariance, PTL DEF Spec

\* The inbox reads the journal with the same operators.
LEMMA InboxReadsAlike ==
    /\ \A event : Inbox!EventEntry(event) = EventEntry(event)
    /\ \A id : Inbox!SettledEntry(id) = SettledEntry(id)
    /\ \A j, from, to, settled :
         /\ Inbox!Folded(j, from, to, settled) = Folded(j, from, to, settled)
         /\ Inbox!Consumed(j, from, to) = Consumed(j, from, to)
         /\ Inbox!Emitting(j, from, to) = Emitting(j, from, to)
    /\ \A j, id : Inbox!Settling(j, id) = Settling(j, id)
    /\ \A id : Inbox!Reported(id) = Reported(id)
  BY DEF Inbox!EventEntry, EventEntry, Inbox!SettledEntry, SettledEntry,
         Inbox!Folded, Folded, Inbox!Accepted, Accepted, Inbox!Consumed, Consumed,
         Inbox!Emitting, Emitting, Inbox!Settling, Settling, Inbox!Reported,
         Reported, Inbox!IsEvent, IsEvent, Inbox!Settles, Settles

\* The outbox as the inbox sees it.
Outbox == [id \in DOMAIN queue |-> OutboxState(id)]

\* A message that changes hands but is not finished stays pending.
LEMMA OutboxKept ==
    ASSUME DOMAIN queue' = DOMAIN queue,
           \A id \in DOMAIN queue :
              \/ queue'[id].state = queue[id].state
              \/ /\ queue'[id].state \notin {"done", "dead"}
                 /\ queue[id].state \notin {"done", "dead"}
    PROVE  Outbox' = Outbox
  BY DEF Outbox, OutboxState

\* An accepted commit is one Process step of the inbox.
LEMMA CommitProcesses ==
    ASSUME TypeInv, ExactlyOnceInv, ExactlyOnceInv', BatchesNonEmpty,
           NEW w \in Workers, Commit(w), CommitAccepted(w)
    PROVE  Inbox!Process
  <1> DEFINE upto == snapshot[w].upto
             new == {<<checkpoint.revision + 1, p>> :
                       p \in Emitting(journal, checkpoint.cursor + 1, upto)}
  <1>1. /\ pc[w] = "transition"
        /\ checkpoint' = NextCheckpoint(w)
        /\ queue' = [id \in DOMAIN queue \cup NewMessages(w) |->
                       IF id \in DOMAIN queue THEN queue[id] ELSE ActiveMessage]
        /\ UNCHANGED journal
    BY DEF Commit
  <1>2. snapshot[w].from = checkpoint
    BY <1>1
    DEF CommitAccepted, LeaseHeld, ExactlyOnceInv, LeaseProtectsSnapshot, LeaseSteps
  <1>3. upto \in (checkpoint.cursor + 1)..Len(journal)
    <2>1. /\ checkpoint.cursor \in Nat /\ upto \in Nat /\ Len(journal) \in Nat
          /\ upto <= Len(journal)
      BY DEF TypeInv, TypeOK, Checkpoints, SnapshotsBounded
    <2>2. checkpoint.cursor < upto
      BY <1>1, <1>2 DEF BatchesNonEmpty
    <2> QED
      BY <2>1, <2>2
  <1>4. checkpoint' = [revision |-> checkpoint.revision + 1,
                       cursor |-> upto,
                       state |-> Folded(journal, 1, upto, {}),
                       settled |-> Consumed(journal, 1, upto)]
    <2>1. /\ checkpoint'.state = Folded(journal, 1, upto, {})
          /\ checkpoint'.settled = Consumed(journal, 1, upto)
      BY <1>1 DEF ExactlyOnceInv, AppliedMatchesPrefix, NextCheckpoint
    <2> QED
      BY <1>1, <2>1 DEF NextCheckpoint
  <1>5. NewMessages(w) = new
    BY <1>2 DEF NewMessages
  <1>6. Outbox' = [id \in DOMAIN Outbox \cup new |->
                     IF id \in DOMAIN Outbox THEN Outbox[id] ELSE "pending"]
    <2> HIDE DEF new
    <2>1. DOMAIN Outbox = DOMAIN queue /\ DOMAIN queue' = DOMAIN queue \cup new
      BY <1>1, <1>5 DEF Outbox
    <2>2. \A id \in DOMAIN queue : queue'[id] = queue[id]
      BY <1>1
    <2>3. \A id \in new : id \notin DOMAIN queue => queue'[id] = ActiveMessage
      BY <1>1, <1>5
    <2> QED
      BY <2>1, <2>2, <2>3 DEF Outbox, OutboxState, ActiveMessage
  <1> QED
    BY <1>1, <1>3, <1>4, <1>6, InboxReadsAlike DEF Inbox!Process, Outbox

\* A worker that finishes the message it holds is a Finish step; any other
\* settling leaves the outbox as it is.
LEMMA SettleFinishes ==
    ASSUME TypeInv, ExactlyOnceInv, LaneInv, NEW w \in Workers,
           NEW state \in {"active", "done", "dead"}, Settle(w, state),
           state \in {"done", "dead"} => pc[w] = Finisher(state)
    PROVE  Inbox!Finish \/ UNCHANGED Inbox!inboxVars
  <1>0. UNCHANGED <<journal, checkpoint>> /\ queue \in [DOMAIN queue -> Messages]
    BY DEF Settle, runtimeVars, TypeInv, TypeOK
  <1>1. CASE queue' = queue
    BY <1>0, <1>1 DEF Inbox!inboxVars, OutboxState
  <1>2. CASE ItemHeld(w) /\ work[w].id \in DOMAIN queue
    <2>1. PICK id \in DOMAIN queue : id = work[w].id /\ queue[id].state = "leased"
      BY <1>2 DEF ItemHeld
    <2>2. queue' = [queue EXCEPT ![id] =
                      [@ EXCEPT !.state = state, !.holder = NoWorker, !.expired = FALSE]]
      BY <1>2, <2>1 DEF Settle
    <2>3. /\ DOMAIN queue' = DOMAIN queue
          /\ queue'[id].state = state
          /\ \A other \in DOMAIN queue : other # id => queue'[other] = queue[other]
      BY <1>0, <2>1, <2>2 DEF Messages
    <2>4. CASE state = "active"
      BY <1>0, <2>1, <2>3, <2>4, OutboxKept DEF Outbox, Inbox!inboxVars
    <2>5. CASE state \in {"done", "dead"}
      <3>1. Settling(journal, id) => Reported(id)
        BY <2>1, <2>5 DEF LaneInv, OutcomeJournalled, Finisher
      <3>2. Outbox[id] = "pending" /\ DOMAIN Outbox = DOMAIN queue
        BY <2>1 DEF Outbox, OutboxState
      <3>3. Outbox' = [Outbox EXCEPT ![id] = state]
        BY <2>1, <2>3, <2>5 DEF Outbox, OutboxState
      <3> QED
        BY <1>0, <2>1, <2>5, <3>1, <3>2, <3>3, InboxReadsAlike DEF Inbox!Finish, Outbox
    <2> QED
      BY <2>4, <2>5
  <1> QED
    BY <1>1, <1>2 DEF Settle, TypeInv, TypeOK

\* Journalling the outcome of a message of the lane is a Report step.
LEMMA SettlementReports ==
    ASSUME NEW id \in DOMAIN queue, journal' = Append(journal, SettledEntry(id)),
           UNCHANGED <<checkpoint, queue>>
    PROVE  Inbox!Report
  <1>1. Outbox' = Outbox /\ DOMAIN Outbox = DOMAIN queue
    BY DEF Outbox, OutboxState
  <1> QED
    BY <1>1, InboxReadsAlike DEF Inbox!Report, Outbox

\* Every step is a step of the inbox or leaves it alone.
LEMMA InboxStep ==
    ASSUME TypeInv, ExactlyOnceInv, ExactlyOnceInv', LaneInv, BatchesNonEmpty,
           [Next]_vars
    PROVE  [Inbox!Next]_(Inbox!inboxVars)
  <1>0. queue \in [DOMAIN queue -> Messages]
    BY DEF TypeInv, TypeOK
  <1>1. CASE HostAppend
    <2>1. PICK event \in Events : journal' = Append(journal, EventEntry(event))
      BY <1>1 DEF HostAppend, AppendAndWake
    <2>2. UNCHANGED checkpoint /\ Outbox' = Outbox
      BY <1>1 DEF HostAppend, runtimeVars, Outbox, OutboxState
    <2> QED
      BY <2>1, <2>2, InboxReadsAlike DEF Inbox!Next, Inbox!Deliver, Outbox
  <1>2. ASSUME NEW w \in Workers, AppendSettlement(w) \/ ReportFailure(w)
        PROVE  Inbox!Report \/ UNCHANGED Inbox!inboxVars
    <2>1. UNCHANGED <<checkpoint, queue>> /\ work[w].id \in DOMAIN queue
      BY <1>2
      DEF AppendSettlement, ReportFailure, runtimeVars, LaneInv, WorkTracked, QueueSteps
    <2>2. CASE UNCHANGED journal
      BY <2>1, <2>2 DEF Inbox!inboxVars, OutboxState
    <2>3. CASE journal' = Append(journal, SettledEntry(work[w].id))
      <3>1. PICK id \in DOMAIN queue : id = work[w].id
        BY <2>1
      <3> QED
        BY <2>1, <2>3, <3>1, SettlementReports
    <2> QED
      BY <1>2, <2>2, <2>3 DEF AppendSettlement, ReportFailure, AppendAndWake
  <1>3. ASSUME NEW w \in Workers, Commit(w)
        PROVE  Inbox!Process \/ UNCHANGED Inbox!inboxVars
    <2>1. CASE CommitAccepted(w)
      BY <1>3, <2>1, CommitProcesses
    <2>2. CASE ~CommitAccepted(w)
      BY <1>3, <2>2 DEF Commit, Inbox!inboxVars, OutboxState
    <2> QED
      BY <2>1, <2>2
  <1>4. ASSUME NEW w \in Workers, Ack(w) \/ NackDead(w) \/ Nack(w)
        PROVE  Inbox!Finish \/ UNCHANGED Inbox!inboxVars
    BY <1>4, SettleFinishes DEF Ack, NackDead, Nack, Finisher
  <1>5. ASSUME NEW w \in Workers, LeaseItem(w) PROVE UNCHANGED Inbox!inboxVars
    <2>1. PICK it \in DOMAIN queue :
            /\ Leasable(it)
            /\ queue' = [queue EXCEPT ![it] =
                          [state |-> "leased", attempt |-> queue[it].attempt + 1,
                           holder |-> w, expired |-> FALSE]]
      BY <1>5 DEF LeaseItem
    <2>2. Outbox' = Outbox
      BY <1>0, <2>1, OutboxKept DEF Leasable
    <2> QED
      BY <1>5, <2>2 DEF LeaseItem, runtimeVars, Inbox!inboxVars, Outbox
  <1>6. CASE Expiry
    <2>1. UNCHANGED <<journal, checkpoint>>
      BY <1>6
      DEF Expiry, AbandonedLeaseExpires, LeaseExpiresEarly, LeaseExpires,
          AbandonedItemExpires, ItemExpiresEarly, ItemExpires, runtimeVars
    <2>2. CASE queue' = queue
      BY <2>1, <2>2 DEF Inbox!inboxVars, OutboxState
    <2>3. CASE \E id \in DOMAIN queue : ItemExpires(id)
      <3>1. /\ DOMAIN queue' = DOMAIN queue
            /\ \A id \in DOMAIN queue : queue'[id].state = queue[id].state
        BY <1>0, <2>3 DEF ItemExpires, Messages
      <3> QED
        BY <2>1, <3>1, OutboxKept DEF Outbox, Inbox!inboxVars
    <2> QED
      BY <1>6, <2>2, <2>3
      DEF Expiry, AbandonedLeaseExpires, LeaseExpiresEarly, LeaseExpires,
          AbandonedItemExpires, ItemExpiresEarly
  <1>7. ASSUME NEW w \in Workers,
               \/ ReadWake(w) \/ AcquireBusy(w) \/ Acquire(w) \/ AbortEmpty(w)
               \/ AbortAfterThrow(w) \/ MarkProcessed(w) \/ ReadSnapshot(w)
               \/ ExecuteEffect(w) \/ EffectThrows(w) \/ Failure(w)
        PROVE  UNCHANGED Inbox!inboxVars
    <2>1. UNCHANGED <<journal, checkpoint, queue>>
      BY <1>7
      DEF ReadWake, AcquireBusy, Acquire, AbortEmpty, AbortAfterThrow,
          MarkProcessed, ReadSnapshot, ExecuteEffect, EffectThrows, Failure,
          TransitionThrows, EffectStopped, AppendThrows, ReportThrows, Crash,
          runtimeVars
    <2> QED
      BY <2>1 DEF Inbox!inboxVars, OutboxState
  <1>8. CASE UNCHANGED vars
    BY <1>8 DEF vars, Inbox!inboxVars, OutboxState
  <1> QED
    BY <1>1, <1>2, <1>3, <1>4, <1>5, <1>6, <1>7, <1>8
    DEF Next, Engine, QueueLane, Inbox!Next

(***************************************************************************)
(* The runtime, with its workers, leases, wakes, retries and crashes,      *)
(* implements the inbox that has none of them.                             *)
(***************************************************************************)
THEOREM InboxImplemented == Spec => ImplementsInbox
<1>1. Init => Inbox!Init
  <2> SUFFICES ASSUME Init PROVE Inbox!Init
    OBVIOUS
  <2>1. [id \in DOMAIN queue |-> OutboxState(id)] = << >>
    BY DEF Init
  <2> QED
    BY <2>1 DEF Init, Inbox!Init, InitialCheckpoint
<1>2. TypeInv /\ ExactlyOnceInv /\ ExactlyOnceInv' /\ LaneInv /\ BatchesNonEmpty
        /\ [Next]_vars
      => [Inbox!Next]_(Inbox!inboxVars)
  BY InboxStep
<1> QED
  BY <1>1, <1>2, TypeInvariance, ExactlyOnceInvariance, LaneInvariance,
     BatchesNonEmptyInvariance, PTL
  DEF Spec, ImplementsInbox, Inbox!Spec
===============================================================================
