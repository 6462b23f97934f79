---------------------------- MODULE FilesystemProofs ----------------------------
(***************************************************************************)
(* Proofs that the shared directory keeps its promises, for any number of  *)
(* processes, messages, entries, crashes and lost leases.                  *)
(*                                                                         *)
(* The invariant says for every operation under way which copies of its    *)
(* message exist; for every commit under way which messages it has staged  *)
(* and for which entries; and that a commit which has not outlived its     *)
(* lease is the only one.                                                  *)
(***************************************************************************)
EXTENDS FilesystemRuntime, FiniteSetTheorems, SequenceTheorems, TLAPS

Kinds == {"none", "lease", "stage", "revive for lease", "revive for stage", "claim",
          "settle", "promote", "discard"}
FsLabels == {"idle", "acquire", "read", "run", "stage", "promote", "discard", "mark"}
Operations == [kind : Kinds, message : 0..MaxFsMessages]
Snaps == [cursor : Nat, revision : Nat, end : Nat, wake : Nat]

FsTypes ==
    /\ FsTypeOK
    /\ operation \in [FsHosts -> Operations]
    /\ fsPc \in [FsHosts -> FsLabels]
    /\ fsSnap \in [FsHosts -> Snaps]
    /\ stagedNow \in [FsHosts -> Seq(FsMessages)]
    /\ origin \in Seq(Nat)
    /\ appending \in Nat /\ fsCrashes \in Nat
    /\ overrun \in BOOLEAN

(***************************************************************************)
(* Lock files: an operation under way holds the queue's, a token the       *)
(* transition's.                                                           *)
(***************************************************************************)
OperationLocked(h) ==
    /\ operation[h].kind # "none" => queueLock = h
    /\ operation[h].kind = "none" => operation[h] = Idle

TokenLocked(h) == h \in held => relayLock = h

LocksHold == \A h \in FsHosts : OperationLocked(h) /\ TokenLocked(h)

(***************************************************************************)
(* The copies an operation under way has found and made.                   *)
(***************************************************************************)
Reviving(h) == operation[h].kind \in {"revive for lease", "revive for stage"}
Staging(h) == operation[h].kind \in {"stage", "revive for stage"}

OperationShape(h) ==
    LET m == operation[h].message IN
    /\ operation[h].kind \in {"none", "lease", "stage"} => m = 0
    /\ operation[h].kind \notin {"none", "lease", "stage"} => m \in FsMessages
    /\ Reviving(h) => "leased" \in files[m] /\ "active" \in files[m]
    /\ operation[h].kind = "claim" => "leased" \in files[m]
    /\ operation[h].kind = "settle" =>
           "leased" \in files[m] /\ files[m] \cap {"done", "active", "dead"} # {}
    /\ operation[h].kind \in {"promote", "discard"} =>
           /\ fsPc[h] = operation[h].kind
           /\ stagedNow[h] # <<>> /\ m = Head(stagedNow[h])
    /\ operation[h].kind = "promote" => files[m] = {"staged", "active"} /\ m \notin discarded
    /\ operation[h].kind = "discard" => files[m] = {"staged", "dead"} /\ m \in discarded
    /\ Staging(h) => fsPc[h] = "stage" /\ ~AllStaged(h)

OperationsHold == \A h \in FsHosts : OperationShape(h)

(***************************************************************************)
(* Without a crash, an operation's message has the copies the operation    *)
(* needs and no other; every other message has one at most.                *)
(***************************************************************************)
Single(m) == \E d \in Directories : files[m] \subseteq {d}

CopiesExact ==
    /\ \A m \in FsMessages : (\A h \in FsHosts : operation[h].message # m) => Single(m)
    /\ \A h \in FsHosts :
        LET m == operation[h].message IN
        /\ Reviving(h) => files[m] = {"leased", "active"}
        /\ operation[h].kind = "claim" => files[m] = {"leased"}
        /\ operation[h].kind = "settle" =>
               \E d \in {"done", "active", "dead"} : files[m] = {"leased", d}

CopiesHold == fsCrashes = 0 => CopiesExact

(***************************************************************************)
(* A message that a commit has staged and not yet promoted or discarded is *)
(* only staged, and no other commit has it.                                *)
(***************************************************************************)

UntouchedStaged(h) ==
    /\ \A i \in 1..Len(stagedNow[h]) :
        /\ stagedNow[h][i] \in 1..created
        /\ \/ i = 1 /\ operation[h].kind \in {"promote", "discard"}
           \/ files[stagedNow[h][i]] = {"staged"} /\ stagedNow[h][i] \notin discarded
    /\ ~Committing(h) => stagedNow[h] = <<>>

StagedApart ==
    \A g, h \in FsHosts : \A i \in 1..Len(stagedNow[g]), j \in 1..Len(stagedNow[h]) :
        stagedNow[g][i] = stagedNow[h][j] => g = h /\ i = j

NotCreated == \A m \in FsMessages : m > created => files[m] = {} /\ m \notin discarded

StagedHold == (\A h \in FsHosts : UntouchedStaged(h)) /\ StagedApart /\ NotCreated

(***************************************************************************)
(* Where a commit is: what it read is in the journal, and the messages it  *)
(* staged are for the entries it read, in order.                           *)
(***************************************************************************)
CommitShape(h) ==
    /\ fsSnap[h].cursor <= fsSnap[h].end /\ fsSnap[h].end <= fsEntries
    /\ fsPc[h] = "stage" =>
           /\ fsSnap[h].cursor + Len(stagedNow[h]) <= fsSnap[h].end
           /\ \A i \in 1..Len(stagedNow[h]) : origin[stagedNow[h][i]] = fsSnap[h].cursor + i
    /\ fsPc[h] = "promote" =>
           /\ fsSnap[h].cursor + Len(stagedNow[h]) <= fsSnap[h].end
           /\ \A i \in 1..Len(stagedNow[h]) :
                  origin[stagedNow[h][i]] = fsSnap[h].end - Len(stagedNow[h]) + i

CommitsHold == (\A h \in FsHosts : CommitShape(h)) /\ fsState.cursor <= fsEntries

(***************************************************************************)
(* While no commit has outlived its lease, the one that writes holds the   *)
(* lease and no one writes the state file behind its back; so an entry has *)
(* one message out of the staged directory at most, and none before the    *)
(* cursor has passed it.                                                   *)
(***************************************************************************)
Out(m) == m \in 1..created /\ m \notin discarded /\ files[m] \ {"staged"} # {}

WriterAlone(h) ==
    /\ fsPc[h] \in {"stage", "promote"} => h \in held
    /\ fsPc[h] = "run" => fsSnap[h].cursor <= fsState.cursor
    /\ fsPc[h] = "stage" => fsSnap[h].cursor = fsState.cursor
    /\ fsPc[h] = "promote" => fsSnap[h].end = fsState.cursor
    /\ fsPc[h] = "promote" =>
           \A i \in 1..Len(stagedNow[h]), m \in FsMessages :
               Out(m) /\ origin[m] = origin[stagedNow[h][i]] => m = stagedNow[h][i]

OutOnce ==
    /\ \A m \in FsMessages : Out(m) => origin[m] <= fsState.cursor
    /\ \A m, n \in FsMessages : Out(m) /\ Out(n) /\ origin[m] = origin[n] => m = n

FoldsOnce == ~overrun => (\A h \in FsHosts : WriterAlone(h)) /\ OutOnce

(***************************************************************************)
(* What was folded is out, or on its way, or its commit broke off; and a   *)
(* commit starts from a cursor of which that is true.                      *)
(***************************************************************************)
OnItsWay(e) ==
    \E h \in FsHosts : /\ fsPc[h] = "promote"
                       /\ \E i \in 1..Len(stagedNow[h]) : origin[stagedNow[h][i]] = e

Covered(e) ==
    e \in unpromoted \/ OnItsWay(e) \/ (\E m \in FsMessages : Out(m) /\ origin[m] = e)

FoldedCovered ==
    /\ \A e \in 1..fsState.cursor : Covered(e)
    /\ \A h \in FsHosts : fsPc[h] \in {"run", "stage"} =>
           \A e \in 1..fsSnap[h].cursor : Covered(e)

(***************************************************************************)
(* A run whose wake covers the last request has read all of the journal,   *)
(* if that request was news.                                               *)
(***************************************************************************)
FsLastWakeRead(h) == fsSnap[h].wake >= fsRequested /\ appending = 0

WakeRead(h) ==
    /\ fsPc[h] \in {"run", "stage", "promote"} /\ FsLastWakeRead(h) =>
           fsSnap[h].end = fsEntries
    /\ fsPc[h] = "mark" /\ FsLastWakeRead(h) => fsState.cursor = fsEntries

WakesHold ==
    /\ fsCrashes = 0 /\ ~overrun /\ fsNews => \A h \in FsHosts : WakeRead(h)

FsInvariant ==
    /\ FsTypes /\ LocksHold /\ OperationsHold /\ CopiesHold /\ StagedHold
    /\ CommitsHold /\ FoldsOnce /\ FoldedCovered /\ WakesHold
    /\ FsWakeKept

-------------------------------------------------------------------------------
(***************************************************************************)
(* The initial state.                                                      *)
(***************************************************************************)
LEMMA FsInitial == FsInit => FsInvariant
<1> SUFFICES ASSUME FsInit PROVE FsInvariant
  OBVIOUS
<1> USE DEF FsInit, FsQueueInit
<1>1. FsTypeOK
  <2>1. /\ created \in 0..MaxFsMessages /\ fsEntries \in 0..MaxFsEntries
        /\ fsRequested \in Nat /\ fsProcessed \in Nat
        /\ 0 \in 0..MaxFsEntries /\ 0 \in 0..MaxFsWrites
    BY FsQueueBounds, FsRuntimeBounds
  <2>2. Len(origin) = created
    BY EmptySeq
  <2>3. /\ item \in [FsHosts -> 0..MaxFsMessages]
        /\ files \in [FsMessages -> SUBSET Directories]
        /\ leaseToken \in [FsMessages -> FsHosts \cup {NoHost}]
    BY <2>1
  <2>4. fsState \in [cursor : 0..MaxFsEntries, revision : 0..MaxFsWrites]
    BY <2>1
  <2> QED
    BY <2>1, <2>2, <2>3, <2>4 DEF FsTypeOK
<1>2. FsTypes
  <2>1. operation \in [FsHosts -> Operations]
    BY FsQueueBounds DEF Operations, Kinds, Idle
  <2>2. fsPc \in [FsHosts -> FsLabels] /\ fsSnap \in [FsHosts -> Snaps]
    BY DEF FsLabels, Snaps, NoSnap
  <2>3. stagedNow \in [FsHosts -> Seq(FsMessages)] /\ origin \in Seq(Nat)
    BY EmptySeq
  <2> QED
    BY <1>1, <2>1, <2>2, <2>3 DEF FsTypes
<1>3. \A h \in FsHosts : /\ operation[h].kind = "none" /\ operation[h].message = 0
                         /\ stagedNow[h] = <<>> /\ Len(stagedNow[h]) = 0
                         /\ fsPc[h] = "idle"
  BY EmptySeq DEF Idle
<1>4. LocksHold
  BY <1>3 DEF LocksHold, OperationLocked, TokenLocked
<1>5. OperationsHold
  BY <1>3 DEF OperationsHold, OperationShape, Reviving, Staging
<1>6. CopiesHold
  BY <1>3 DEF CopiesHold, CopiesExact, Reviving, Single, Directories
<1>7. StagedHold
  BY <1>3 DEF StagedHold, UntouchedStaged, StagedApart, NotCreated, Committing
<1>8. \A m : ~Out(m)
  BY DEF Out
<1>9. CommitsHold
  BY <1>3 DEF CommitsHold, CommitShape, NoSnap
<1>10. FoldsOnce
  BY <1>3, <1>8 DEF FoldsOnce, WriterAlone, OutOnce
<1>11. FoldedCovered
  BY <1>3 DEF FoldedCovered
<1>12. WakesHold /\ FsWakeKept
  BY <1>3 DEF WakesHold, WakeRead, FsWakeKept, NoSnap
<1> QED
  BY <1>2, <1>4, <1>5, <1>6, <1>7, <1>9, <1>10, <1>11, <1>12 DEF FsInvariant

-------------------------------------------------------------------------------
(***************************************************************************)
(* What a step that leaves them alone keeps of a host's run.               *)
(***************************************************************************)
LEMMA HostTypes ==
    ASSUME FsInvariant, NEW h \in FsHosts
    PROVE  /\ operation[h] \in Operations /\ operation[h].message \in 0..MaxFsMessages
           /\ stagedNow[h] \in Seq(FsMessages) /\ Len(stagedNow[h]) \in Nat
           /\ fsSnap[h] \in Snaps /\ fsSnap[h].cursor \in Nat /\ fsSnap[h].end \in Nat
           /\ fsSnap[h].wake \in Nat
           /\ fsEntries \in Nat /\ fsState.cursor \in Nat /\ created \in Nat
           /\ fsRequested \in Nat /\ fsProcessed \in Nat
<1>1. /\ operation[h] \in Operations /\ stagedNow[h] \in Seq(FsMessages)
      /\ fsSnap[h] \in Snaps
  BY DEF FsInvariant, FsTypes
<1>2. Len(stagedNow[h]) \in Nat
  BY <1>1, LenProperties
<1>3. /\ fsEntries \in 0..MaxFsEntries /\ fsState \in [cursor : 0..MaxFsEntries, revision : 0..MaxFsWrites]
      /\ created \in 0..MaxFsMessages /\ fsRequested \in Nat /\ fsProcessed \in Nat
  BY DEF FsInvariant, FsTypes, FsTypeOK
<1>4. fsState.cursor \in 0..MaxFsEntries
  BY <1>3
<1> QED
  BY <1>1, <1>2, <1>3, <1>4, FsQueueBounds, FsRuntimeBounds DEF Operations, Snaps

\* An operation keeps its shape while its host and the files rest.
LEMMA OperationKept ==
    ASSUME NEW h \in FsHosts, OperationShape(h), operation'[h] = operation[h],
           fsPc'[h] = fsPc[h], stagedNow'[h] = stagedNow[h], fsSnap'[h] = fsSnap[h],
           files' = files, discarded' = discarded
    PROVE  OperationShape(h)'
BY DEF OperationShape, Reviving, Staging, AllStaged, NextEffect

\* No operation has the shape of one.
LEMMA IdleShape ==
    ASSUME NEW h \in FsHosts, operation'[h] = Idle PROVE OperationShape(h)'
BY DEF OperationShape, Reviving, Staging, Idle

\* What a host has staged stays only staged while its host and the files rest.
LEMMA UntouchedKept ==
    ASSUME NEW h \in FsHosts, UntouchedStaged(h), operation'[h] = operation[h],
           fsPc'[h] = fsPc[h], stagedNow'[h] = stagedNow[h],
           UNCHANGED <<files, discarded, created>>
    PROVE  UntouchedStaged(h)'
BY DEF UntouchedStaged, Committing

\* A commit keeps its place while its host, the messages and the journal rest.
LEMMA CommitKept ==
    ASSUME NEW h \in FsHosts, CommitShape(h), fsPc'[h] = fsPc[h],
           stagedNow'[h] = stagedNow[h], fsSnap'[h] = fsSnap[h],
           UNCHANGED <<origin, fsEntries>>
    PROVE  CommitShape(h)'
BY DEF CommitShape

\* A writer stays alone while no further message comes out.
LEMMA WriterKept ==
    ASSUME NEW h \in FsHosts, WriterAlone(h), fsPc'[h] = fsPc[h],
           stagedNow'[h] = stagedNow[h], fsSnap'[h] = fsSnap[h],
           h \in held => h \in held',
           UNCHANGED <<origin, fsState>>,
           \A m \in FsMessages : Out(m)' => Out(m)
    PROVE  WriterAlone(h)'
BY DEF WriterAlone

\* A run has read the last wake while journal, marker and cursor rest.
LEMMA WakeReadKept ==
    ASSUME NEW h \in FsHosts, WakeRead(h), fsPc'[h] = fsPc[h], fsSnap'[h] = fsSnap[h],
           UNCHANGED <<fsRequested, fsNews, appending, fsEntries>>, fsState'.cursor = fsState.cursor
    PROVE  WakeRead(h)'
BY DEF WakeRead, FsLastWakeRead

\* What is covered stays so while commits and messages stay.
LEMMA CoveredKept ==
    ASSUME NEW e, Covered(e), unpromoted \subseteq unpromoted',
           \A h \in FsHosts : fsPc[h] = "promote" =>
               fsPc'[h] = "promote" /\ stagedNow'[h] = stagedNow[h],
           UNCHANGED origin,
           \A m \in FsMessages : Out(m) => Out(m)'
    PROVE  Covered(e)'
<1>1. CASE e \in unpromoted
  BY <1>1 DEF Covered
<1>2. CASE OnItsWay(e)
  <2>1. PICK h \in FsHosts : /\ fsPc[h] = "promote"
                             /\ \E i \in 1..Len(stagedNow[h]) : origin[stagedNow[h][i]] = e
    BY <1>2 DEF OnItsWay
  <2>2. OnItsWay(e)'
    BY <2>1 DEF OnItsWay
  <2> QED
    BY <2>2 DEF Covered
<1>3. CASE \E m \in FsMessages : Out(m) /\ origin[m] = e
  BY <1>3 DEF Covered
<1> QED
  BY <1>1, <1>2, <1>3 DEF Covered

-------------------------------------------------------------------------------
(***************************************************************************)
(* Steps of one host's run that touch neither the queue nor the journal    *)
(* nor the state file.                                                     *)
(***************************************************************************)
LEMMA RunTypes ==
    ASSUME FsInvariant,
           UNCHANGED <<fsQueueVars, fsEntries, fsState, fsRequested, fsNews, appending, origin,
                       fsCrashes>>,
           fsPc' \in [FsHosts -> FsLabels], fsSnap' \in [FsHosts -> Snaps],
           stagedNow' \in [FsHosts -> Seq(FsMessages)],
           held' \subseteq FsHosts, relayLock' \in FsHosts \cup {NoHost},
           fsProcessed' \in Nat, overrun' \in BOOLEAN
    PROVE  FsTypes'
<1>1. FsTypeOK'
  BY DEF FsInvariant, FsTypes, FsTypeOK, fsQueueVars
<1> QED
  BY <1>1 DEF FsInvariant, FsTypes, fsQueueVars

\* A step of one run, given what it does to the run itself.
LEMMA RunStepKeeps ==
    ASSUME FsInvariant, NEW h \in FsHosts,
           UNCHANGED <<fsQueueVars, fsEntries, fsState, fsRequested, fsNews, appending, origin,
                       fsCrashes>>,
           FsTypes', \A g \in FsHosts : TokenLocked(g)',
           \A g \in FsHosts \ {h} :
               /\ fsPc'[g] = fsPc[g] /\ fsSnap'[g] = fsSnap[g]
               /\ stagedNow'[g] = stagedNow[g]
               /\ g \in held => g \in held',
           OperationShape(h)', UntouchedStaged(h)', StagedApart', CommitShape(h)',
           ~overrun' => ~overrun /\ WriterAlone(h)',
           unpromoted \subseteq unpromoted',
           \A e \in Nat : OnItsWay(e) => Covered(e)',
           fsPc'[h] \in {"run", "stage"} => \A e \in 1..fsSnap'[h].cursor : Covered(e),
           fsCrashes = 0 /\ ~overrun' /\ fsNews => WakeRead(h)',
           FsWakeKept'
    PROVE  FsInvariant'
<1> USE DEF FsInvariant
<1>1. UNCHANGED <<files, discarded, created, operation, queueLock>>
  BY DEF fsQueueVars
<1>2. LocksHold'
  BY <1>1 DEF LocksHold, OperationLocked
<1>3. OperationsHold'
  <2>1. \A g \in FsHosts \ {h} : OperationShape(g)'
    BY <1>1, OperationKept DEF OperationsHold
  <2> QED
    BY <2>1 DEF OperationsHold
<1>4. CopiesHold'
  BY <1>1 DEF CopiesHold, CopiesExact, Reviving, Single
<1>5. StagedHold'
  <2>1. \A g \in FsHosts \ {h} : UntouchedStaged(g)'
    BY <1>1, UntouchedKept DEF StagedHold
  <2>2. NotCreated'
    BY <1>1 DEF StagedHold, NotCreated
  <2> QED
    BY <2>1, <2>2 DEF StagedHold
<1>6. CommitsHold'
  <2>1. \A g \in FsHosts \ {h} : CommitShape(g)'
    BY CommitKept DEF CommitsHold
  <2> QED
    BY <2>1 DEF CommitsHold
<1>7. \A m \in FsMessages : Out(m)' <=> Out(m)
  BY <1>1 DEF Out
<1>8. FoldsOnce'
  <2> SUFFICES ASSUME ~overrun' PROVE (\A g \in FsHosts : WriterAlone(g)') /\ OutOnce'
    BY DEF FoldsOnce
  <2>1. \A g \in FsHosts \ {h} : WriterAlone(g)'
    BY <1>7, WriterKept DEF FoldsOnce
  <2>2. OutOnce'
    BY <1>7 DEF FoldsOnce, OutOnce
  <2> QED
    BY <2>1, <2>2
<1>9. \A e \in Nat : Covered(e) => Covered(e)'
  BY <1>7 DEF Covered
<1>10. fsState.cursor \in Nat /\ \A g \in FsHosts : fsSnap[g].cursor \in Nat
  BY HostTypes
<1>11. fsSnap'[h].cursor \in Nat
  BY DEF FsTypes, Snaps
<1>12. FoldedCovered'
  <2>1. \A e \in 1..fsState.cursor : Covered(e)'
    BY <1>9, <1>10 DEF FoldedCovered
  <2>2. \A g \in FsHosts \ {h} : fsPc[g] \in {"run", "stage"} =>
            \A e \in 1..fsSnap[g].cursor : Covered(e)'
    BY <1>9, <1>10 DEF FoldedCovered
  <2>3. fsPc'[h] \in {"run", "stage"} => \A e \in 1..fsSnap'[h].cursor : Covered(e)'
    BY <1>9, <1>11
  <2> QED
    BY <2>1, <2>2, <2>3 DEF FoldedCovered
<1>13. WakesHold'
  <2>2. ASSUME fsCrashes' = 0, ~overrun', fsNews PROVE \A g \in FsHosts : WakeRead(g)'
    BY <2>2, WakeReadKept DEF WakesHold
  <2> QED
    BY <2>2 DEF WakesHold
<1> QED
  BY <1>2, <1>3, <1>4, <1>5, <1>6, <1>8, <1>12, <1>13

-------------------------------------------------------------------------------
(***************************************************************************)
(* Steps of a run that is not inside a commit.                             *)
(***************************************************************************)
LEMMA EarlyStepKeeps ==
    ASSUME FsInvariant, NEW h \in FsHosts, ~Committing(h),
           NEW l \in FsLabels \ {"promote", "discard"}, NEW s \in Snaps,
           UNCHANGED <<fsQueueVars, fsEntries, fsState, fsRequested, fsNews, appending, origin,
                       stagedNow, fsFaultVars>>,
           fsPc' = [fsPc EXCEPT ![h] = l], fsSnap' = [fsSnap EXCEPT ![h] = s],
           held' \subseteq FsHosts, relayLock' \in FsHosts \cup {NoHost},
           fsProcessed' \in Nat,
           \A g \in FsHosts : TokenLocked(g)',
           \A g \in FsHosts \ {h} : g \in held => g \in held',
           s.cursor <= s.end, s.end <= fsEntries,
           l \in {"run", "stage"} => \A e \in 1..s.cursor : Covered(e),
           l = "run" /\ ~overrun => s.cursor <= fsState.cursor,
           l = "stage" /\ ~overrun => h \in held' /\ s.cursor = fsState.cursor,
           fsCrashes = 0 /\ ~overrun /\ fsNews /\ s.wake >= fsRequested /\ appending = 0 =>
               /\ l \in {"run", "stage"} => s.end = fsEntries
               /\ l = "mark" => fsState.cursor = fsEntries,
           FsWakeKept'
    PROVE  FsInvariant'
<1> USE DEF FsInvariant
<1>1. /\ fsPc'[h] = l /\ fsSnap'[h] = s /\ stagedNow'[h] = stagedNow[h]
      /\ \A g \in FsHosts \ {h} : fsPc'[g] = fsPc[g] /\ fsSnap'[g] = fsSnap[g]
  BY DEF FsTypes
<1>2. FsTypes'
  <2>1. fsPc' \in [FsHosts -> FsLabels] /\ fsSnap' \in [FsHosts -> Snaps]
    BY DEF FsTypes
  <2>2. stagedNow' \in [FsHosts -> Seq(FsMessages)] /\ overrun' \in BOOLEAN /\ fsCrashes' = fsCrashes
    BY DEF FsTypes, fsFaultVars
  <2> QED
    BY <2>1, <2>2, RunTypes
<1>3. stagedNow[h] = <<>> /\ Len(stagedNow[h]) = 0
  BY EmptySeq DEF StagedHold, UntouchedStaged
<1>4. OperationShape(h)'
  <2>1. UNCHANGED <<operation, files, discarded>>
    BY DEF fsQueueVars
  <2>2. operation[h].kind \notin {"stage", "revive for stage", "promote", "discard"}
    BY DEF OperationsHold, OperationShape, Committing, Staging
  <2> QED
    BY <2>1, <2>2 DEF OperationsHold, OperationShape, Reviving, Staging
<1>5. UntouchedStaged(h)'
  BY <1>3, <1>1 DEF UntouchedStaged
<1>6. StagedApart'
  BY DEF StagedHold, StagedApart
<1>7. CommitShape(h)'
  <2>1. s.cursor + 0 <= s.end
    BY DEF Snaps
  <2> QED
    BY <1>1, <1>3, <2>1 DEF CommitShape
<1>8. ~overrun' => ~overrun /\ WriterAlone(h)'
  BY <1>1, <1>3 DEF WriterAlone, fsFaultVars
<1>9. \A e \in Nat : OnItsWay(e) => Covered(e)'
  <2>1. fsPc[h] # "promote"
    BY DEF Committing
  <2>2. ASSUME NEW e \in Nat, OnItsWay(e) PROVE OnItsWay(e)'
    <3>1. PICK g \in FsHosts : /\ fsPc[g] = "promote"
                               /\ \E i \in 1..Len(stagedNow[g]) : origin[stagedNow[g][i]] = e
      BY <2>2 DEF OnItsWay
    <3>2. fsPc'[g] = "promote"
      BY <2>1, <3>1, <1>1
    <3> QED
      BY <3>1, <3>2 DEF OnItsWay
  <2> QED
    BY <2>2 DEF Covered
<1>10. fsCrashes = 0 /\ ~overrun' /\ fsNews => WakeRead(h)'
  BY <1>1 DEF WakeRead, FsLastWakeRead, fsFaultVars
<1>11. unpromoted \subseteq unpromoted' /\ fsCrashes' = fsCrashes
  BY DEF fsFaultVars
<1> QED
  BY <1>1, <1>2, <1>4, <1>5, <1>6, <1>7, <1>8, <1>9, <1>10, <1>11, RunStepKeeps

\* No wake is lost by a step that touches neither markers nor journal nor state.
LEMMA WakeStays ==
    ASSUME FsWakeKept, UNCHANGED <<fsCrashes, overrun, fsEntries, fsState, fsWakeVars>>
    PROVE  FsWakeKept'
BY DEF FsWakeKept, fsWakeVars

\* The wake is read before the journal, so the run may yet read more.
LEMMA FsReadWakeKeeps ==
    ASSUME FsInvariant, NEW h \in FsHosts, FsReadWake(h) PROVE FsInvariant'
<1> USE DEF FsInvariant
<1>1. fsPc[h] = "idle" /\ ~Committing(h)
  BY DEF FsReadWake, AtRest, Committing
<1>2. PICK s : s = [fsSnap[h] EXCEPT !.wake = fsRequested]
  OBVIOUS
<1>3. /\ s \in Snaps /\ s.cursor = fsSnap[h].cursor /\ s.end = fsSnap[h].end
      /\ s.wake = fsRequested
  BY <1>2, HostTypes DEF Snaps
<1>4. s.cursor <= s.end /\ s.end <= fsEntries
  BY <1>3, HostTypes DEF CommitsHold, CommitShape
<1>5. /\ fsPc' = [fsPc EXCEPT ![h] = "acquire"] /\ fsSnap' = [fsSnap EXCEPT ![h] = s]
      /\ UNCHANGED <<fsQueueVars, fsEntries, fsState, fsWakeVars, relayLock, held,
                     stagedNow, origin, fsFaultVars>>
  BY <1>2 DEF FsReadWake, Goto
<1>6. /\ UNCHANGED <<fsRequested, fsNews, appending, fsProcessed, fsCrashes, overrun>>
      /\ \A g \in FsHosts : TokenLocked(g)'
  BY <1>5 DEF fsWakeVars, fsFaultVars, LocksHold, TokenLocked
<1>7. held' \subseteq FsHosts /\ relayLock' \in FsHosts \cup {NoHost} /\ fsProcessed' \in Nat
  BY <1>5, <1>6 DEF FsTypes, FsTypeOK
<1>8. FsWakeKept'
  BY <1>5, <1>6, WakeStays
<1> QED
  BY <1>1, <1>3, <1>4, <1>5, <1>6, <1>7, <1>8, EarlyStepKeeps DEF FsLabels

\* The lock is free, or the run returns.
LEMMA FsLockKeeps ==
    ASSUME FsInvariant, NEW h \in FsHosts, FsLock(h) PROVE FsInvariant'
<1> USE DEF FsInvariant
<1>1. fsPc[h] = "acquire" /\ ~Committing(h)
  BY DEF FsLock, Committing
<1>2. UNCHANGED <<fsQueueVars, fsEntries, fsState, fsWakeVars, stagedNow, origin, fsFaultVars>>
  BY DEF FsLock
<1>3. UNCHANGED <<fsRequested, fsNews, appending, fsProcessed, fsCrashes, overrun>>
  BY <1>2 DEF fsWakeVars, fsFaultVars
<1>4. fsProcessed' \in Nat /\ FsWakeKept'
  BY <1>2, <1>3, WakeStays DEF FsTypes, FsTypeOK
<1>5. CASE LockFree
  <2>1. PICK s : s = fsSnap[h]
    OBVIOUS
  <2>2. /\ s \in Snaps /\ s.cursor <= s.end /\ s.end <= fsEntries
    BY <2>1, HostTypes DEF CommitsHold, CommitShape, WakesHold
  <2>3. /\ fsPc' = [fsPc EXCEPT ![h] = "read"] /\ fsSnap' = [fsSnap EXCEPT ![h] = s]
        /\ relayLock' = h /\ held' = held \cup {h}
    BY <1>5, <2>1 DEF FsLock, Goto, FsTypes
  <2>4. \A g \in FsHosts : g \notin held
    BY <1>5, NoHostIsNone DEF LockFree, LocksHold, TokenLocked
  <2>5. \A g \in FsHosts : TokenLocked(g)'
    BY <2>3, <2>4 DEF TokenLocked
  <2>6. held' \subseteq FsHosts /\ relayLock' \in FsHosts \cup {NoHost}
    BY <2>3 DEF FsTypes, FsTypeOK
  <2> QED
    BY <1>1, <1>2, <1>3, <1>4, <2>2, <2>3, <2>5, <2>6, EarlyStepKeeps DEF FsLabels
<1>6. CASE ~LockFree
  <2>1. /\ fsPc' = [fsPc EXCEPT ![h] = "idle"] /\ fsSnap' = [fsSnap EXCEPT ![h] = NoSnap]
        /\ UNCHANGED <<relayLock, held>>
    BY <1>6 DEF FsLock, Return, Goto
  <2>2. NoSnap \in Snaps /\ NoSnap.cursor = 0 /\ NoSnap.end = 0 /\ NoSnap.wake = 0
    BY DEF NoSnap, Snaps
  <2>3. NoSnap.cursor <= NoSnap.end /\ NoSnap.end <= fsEntries
    BY <2>2, HostTypes
  <2>4. \A g \in FsHosts : TokenLocked(g)'
    BY <2>1 DEF LocksHold, TokenLocked
  <2>5. held' \subseteq FsHosts /\ relayLock' \in FsHosts \cup {NoHost}
    BY <2>1 DEF FsTypes, FsTypeOK
  <2> QED
    BY <1>1, <1>2, <1>3, <1>4, <2>1, <2>2, <2>3, <2>4, <2>5, EarlyStepKeeps DEF FsLabels
<1> QED
  BY <1>5, <1>6

\* Cursor and journal are read at one point, under the lock.
LEMMA FsReadStateKeeps ==
    ASSUME FsInvariant, NEW h \in FsHosts, FsReadState(h) PROVE FsInvariant'
<1> USE DEF FsInvariant
<1>1. fsPc[h] = "read" /\ ~Committing(h)
  BY DEF FsReadState, Committing
<1>2. PICK s : s = [fsSnap[h] EXCEPT !.cursor = fsState.cursor, !.revision = fsState.revision,
                                     !.end = fsEntries]
  OBVIOUS
<1>3. /\ s \in Snaps /\ s.cursor = fsState.cursor /\ s.end = fsEntries
      /\ s.wake = fsSnap[h].wake
  <2>1. fsState.revision \in Nat
    BY FsRuntimeBounds DEF FsTypes, FsTypeOK
  <2> QED
    BY <1>2, <2>1, HostTypes DEF Snaps
<1>4. s.cursor <= s.end /\ s.end <= fsEntries
  BY <1>3, HostTypes DEF CommitsHold, WakesHold
<1>5. /\ fsPc' = [fsPc EXCEPT ![h] = "run"] /\ fsSnap' = [fsSnap EXCEPT ![h] = s]
      /\ UNCHANGED <<fsQueueVars, fsEntries, fsState, fsWakeVars, relayLock, held,
                     stagedNow, origin, fsFaultVars>>
  BY <1>2 DEF FsReadState, Goto
<1>6. /\ UNCHANGED <<fsRequested, fsNews, appending, fsProcessed, fsCrashes, overrun>>
      /\ \A g \in FsHosts : TokenLocked(g)'
  BY <1>5 DEF fsWakeVars, fsFaultVars, LocksHold, TokenLocked
<1>7. held' \subseteq FsHosts /\ relayLock' \in FsHosts \cup {NoHost} /\ fsProcessed' \in Nat
  BY <1>5, <1>6 DEF FsTypes, FsTypeOK
<1>8. FsWakeKept'
  BY <1>5, <1>6, WakeStays
<1>9. \A e \in 1..s.cursor : Covered(e)
  BY <1>3 DEF FoldedCovered
<1>10. s.cursor <= fsState.cursor
  BY <1>3, HostTypes
<1> QED
  BY <1>1, <1>3, <1>4, <1>5, <1>6, <1>7, <1>8, <1>9, <1>10, EarlyStepKeeps DEF FsLabels

\* A release takes the token of one host, and the lock with it if the token was there.
LEMMA ReleaseKeeps ==
    ASSUME FsInvariant, NEW h \in FsHosts, Release(h)
    PROVE  /\ held' \subseteq FsHosts /\ relayLock' \in FsHosts \cup {NoHost}
           /\ \A g \in FsHosts : TokenLocked(g)'
           /\ \A g \in FsHosts \ {h} : g \in held => g \in held'
<1>1. /\ held \subseteq FsHosts /\ relayLock \in FsHosts \cup {NoHost}
      /\ \A g \in FsHosts : TokenLocked(g)
  BY DEF FsInvariant, FsTypes, FsTypeOK, LocksHold
<1>2. held' = held \ {h}
  BY DEF Release
<1>3. CASE h \in held
  <2>1. relayLock' = NoHost /\ \A g \in FsHosts : g \in held => g = h
    BY <1>1, <1>3 DEF Release, TokenLocked
  <2> QED
    BY <1>1, <1>2, <2>1 DEF TokenLocked
<1>4. CASE h \notin held
  <2>1. relayLock' = relayLock
    BY <1>4 DEF Release
  <2> QED
    BY <1>1, <1>2, <2>1 DEF TokenLocked
<1> QED
  BY <1>3, <1>4

\* A commit begins with the lock held and the cursor that was read.
LEMMA FsCheckKeeps ==
    ASSUME FsInvariant, NEW h \in FsHosts, FsCheck(h) PROVE FsInvariant'
<1> USE DEF FsInvariant
<1>1. fsPc[h] = "run" /\ ~Committing(h)
  BY DEF FsCheck, Committing
<1>2. UNCHANGED <<fsQueueVars, fsEntries, fsState, fsWakeVars, stagedNow, origin, fsFaultVars>>
  BY DEF FsCheck
<1>3. UNCHANGED <<fsRequested, fsNews, appending, fsProcessed, fsCrashes, overrun>>
  BY <1>2 DEF fsWakeVars, fsFaultVars
<1>4. fsProcessed' \in Nat /\ FsWakeKept'
  BY <1>2, <1>3, WakeStays DEF FsTypes, FsTypeOK
<1>5. PICK s : s = fsSnap[h]
  OBVIOUS
<1>6. /\ s \in Snaps /\ s.cursor <= s.end /\ s.end <= fsEntries
      /\ s.cursor \in Nat /\ s.end \in Nat /\ fsEntries \in Nat /\ fsState.cursor \in Nat
      /\ fsState.cursor <= fsEntries
  BY <1>5, HostTypes DEF CommitsHold, CommitShape, WakesHold
<1>7. \A e \in 1..s.cursor : Covered(e)
  BY <1>1, <1>5 DEF FoldedCovered
<1>8. fsCrashes = 0 /\ ~overrun /\ fsNews /\ s.wake >= fsRequested /\ appending = 0 =>
          s.end = fsEntries
  BY <1>1, <1>5 DEF WakesHold, WakeRead, FsLastWakeRead
<1>9. CASE fsSnap[h].end = fsSnap[h].cursor
  <2>1. /\ fsPc' = [fsPc EXCEPT ![h] = "mark"] /\ fsSnap' = [fsSnap EXCEPT ![h] = s]
        /\ Release(h)
    BY <1>5, <1>9 DEF FsCheck, Goto, FsTypes
  <2>2. ~overrun => s.cursor <= fsState.cursor
    BY <1>1, <1>5 DEF FoldsOnce, WriterAlone
  <2>3. s.end = fsEntries /\ ~overrun => fsState.cursor = fsEntries
    BY <1>5, <1>6, <1>9, <2>2
  <2> QED
    BY <1>1, <1>2, <1>3, <1>4, <1>6, <1>8, <2>1, <2>3, ReleaseKeeps, EarlyStepKeeps DEF FsLabels
<1>10. CASE fsSnap[h].end # fsSnap[h].cursor /\ MayCommit(h)
  <2>1. /\ fsPc' = [fsPc EXCEPT ![h] = "stage"] /\ fsSnap' = [fsSnap EXCEPT ![h] = s]
        /\ UNCHANGED <<relayLock, held>>
    BY <1>5, <1>10 DEF FsCheck, Goto, FsTypes
  <2>2. h \in held' /\ s.cursor = fsState.cursor
    BY <1>5, <1>10, <2>1 DEF MayCommit
  <2>3. /\ \A g \in FsHosts : TokenLocked(g)'
        /\ held' \subseteq FsHosts /\ relayLock' \in FsHosts \cup {NoHost}
    BY <2>1 DEF LocksHold, TokenLocked, FsTypes, FsTypeOK
  <2> QED
    BY <1>1, <1>2, <1>3, <1>4, <1>6, <1>7, <1>8, <2>1, <2>2, <2>3, EarlyStepKeeps DEF FsLabels
<1>11. CASE fsSnap[h].end # fsSnap[h].cursor /\ ~MayCommit(h)
  <2>1. /\ fsPc' = [fsPc EXCEPT ![h] = "idle"] /\ fsSnap' = [fsSnap EXCEPT ![h] = NoSnap]
        /\ Release(h)
    BY <1>11 DEF FsCheck, Goto, Return
  <2>2. NoSnap \in Snaps /\ NoSnap.cursor = 0 /\ NoSnap.end = 0 /\ NoSnap.wake = 0
    BY DEF NoSnap, Snaps
  <2>3. NoSnap.cursor <= NoSnap.end /\ NoSnap.end <= fsEntries
    BY <2>2, HostTypes
  <2> QED
    BY <1>1, <1>2, <1>3, <1>4, <2>1, <2>2, <2>3, ReleaseKeeps, EarlyStepKeeps DEF FsLabels
<1> QED
  BY <1>9, <1>10, <1>11

\* The wake marked is the one that was read: a later request stays pending.
LEMMA FsMarkKeeps ==
    ASSUME FsInvariant, NEW h \in FsHosts, FsMarkProcessed(h) PROVE FsInvariant'
<1> USE DEF FsInvariant
<1>1. fsPc[h] = "mark" /\ ~Committing(h)
  BY DEF FsMarkProcessed, Committing
<1>2. /\ UNCHANGED <<fsQueueVars, fsEntries, fsState, fsRequested, fsNews, appending, relayLock,
                     held, stagedNow, origin, fsFaultVars>>
      /\ fsPc' = [fsPc EXCEPT ![h] = "idle"] /\ fsSnap' = [fsSnap EXCEPT ![h] = NoSnap]
      /\ fsProcessed' = IF fsProcessed < fsSnap[h].wake THEN fsSnap[h].wake ELSE fsProcessed
  BY DEF FsMarkProcessed, Captured, Return, Goto
<1>3. UNCHANGED <<fsCrashes, overrun>>
  BY <1>2 DEF fsFaultVars
<1>4. NoSnap \in Snaps /\ NoSnap.cursor = 0 /\ NoSnap.end = 0 /\ NoSnap.wake = 0
  BY DEF NoSnap, Snaps
<1>5. NoSnap.cursor <= NoSnap.end /\ NoSnap.end <= fsEntries
  BY <1>4, HostTypes
<1>6. /\ fsSnap[h].wake \in Nat
      /\ fsRequested \in Nat /\ fsProcessed \in Nat
  BY HostTypes DEF WakesHold, FsTypes, FsTypeOK
<1>7. fsProcessed' \in Nat
  BY <1>2, <1>6
<1>8. /\ \A g \in FsHosts : TokenLocked(g)'
      /\ held' \subseteq FsHosts /\ relayLock' \in FsHosts \cup {NoHost}
  BY <1>2 DEF LocksHold, TokenLocked, FsTypes, FsTypeOK
<1>9. FsWakeKept'
  <2> SUFFICES ASSUME fsCrashes = 0, ~overrun, fsNews, fsEntries > fsState.cursor
               PROVE  fsRequested > fsProcessed' \/ appending > 0
    BY <1>2, <1>3 DEF FsWakeKept
  <2>1. fsRequested > fsProcessed \/ appending > 0
    BY DEF FsWakeKept
  <2>2. fsEntries \in Nat /\ fsState.cursor \in Nat /\ appending \in Nat
    BY HostTypes DEF FsTypes
  <2>3. ~(fsSnap[h].wake >= fsRequested /\ appending = 0)
    BY <1>1, <2>2 DEF WakesHold, WakeRead, FsLastWakeRead
  <2> QED
    BY <1>2, <1>6, <2>1, <2>2, <2>3
<1> QED
  BY <1>1, <1>2, <1>3, <1>4, <1>5, <1>7, <1>8, <1>9, EarlyStepKeeps DEF FsLabels

-------------------------------------------------------------------------------
(***************************************************************************)
(* Steps of a commit that leave the queue alone.                           *)
(***************************************************************************)
LEMMA WakesUnmoved ==
    ASSUME UNCHANGED <<fsWakeVars, fsFaultVars>>
    PROVE  UNCHANGED <<fsRequested, fsProcessed, fsNews, appending, fsCrashes, overrun, unpromoted>>
BY DEF fsWakeVars, fsFaultVars

\* An entry stays on its way while its commit does.
LEMMA OnItsWayKept ==
    ASSUME NEW e, OnItsWay(e), UNCHANGED origin,
           \A h \in FsHosts : fsPc[h] = "promote" =>
               fsPc'[h] = "promote" /\ stagedNow'[h] = stagedNow[h]
    PROVE  Covered(e)'
<1>1. PICK h \in FsHosts : /\ fsPc[h] = "promote"
                           /\ \E i \in 1..Len(stagedNow[h]) : origin[stagedNow[h][i]] = e
  BY DEF OnItsWay
<1>2. OnItsWay(e)'
  BY <1>1 DEF OnItsWay
<1> QED
  BY <1>2 DEF Covered

\* A lock given up inside a commit is an overrun; elsewhere the run finds out.
LEMMA LeaseTimerKeeps ==
    ASSUME FsInvariant, NEW h \in FsHosts, LeaseTimerFires(h) PROVE FsInvariant'
<1> USE DEF FsInvariant
<1>1. /\ UNCHANGED <<fsQueueVars, fsEntries, fsState, fsWakeVars, fsPc, fsSnap, stagedNow,
                     origin, fsCrashes, unpromoted>>
      /\ Release(h)
      /\ overrun' = (overrun \/ fsPc[h] \in {"stage", "write", "promote"})
  BY DEF LeaseTimerFires
<1>2. /\ UNCHANGED <<fsRequested, fsProcessed, fsNews, appending, files, operation, discarded, created>>
      /\ overrun' \in BOOLEAN
  BY <1>1 DEF fsWakeVars, fsQueueVars
<1>3. FsTypes'
  <2>1. fsProcessed' \in Nat
    BY <1>2 DEF FsTypes, FsTypeOK
  <2> QED
    BY <1>1, <1>2, <2>1, ReleaseKeeps, RunTypes DEF FsTypes
<1>4. OperationShape(h)' /\ UntouchedStaged(h)' /\ CommitShape(h)'
  BY <1>1, <1>2, OperationKept, UntouchedKept, CommitKept
     DEF OperationsHold, StagedHold, CommitsHold
<1>5. StagedApart'
  BY <1>1 DEF StagedHold, StagedApart
<1>6. ~overrun' => ~overrun /\ WriterAlone(h)'
  <2> SUFFICES ASSUME ~overrun' PROVE ~overrun /\ WriterAlone(h)'
    OBVIOUS
  <2>1. ~overrun /\ fsPc[h] \notin {"stage", "promote"}
    BY <1>1
  <2>2. WriterAlone(h)
    BY <2>1 DEF FoldsOnce
  <2> QED
    BY <1>1, <2>1, <2>2 DEF WriterAlone
<1>7. \A e \in Nat : OnItsWay(e) => Covered(e)'
  BY <1>1, OnItsWayKept
<1>8. fsPc'[h] \in {"run", "stage"} => \A e \in 1..fsSnap'[h].cursor : Covered(e)
  BY <1>1 DEF FoldedCovered
<1>9. fsCrashes = 0 /\ ~overrun' /\ fsNews => WakeRead(h)'
  BY <1>1, <1>2, WakeReadKept DEF WakesHold
<1>10. FsWakeKept'
  BY <1>1, <1>2 DEF FsWakeKept
<1> QED
  BY <1>1, <1>2, <1>3, <1>4, <1>5, <1>6, <1>7, <1>8, <1>9, <1>10, ReleaseKeeps,
     RunStepKeeps

\* The last promotion is done: the cursor has passed all the run has read.
LEMMA FsCommittedKeeps ==
    ASSUME FsInvariant, NEW h \in FsHosts, FsCommitted(h) PROVE FsInvariant'
<1> USE DEF FsInvariant
<1>1. /\ fsPc[h] = "promote" /\ operation[h] = Idle /\ stagedNow[h] = <<>>
      /\ Release(h) /\ fsPc' = [fsPc EXCEPT ![h] = "mark"]
      /\ UNCHANGED <<fsQueueVars, fsEntries, fsState, fsWakeVars, fsSnap, stagedNow, origin,
                     fsFaultVars>>
  BY DEF FsCommitted, Goto
<1>2. UNCHANGED <<files, operation, discarded, created, fsRequested, fsProcessed, fsNews, appending,
                  fsCrashes, overrun, unpromoted>>
  BY <1>1, WakesUnmoved DEF fsQueueVars
<1>3. FsTypes' /\ fsPc'[h] = "mark" /\ \A g \in FsHosts \ {h} : fsPc'[g] = fsPc[g]
  <2>1. /\ fsProcessed' \in Nat /\ fsPc' \in [FsHosts -> FsLabels]
        /\ fsPc'[h] = "mark" /\ \A g \in FsHosts \ {h} : fsPc'[g] = fsPc[g]
    BY <1>1, <1>2 DEF FsTypes, FsTypeOK, FsLabels
  <2> QED
    BY <1>1, <1>2, <2>1, ReleaseKeeps, RunTypes DEF FsTypes
<1>4. OperationShape(h)'
  BY <1>1, <1>2, IdleShape
<1>5. UntouchedStaged(h)' /\ StagedApart' /\ CommitShape(h)' /\ WriterAlone(h)'
  BY <1>1, <1>2, <1>3, EmptySeq
     DEF UntouchedStaged, StagedHold, StagedApart, CommitsHold, CommitShape, WriterAlone
<1>6. \A e \in Nat : OnItsWay(e) => Covered(e)'
  <2>1. Len(stagedNow[h]) = 0
    BY <1>1, EmptySeq
  <2>2. ASSUME NEW e \in Nat, OnItsWay(e) PROVE OnItsWay(e)'
    BY <1>1, <1>3, <2>1, <2>2 DEF OnItsWay
  <2> QED
    BY <2>2 DEF Covered
<1>7. fsCrashes = 0 /\ ~overrun' /\ fsNews => WakeRead(h)'
  <2> SUFFICES ASSUME fsCrashes = 0, ~overrun, fsNews PROVE WakeRead(h)'
    BY <1>2
  <2>1. WakeRead(h) /\ fsSnap[h].end = fsState.cursor
    BY <1>1 DEF WakesHold, FoldsOnce, WriterAlone
  <2> QED
    BY <1>1, <1>2, <1>3, <2>1 DEF WakeRead, FsLastWakeRead
<1>8. FsWakeKept'
  BY <1>1, <1>2, WakeStays
<1> QED
  BY <1>1, <1>2, <1>3, <1>4, <1>5, <1>6, <1>7, <1>8, ReleaseKeeps, RunStepKeeps

\* Once the queue has refused an operation the rest of what was staged is given up.
LEMMA FsCommitFailsKeeps ==
    ASSUME FsInvariant, NEW h \in FsHosts, FsCommitFails(h) PROVE FsInvariant'
<1> USE DEF FsInvariant
<1>1. /\ fsPc[h] \in {"stage", "promote"} /\ operation[h] = Idle
      /\ unpromoted' = IF fsPc[h] = "stage" THEN unpromoted
                       ELSE unpromoted \cup {origin[m] : m \in {stagedNow[h][i] : i \in 1..Len(stagedNow[h])}}
      /\ fsPc' = [fsPc EXCEPT ![h] = "discard"]
      /\ UNCHANGED <<fsQueueVars, fsEntries, fsState, fsWakeVars, relayLock, held,
                     fsSnap, stagedNow, origin, fsCrashes, leaseTimers, overrun>>
  BY DEF FsCommitFails, Goto
<1>2. UNCHANGED <<files, operation, discarded, created, fsRequested, fsProcessed, fsNews, appending>>
  BY <1>1 DEF fsQueueVars, fsWakeVars
<1>3. FsTypes' /\ fsPc'[h] = "discard" /\ \A g \in FsHosts \ {h} : fsPc'[g] = fsPc[g]
  <2>1. /\ fsProcessed' \in Nat /\ fsPc' \in [FsHosts -> FsLabels]
        /\ held' \subseteq FsHosts /\ relayLock' \in FsHosts \cup {NoHost}
        /\ fsPc'[h] = "discard" /\ \A g \in FsHosts \ {h} : fsPc'[g] = fsPc[g]
    BY <1>1, <1>2 DEF FsTypes, FsTypeOK, FsLabels
  <2> QED
    BY <1>1, <1>2, <2>1, RunTypes DEF FsTypes
<1>4. OperationShape(h)' /\ \A g \in FsHosts : TokenLocked(g)'
  BY <1>1, <1>2, IdleShape DEF LocksHold, TokenLocked
<1>5. UntouchedStaged(h)'
  BY <1>1, <1>2, <1>3 DEF UntouchedStaged, StagedHold, Committing
<1>6. StagedApart'
  BY <1>1 DEF StagedHold, StagedApart
<1>7. CommitShape(h)' /\ WriterAlone(h)'
  BY <1>1, <1>3 DEF CommitsHold, CommitShape, WriterAlone
<1>8. \A e \in Nat : OnItsWay(e) => Covered(e)'
  <2> SUFFICES ASSUME NEW e \in Nat, NEW g \in FsHosts, fsPc[g] = "promote",
                      NEW i \in 1..Len(stagedNow[g]), origin[stagedNow[g][i]] = e
               PROVE  Covered(e)'
    BY DEF OnItsWay
  <2>1. CASE g = h
    <3>1. e \in unpromoted'
      BY <1>1, <2>1
    <3> QED
      BY <3>1 DEF Covered
  <2>2. CASE g # h
    <3>1. OnItsWay(e)'
      BY <1>1, <1>3, <2>2 DEF OnItsWay
    <3> QED
      BY <3>1 DEF Covered
  <2> QED
    BY <2>1, <2>2
<1>9. WakeRead(h)'
  BY <1>3 DEF WakeRead
<1>10. FsWakeKept'
  BY <1>1, <1>2, WakeStays
<1>11. unpromoted \subseteq unpromoted'
  BY <1>1 DEF WakesHold
<1> QED
  BY <1>1, <1>2, <1>3, <1>4, <1>5, <1>6, <1>7, <1>8, <1>9, <1>10, <1>11, RunStepKeeps

\* Dropping the first staged message moves the others one place forward.
LEMMA TailPlaces ==
    ASSUME NEW s \in Seq(FsMessages), s # <<>>
    PROVE  /\ Tail(s) \in Seq(FsMessages) /\ Len(Tail(s)) = Len(s) - 1
           /\ Head(s) = s[1] /\ 1 \in 1..Len(s) /\ Head(s) \in FsMessages
           /\ \A i \in 1..Len(Tail(s)) : Tail(s)[i] = s[i + 1] /\ i + 1 \in 1..Len(s)
BY HeadTailProperties, EmptySeq, LenProperties, ElementOfSeq

\* The commits still have no message in common.
LEMMA FirstDropped ==
    ASSUME FsInvariant, NEW h \in FsHosts, stagedNow[h] # <<>>,
           stagedNow' = [stagedNow EXCEPT ![h] = Tail(@)]
    PROVE  /\ stagedNow' \in [FsHosts -> Seq(FsMessages)]
           /\ stagedNow'[h] = Tail(stagedNow[h])
           /\ \A g \in FsHosts \ {h} : stagedNow'[g] = stagedNow[g]
           /\ StagedApart'
<1> USE DEF FsInvariant
<1>1. stagedNow \in [FsHosts -> Seq(FsMessages)]
  BY DEF FsTypes
<1>2. /\ stagedNow' \in [FsHosts -> Seq(FsMessages)]
      /\ stagedNow'[h] = Tail(stagedNow[h])
      /\ \A g \in FsHosts \ {h} : stagedNow'[g] = stagedNow[g]
  BY <1>1, TailPlaces
<1>3. \A g \in FsHosts : \A i \in 1..Len(stagedNow'[g]) :
          LET k == IF g = h THEN i + 1 ELSE i
          IN  k \in 1..Len(stagedNow[g]) /\ stagedNow'[g][i] = stagedNow[g][k]
  BY <1>1, <1>2, TailPlaces
<1>4. \A g \in FsHosts : Len(stagedNow'[g]) \in Nat
  BY <1>2, LenProperties
<1>5. ASSUME NEW f \in FsHosts, NEW g \in FsHosts, NEW i \in 1..Len(stagedNow'[f]),
             NEW j \in 1..Len(stagedNow'[g]), stagedNow'[f][i] = stagedNow'[g][j]
      PROVE  f = g /\ i = j
  <2>1. PICK k : k = IF f = h THEN i + 1 ELSE i
    OBVIOUS
  <2>2. PICK l : l = IF g = h THEN j + 1 ELSE j
    OBVIOUS
  <2>3. /\ k \in 1..Len(stagedNow[f]) /\ stagedNow'[f][i] = stagedNow[f][k]
        /\ l \in 1..Len(stagedNow[g]) /\ stagedNow'[g][j] = stagedNow[g][l]
    BY <1>3, <2>1, <2>2
  <2>4. f = g /\ k = l
    BY <1>5, <2>3 DEF StagedHold, StagedApart
  <2> QED
    BY <1>4, <2>1, <2>2, <2>4
<1> QED
  BY <1>2, <1>5 DEF StagedApart

\* The messages behind the first are as they were.
LEMMA DroppedUntouched ==
    ASSUME FsInvariant, NEW h \in FsHosts, Committing(h)', stagedNow[h] # <<>>,
           stagedNow'[h] = Tail(stagedNow[h]), UNCHANGED <<discarded, created>>,
           \A m \in FsMessages : m # Head(stagedNow[h]) => files'[m] = files[m]
    PROVE  UntouchedStaged(h)'
<1> USE DEF FsInvariant
<1>1. stagedNow[h] \in Seq(FsMessages)
  BY HostTypes
<1>2. ASSUME NEW i \in 1..Len(stagedNow'[h])
      PROVE  /\ stagedNow'[h][i] \in 1..created
             /\ files'[stagedNow'[h][i]] = {"staged"} /\ stagedNow'[h][i] \notin discarded
  <2>1. PICK m : m = stagedNow'[h][i]
    OBVIOUS
  <2>2. /\ i + 1 \in 1..Len(stagedNow[h]) /\ m = stagedNow[h][i + 1] /\ i + 1 # 1
        /\ 1 \in 1..Len(stagedNow[h]) /\ Head(stagedNow[h]) = stagedNow[h][1]
        /\ Len(Tail(stagedNow[h])) \in Nat
    BY <1>1, <1>2, <2>1, TailPlaces, LenProperties
  <2>3. m # Head(stagedNow[h])
    BY <2>2 DEF StagedHold, StagedApart
  <2>4. m \in 1..created /\ files[m] = {"staged"} /\ m \notin discarded
    BY <2>2 DEF StagedHold, UntouchedStaged
  <2>5. m \in FsMessages
    BY <2>2, <1>1, ElementOfSeq
  <2> QED
    BY <2>1, <2>3, <2>4, <2>5
<1> QED
  BY <1>2 DEF UntouchedStaged

\* A discard that fails leaves its message staged for ever.
LEMMA FsDiscardFailsKeeps ==
    ASSUME FsInvariant, NEW h \in FsHosts, FsDiscardFails(h) PROVE FsInvariant'
<1> USE DEF FsInvariant
<1>1. /\ fsPc[h] = "discard" /\ operation[h] = Idle /\ stagedNow[h] # <<>>
      /\ stagedNow' = [stagedNow EXCEPT ![h] = Tail(@)]
      /\ UNCHANGED <<fsQueueVars, fsEntries, fsState, fsWakeVars, relayLock, held, fsPc,
                     fsSnap, origin, fsFaultVars>>
  BY DEF FsDiscardFails
<1>2. UNCHANGED <<files, operation, discarded, created, fsRequested, fsProcessed, fsNews, appending,
                  fsCrashes, overrun, unpromoted>>
  BY <1>1, WakesUnmoved DEF fsQueueVars
<1>3. FsTypes'
  <2>1. /\ fsProcessed' \in Nat
        /\ held' \subseteq FsHosts /\ relayLock' \in FsHosts \cup {NoHost}
    BY <1>1, <1>2 DEF FsTypes, FsTypeOK
  <2> QED
    BY <1>1, <1>2, <2>1, FirstDropped, RunTypes DEF FsTypes
<1>4. OperationShape(h)' /\ \A g \in FsHosts : TokenLocked(g)'
  BY <1>1, <1>2, IdleShape DEF LocksHold, TokenLocked
<1>5. UntouchedStaged(h)' /\ StagedApart'
  BY <1>1, <1>2, FirstDropped, DroppedUntouched DEF Committing
<1>6. CommitShape(h)' /\ WriterAlone(h)' /\ WakeRead(h)'
  BY <1>1 DEF CommitsHold, CommitShape, WriterAlone, WakeRead
<1>7. \A e \in Nat : OnItsWay(e) => Covered(e)'
  <2>1. \A g \in FsHosts : fsPc[g] = "promote" => stagedNow'[g] = stagedNow[g]
    BY <1>1, FirstDropped
  <2> QED
    BY <1>1, <2>1, OnItsWayKept
<1>8. FsWakeKept'
  BY <1>1, <1>2, WakeStays
<1> QED
  BY <1>1, <1>2, <1>3, <1>4, <1>5, <1>6, <1>7, <1>8, FirstDropped, RunStepKeeps

\* A commit that has nothing left to discard throws.
LEMMA FsCommitThrowsKeeps ==
    ASSUME FsInvariant, NEW h \in FsHosts, FsCommitThrows(h) PROVE FsInvariant'
<1> USE DEF FsInvariant
<1>1. /\ fsPc[h] = "discard" /\ operation[h] = Idle /\ stagedNow[h] = <<>>
      /\ Release(h)
      /\ fsPc' = [fsPc EXCEPT ![h] = "idle"] /\ fsSnap' = [fsSnap EXCEPT ![h] = NoSnap]
      /\ UNCHANGED <<fsQueueVars, fsEntries, fsState, fsWakeVars, stagedNow, origin,
                     fsFaultVars>>
  BY DEF FsCommitThrows, Return, Goto
<1>2. UNCHANGED <<files, operation, discarded, created, fsRequested, fsProcessed, fsNews, appending,
                  fsCrashes, overrun, unpromoted>>
  BY <1>1, WakesUnmoved DEF fsQueueVars
<1>3. /\ fsPc' \in [FsHosts -> FsLabels] /\ fsSnap' \in [FsHosts -> Snaps]
      /\ fsPc'[h] = "idle" /\ fsSnap'[h] = NoSnap /\ NoSnap.wake = 0
      /\ NoSnap.cursor = 0 /\ NoSnap.end = 0
      /\ \A g \in FsHosts \ {h} : fsPc'[g] = fsPc[g] /\ fsSnap'[g] = fsSnap[g]
  BY <1>1 DEF FsTypes, FsLabels, Snaps, NoSnap
<1>4. FsTypes'
  <2>1. fsProcessed' \in Nat
    BY <1>2 DEF FsTypes, FsTypeOK
  <2> QED
    BY <1>1, <1>2, <1>3, <2>1, ReleaseKeeps, RunTypes DEF FsTypes
<1>5. OperationShape(h)'
  BY <1>1, <1>2, IdleShape
<1>6. UntouchedStaged(h)' /\ StagedApart'
  BY <1>1, <1>2, EmptySeq DEF UntouchedStaged, StagedHold, StagedApart
<1>7. CommitShape(h)' /\ WriterAlone(h)' /\ WakeRead(h)'
  BY <1>3, HostTypes, <1>1 DEF CommitShape, WriterAlone, WakeRead
<1>8. \A e \in Nat : OnItsWay(e) => Covered(e)'
  BY <1>1, <1>3, OnItsWayKept
<1>9. FsWakeKept'
  BY <1>1, <1>2, WakeStays
<1> QED
  BY <1>1, <1>2, <1>3, <1>4, <1>5, <1>6, <1>7, <1>8, <1>9, ReleaseKeeps, RunStepKeeps

(***************************************************************************)
(* The state is written.  While no commit has outlived its lease the       *)
(* writer is alone, so the cursor only moves forward, over entries whose   *)
(* messages are staged and none of whose messages is out.                  *)
(***************************************************************************)
LEMMA FsWriteStateKeeps ==
    ASSUME FsInvariant, NEW h \in FsHosts, FsWriteState(h) PROVE FsInvariant'
<1> USE DEF FsInvariant
<1>1. /\ fsPc[h] = "stage" /\ operation[h] = Idle /\ AllStaged(h)
      /\ fsState.revision < MaxFsWrites
      /\ fsState' = [cursor |-> fsSnap[h].end, revision |-> fsState.revision + 1]
      /\ fsPc' = [fsPc EXCEPT ![h] = "promote"]
      /\ UNCHANGED <<fsQueueVars, fsEntries, fsWakeVars, relayLock, held, fsSnap, stagedNow,
                     origin, fsFaultVars>>
  BY DEF FsWriteState, Goto
<1>2. UNCHANGED <<files, leaseToken, expired, queueLock, item, operation, discarded, created,
                  fsExpiries, fsRequested, fsProcessed, fsNews, appending, fsCrashes, overrun, unpromoted>>
  BY <1>1, WakesUnmoved DEF fsQueueVars
<1>3. fsPc'[h] = "promote" /\ \A g \in FsHosts \ {h} : fsPc'[g] = fsPc[g]
  BY <1>1 DEF FsTypes
<1> DEFINE from == fsSnap[h].cursor
           to == fsSnap[h].end
           n == Len(stagedNow[h])
<1>4. /\ from \in Nat /\ to \in Nat /\ n \in Nat /\ fsEntries \in Nat
      /\ fsState.cursor \in Nat /\ fsState'.cursor = to
      /\ from <= to /\ to <= fsEntries
      /\ from + n = to
      /\ \A i \in 1..n : origin[stagedNow[h][i]] = from + i
  <2>1. from + n + 1 > to
    BY <1>1 DEF AllStaged, NextEffect
  <2>2. /\ from <= to /\ to <= fsEntries /\ from + n <= to
        /\ \A i \in 1..n : origin[stagedNow[h][i]] = from + i
    BY <1>1 DEF CommitsHold, CommitShape
  <2>3. /\ from \in Nat /\ to \in Nat /\ n \in Nat /\ fsEntries \in Nat
        /\ fsState.cursor \in Nat
    BY HostTypes
  <2> QED
    BY <1>1, <2>1, <2>2, <2>3
<1>5. ~overrun => from = fsState.cursor /\ h \in held
  BY <1>1 DEF FoldsOnce, WriterAlone
<1>6. FsTypes'
  <2>1. /\ fsState \in [cursor : 0..MaxFsEntries, revision : 0..MaxFsWrites]
        /\ fsEntries \in 0..MaxFsEntries
    BY DEF FsTypes, FsTypeOK
  <2>2. to \in 0..MaxFsEntries /\ fsState.revision + 1 \in 0..MaxFsWrites
    BY <1>1, <1>4, <2>1, FsRuntimeBounds
  <2>3. fsState' \in [cursor : 0..MaxFsEntries, revision : 0..MaxFsWrites]
    BY <1>1, <2>2
  <2>4. FsTypeOK'
    BY <1>1, <1>2, <2>3 DEF FsTypes, FsTypeOK
  <2>5. fsPc' \in [FsHosts -> FsLabels]
    BY <1>1 DEF FsTypes, FsLabels
  <2> QED
    BY <1>1, <1>2, <2>4, <2>5 DEF FsTypes
<1>7. LocksHold'
  BY <1>1, <1>2 DEF LocksHold, OperationLocked, TokenLocked
<1>8. OperationsHold'
  <2>1. \A g \in FsHosts \ {h} : OperationShape(g)'
    BY <1>1, <1>2, <1>3, OperationKept DEF OperationsHold
  <2>2. OperationShape(h)'
    BY <1>1, <1>2, IdleShape
  <2> QED
    BY <2>1, <2>2 DEF OperationsHold
<1>9. CopiesHold'
  BY <1>2 DEF CopiesHold, CopiesExact, Reviving, Single
<1>10. StagedHold'
  <2>1. \A g \in FsHosts : UntouchedStaged(g)'
    BY <1>1, <1>2, <1>3 DEF StagedHold, UntouchedStaged, Committing
  <2>2. StagedApart' /\ NotCreated'
    BY <1>1, <1>2 DEF StagedHold, StagedApart, NotCreated
  <2> QED
    BY <2>1, <2>2 DEF StagedHold
<1>11. CommitsHold'
  <2>1. \A g \in FsHosts \ {h} : CommitShape(g)'
    BY <1>1, <1>3, CommitKept DEF CommitsHold
  <2>2. CommitShape(h)'
    <3>1. \A i \in 1..n : origin[stagedNow[h][i]] = to - n + i
      BY <1>4
    <3> QED
      BY <1>1, <1>3, <1>4, <3>1 DEF CommitShape
  <2> QED
    BY <1>1, <1>4, <2>1, <2>2 DEF CommitsHold
<1>12. \A m \in FsMessages : /\ Out(m)' <=> Out(m)
                             /\ origin'[m] = origin[m]
  BY <1>1, <1>2 DEF Out
<1>13. FoldsOnce'
  <2> SUFFICES ASSUME ~overrun PROVE (\A g \in FsHosts : WriterAlone(g)') /\ OutOnce'
    BY <1>2 DEF FoldsOnce
  <2>1. from = fsState.cursor /\ h \in held
    BY <1>5
  <2>2. \A m \in FsMessages : Out(m) => origin[m] <= from
    BY <2>1 DEF FoldsOnce, OutOnce
  <2>3. \A m \in FsMessages : Out(m) => origin[m] \in Nat
    BY DEF FsTypes, FsTypeOK, Out
  <2>4. OutOnce'
    <3>1. \A m \in FsMessages : Out(m) => origin[m] <= to
      BY <1>4, <2>2, <2>3
    <3> QED
      BY <1>4, <1>12, <3>1 DEF FoldsOnce, OutOnce
  <2>5. WriterAlone(h)'
    <3>1. ASSUME NEW i \in 1..n, NEW m \in FsMessages, Out(m),
                 origin[m] = origin[stagedNow[h][i]]
          PROVE  FALSE
      <4>1. origin[m] = from + i /\ origin[m] <= from
        BY <1>4, <2>2, <3>1
      <4> QED
        BY <1>4, <4>1
    <3>2. \A i \in 1..Len(stagedNow'[h]), m \in FsMessages :
              Out(m)' /\ origin'[m] = origin'[stagedNow'[h][i]] => m = stagedNow'[h][i]
      BY <1>1, <1>12, <3>1
    <3> QED
      BY <1>1, <1>3, <1>4, <2>1, <3>2 DEF WriterAlone
  <2>6. ASSUME NEW g \in FsHosts, g # h PROVE WriterAlone(g)'
    <3>1. g \notin held
      BY <2>1, <2>6 DEF LocksHold, TokenLocked
    <3>2. fsPc'[g] = fsPc[g] /\ WriterAlone(g)
      BY <1>3, <2>6 DEF FoldsOnce
    <3>3. fsPc'[g] \notin {"stage", "promote"}
      BY <3>1, <3>2 DEF WriterAlone
    <3>4. fsPc'[g] = "run" => fsSnap[g].cursor <= from
      BY <2>1, <3>2 DEF WriterAlone
    <3>5. fsSnap[g].cursor \in Nat
      BY HostTypes
    <3>6. fsPc'[g] = "run" => fsSnap'[g].cursor <= fsState'.cursor
      BY <1>1, <1>4, <3>4, <3>5
    <3> QED
      BY <3>3, <3>6 DEF WriterAlone
  <2> QED
    BY <2>4, <2>5, <2>6
<1>14. \A e : Covered(e) => Covered(e)'
  <2>1. \A g \in FsHosts : fsPc[g] = "promote" => fsPc'[g] = "promote" /\ stagedNow'[g] = stagedNow[g]
    BY <1>1, <1>3
  <2> QED
    BY <1>1, <1>2, <1>12, <2>1, CoveredKept
<1>15. FoldedCovered'
  <2>1. ASSUME NEW e \in 1..to PROVE Covered(e)'
    <3>1. CASE e <= from
      BY <1>1, <1>4, <1>14, <3>1 DEF FoldedCovered
    <3>2. CASE e > from
      <4>1. e - from \in 1..n /\ origin[stagedNow[h][e - from]] = e
        BY <1>4, <3>2, SMTT(30)
      <4>2. OnItsWay(e)'
        BY <1>1, <1>3, <4>1 DEF OnItsWay
      <4> QED
        BY <4>2 DEF Covered
    <3> QED
      BY <1>4, <3>1, <3>2
  <2>2. ASSUME NEW g \in FsHosts, fsPc'[g] \in {"run", "stage"}, NEW e \in 1..fsSnap[g].cursor
        PROVE  Covered(e)'
    BY <1>3, <1>14, <2>2 DEF FoldedCovered
  <2> QED
    BY <1>1, <1>4, <2>1, <2>2 DEF FoldedCovered
<1>16. WakesHold'
  <2>2. ASSUME fsCrashes = 0, ~overrun, fsNews, NEW g \in FsHosts PROVE WakeRead(g)'
    <3>1. WakeRead(g) /\ WakeRead(h)
      BY <2>2 DEF WakesHold
    <3>2. fsSnap'[g] = fsSnap[g] /\ fsSnap'[h] = fsSnap[h]
      BY <1>1
    <3>3. g = h => (FsLastWakeRead(g) => fsSnap[g].end = fsEntries)
      BY <1>1, <3>1 DEF WakeRead
    <3>4. g # h => fsPc'[g] = fsPc[g]
      BY <1>3
    <3>5. ASSUME fsState.cursor = fsEntries PROVE fsState'.cursor = fsEntries
      BY <1>4, <1>5, <2>2, <3>5
    <3> QED
      BY <1>1, <1>2, <1>3, <3>1, <3>2, <3>3, <3>4, <3>5 DEF WakeRead, FsLastWakeRead
  <2> QED
    BY <1>2, <2>2 DEF WakesHold
<1>17. FsWakeKept'
  <2> SUFFICES ASSUME FsWakeKept PROVE FsWakeKept'
    OBVIOUS
  <2>1. ~overrun /\ fsEntries > to => fsEntries > fsState.cursor
    BY <1>4, <1>5
  <2> QED
    BY <1>1, <1>2, <1>4, <2>1 DEF FsWakeKept
<1> QED
  BY <1>6, <1>7, <1>8, <1>9, <1>10, <1>11, <1>13, <1>15, <1>16, <1>17

-------------------------------------------------------------------------------
(***************************************************************************)
(* Steps that leave files, operations and commits alone: appends, expiries *)
(* and stale locks.                                                        *)
(***************************************************************************)
LEMMA CommitsUnmoved ==
    ASSUME FsInvariant,
           UNCHANGED <<files, discarded, operation, created, fsState, fsPc, fsSnap, held,
                       stagedNow, origin, overrun, unpromoted>>,
           fsCrashes' = 0 => fsCrashes = 0,
           fsEntries' \in Nat, fsEntries <= fsEntries'
    PROVE  /\ OperationsHold' /\ CopiesHold' /\ StagedHold' /\ CommitsHold' /\ FoldsOnce'
           /\ FoldedCovered'
<1> USE DEF FsInvariant
<1>1. OperationsHold'
  BY OperationKept DEF OperationsHold
<1>2. CopiesHold'
  BY DEF CopiesHold, CopiesExact, Reviving, Single
<1>3. StagedHold'
  <2>1. \A g \in FsHosts : UntouchedStaged(g)'
    BY UntouchedKept DEF StagedHold
  <2> QED
    BY <2>1 DEF StagedHold, StagedApart, NotCreated
<1>4. CommitsHold'
  <2>1. ASSUME NEW g \in FsHosts PROVE CommitShape(g)'
    <3>1. fsSnap[g].end <= fsEntries'
      BY HostTypes DEF CommitsHold, CommitShape
    <3> QED
      BY <3>1 DEF CommitsHold, CommitShape
  <2>2. fsState'.cursor <= fsEntries'
    <3>1. fsState.cursor \in Nat /\ fsEntries \in Nat
      BY DEF FsTypes, FsTypeOK
    <3> QED
      BY <3>1 DEF CommitsHold
  <2> QED
    BY <2>1, <2>2 DEF CommitsHold
<1>5. \A m \in FsMessages : Out(m)' <=> Out(m)
  BY DEF Out
<1>6. FoldsOnce'
  <2> SUFFICES ASSUME ~overrun PROVE (\A g \in FsHosts : WriterAlone(g)') /\ OutOnce'
    BY DEF FoldsOnce
  <2> QED
    BY <1>5, WriterKept DEF FoldsOnce, OutOnce
<1>7. \A e : Covered(e) => Covered(e)'
  BY <1>5, CoveredKept
<1>8. FoldedCovered'
  BY <1>7 DEF FoldedCovered
<1> QED
  BY <1>1, <1>2, <1>3, <1>4, <1>6, <1>8

\* An append moves the journal and the markers only forward.
LEMMA JournalStepKeeps ==
    ASSUME FsInvariant,
           UNCHANGED <<fsQueueVars, fsState, fsProcessed, fsTransitionVars, overrun, unpromoted>>,
           fsEntries' \in fsEntries..MaxFsEntries, appending' \in Nat,
           fsRequested' \in Nat, fsNews' \in BOOLEAN,
           fsCrashes' \in Nat, fsCrashes' = 0 => fsCrashes = 0,
           fsCrashes' = 0 /\ fsNews' =>
               \A g \in FsHosts : ~(fsSnap[g].wake >= fsRequested' /\ appending' = 0),
           FsWakeKept'
    PROVE  FsInvariant'
<1> USE DEF FsInvariant
<1>1. /\ UNCHANGED <<files, discarded, operation, created, fsPc, fsSnap, held, stagedNow,
                     origin, relayLock, queueLock, leaseToken, expired, item>>
  BY DEF fsQueueVars, fsTransitionVars
<1>2. /\ fsEntries \in Nat /\ fsRequested \in Nat /\ fsProcessed \in Nat
      /\ fsEntries \in 0..MaxFsEntries
  BY FsRuntimeBounds DEF FsTypes, FsTypeOK
<1>3. FsTypes'
  <2>1. /\ fsEntries' \in 0..MaxFsEntries /\ fsProcessed \in Nat
    BY <1>2, FsRuntimeBounds
  <2>2. FsTypeOK'
    BY <1>1, <2>1 DEF FsTypes, FsTypeOK
  <2> QED
    BY <1>1, <2>2 DEF FsTypes
<1>4. LocksHold'
  BY <1>1 DEF LocksHold, OperationLocked, TokenLocked
<1>5. /\ OperationsHold' /\ CopiesHold' /\ StagedHold' /\ CommitsHold' /\ FoldsOnce'
      /\ FoldedCovered'
  BY <1>1, <1>2, CommitsUnmoved, FsRuntimeBounds
<1>6. WakesHold'
  <2>1. ASSUME fsCrashes' = 0, fsNews', NEW g \in FsHosts PROVE WakeRead(g)'
    BY <1>1, <2>1 DEF WakeRead, FsLastWakeRead
  <2> QED
    BY <2>1 DEF WakesHold
<1> QED
  BY <1>3, <1>4, <1>5, <1>6

\* The two halves of an append, and its death between them.
LEMMA FsAppendsKeep ==
    ASSUME FsInvariant, FsAppend \/ FsRequest \/ FsAppendDies PROVE FsInvariant'
<1> USE DEF FsInvariant
<1>1. /\ fsEntries \in 0..MaxFsEntries /\ fsRequested \in Nat /\ appending \in Nat
      /\ fsCrashes \in Nat /\ fsProcessed \in Nat /\ fsNews \in BOOLEAN
      /\ \A g \in FsHosts : fsSnap[g].wake \in Nat
  BY HostTypes DEF FsTypes, FsTypeOK, WakesHold
<1>2. CASE FsAppend
  <2>1. UNCHANGED <<fsQueueVars, fsState, fsRequested, fsProcessed, fsNews, fsTransitionVars,
                    fsCrashes, overrun, unpromoted>>
    BY <1>2 DEF FsAppend, fsFaultVars
  <2>2. fsEntries' \in fsEntries..MaxFsEntries /\ appending' \in Nat /\ appending' > 0
    BY <1>1, <1>2, FsRuntimeBounds DEF FsAppend
  <2>3. FsWakeKept'
    BY <2>2 DEF FsWakeKept
  <2> QED
    BY <1>1, <2>1, <2>2, <2>3, JournalStepKeeps
<1>3. CASE FsRequest
  <2>1. UNCHANGED <<fsQueueVars, fsEntries, fsState, fsProcessed, fsTransitionVars,
                    fsCrashes, overrun, unpromoted>>
    BY <1>3 DEF FsRequest, fsFaultVars
  <2>2. fsEntries' \in fsEntries..MaxFsEntries /\ appending' \in Nat
    BY <1>1, <1>3, <2>1, FsRuntimeBounds DEF FsRequest
  <2>3. /\ fsRequested' \in Nat /\ fsNews' \in BOOLEAN
        /\ fsNews' => fsProcessed < fsRequested' /\ \A g \in FsHosts : fsSnap[g].wake < fsRequested'
    BY <1>3, FsRuntimeBounds DEF FsRequest, IsNews
  <2>4. FsWakeKept'
    BY <1>1, <2>1, <2>3 DEF FsWakeKept
  <2>5. fsNews' => \A g \in FsHosts : ~(fsSnap[g].wake >= fsRequested' /\ appending' = 0)
    BY <1>1, <2>3
  <2> QED
    BY <1>1, <2>1, <2>2, <2>3, <2>4, <2>5, JournalStepKeeps
<1>4. CASE FsAppendDies
  <2>1. UNCHANGED <<fsQueueVars, fsEntries, fsState, fsRequested, fsProcessed, fsNews,
                    fsTransitionVars, overrun, unpromoted>>
    BY <1>4 DEF FsAppendDies
  <2>2. fsEntries' \in fsEntries..MaxFsEntries /\ appending' \in Nat
    BY <1>1, <1>4, <2>1, FsRuntimeBounds DEF FsAppendDies
  <2>3. fsCrashes' \in Nat /\ fsCrashes' # 0
    BY <1>1, <1>4 DEF FsAppendDies
  <2>4. FsWakeKept'
    BY <2>3 DEF FsWakeKept
  <2> QED
    BY <1>1, <2>1, <2>2, <2>3, <2>4, JournalStepKeeps
<1> QED
  BY <1>2, <1>3, <1>4

\* A step that changes lock files, tokens and items only.
LEMMA LockStepKeeps ==
    ASSUME FsInvariant,
           UNCHANGED <<files, discarded, operation, created, fsEntries, fsState, fsWakeVars,
                       held, fsPc, fsSnap, stagedNow, origin, fsFaultVars>>,
           expired' \subseteq FsMessages, item' \in [FsHosts -> 0..MaxFsMessages],
           leaseToken' \in [FsMessages -> FsHosts \cup {NoHost}],
           queueLock' \in FsHosts \cup {NoHost}, relayLock' \in FsHosts \cup {NoHost},
           LocksHold'
    PROVE  FsInvariant'
<1> USE DEF FsInvariant
<1>1. UNCHANGED <<fsRequested, fsProcessed, fsNews, appending, fsCrashes, overrun, unpromoted>>
  BY WakesUnmoved
<1>2. FsTypes'
  <2>1. FsTypeOK'
    BY <1>1 DEF FsTypes, FsTypeOK
  <2> QED
    BY <1>1, <2>1 DEF FsTypes
<1>3. fsEntries \in Nat /\ fsEntries <= fsEntries
  BY FsRuntimeBounds DEF FsTypes, FsTypeOK
<1>4. /\ OperationsHold' /\ CopiesHold' /\ StagedHold' /\ CommitsHold' /\ FoldsOnce'
      /\ FoldedCovered'
  BY <1>1, <1>3, CommitsUnmoved
<1>5. WakesHold'
  BY <1>1, WakeReadKept DEF WakesHold
<1>6. FsWakeKept'
  BY <1>1, WakeStays
<1> QED
  BY <1>2, <1>4, <1>5, <1>6

\* A stale lock belongs to no operation and to no token.
LEMMA StaleLocksKeep == ASSUME FsInvariant, StaleLocksRemoved PROVE FsInvariant'
<1> USE DEF FsInvariant
<1>1. UNCHANGED <<files, leaseToken, expired, discarded, operation, item, created,
                  fsExpiries, fsEntries, fsState, fsWakeVars, held, fsPc, fsSnap,
                  stagedNow, origin, fsFaultVars>>
  BY DEF StaleLocksRemoved
<1>2. PICK h \in FsHosts :
        \/ queueLock = h /\ operation[h] = Idle /\ queueLock' = NoHost /\ UNCHANGED relayLock
        \/ relayLock = h /\ h \notin held /\ relayLock' = NoHost /\ UNCHANGED queueLock
  BY DEF StaleLocksRemoved
<1>3. LocksHold'
  <2>1. \A g \in FsHosts : OperationLocked(g)'
    BY <1>1, <1>2 DEF LocksHold, OperationLocked, Idle
  <2>2. \A g \in FsHosts : TokenLocked(g)'
    BY <1>1, <1>2 DEF LocksHold, TokenLocked
  <2> QED
    BY <2>1, <2>2 DEF LocksHold
<1>4. /\ queueLock' \in FsHosts \cup {NoHost} /\ relayLock' \in FsHosts \cup {NoHost}
      /\ expired' \subseteq FsMessages /\ item' \in [FsHosts -> 0..MaxFsMessages]
      /\ leaseToken' \in [FsMessages -> FsHosts \cup {NoHost}]
  BY <1>1, <1>2 DEF FsTypes, FsTypeOK
<1> QED
  BY <1>1, <1>3, <1>4, LockStepKeeps

\* An expiry touches no file.
LEMMA FsItemExpiresKeeps ==
    ASSUME FsInvariant, FsItemExpires, UNCHANGED fsRuntimeVars PROVE FsInvariant'
<1> USE DEF FsInvariant
<1>1. UNCHANGED <<files, leaseToken, discarded, queueLock, operation, item, created,
                  fsEntries, fsState, fsWakeVars, relayLock, held, fsPc, fsSnap,
                  stagedNow, origin, fsFaultVars>>
  BY DEF FsItemExpires, fsRuntimeVars, fsWakeVars, fsFaultVars
<1>2. /\ queueLock' \in FsHosts \cup {NoHost} /\ relayLock' \in FsHosts \cup {NoHost}
      /\ expired' \subseteq FsMessages /\ item' \in [FsHosts -> 0..MaxFsMessages]
      /\ leaseToken' \in [FsMessages -> FsHosts \cup {NoHost}]
  BY <1>1 DEF FsTypes, FsTypeOK, FsItemExpires
<1>3. LocksHold'
  BY <1>1 DEF LocksHold, OperationLocked, TokenLocked
<1> QED
  BY <1>1, <1>2, <1>3, LockStepKeeps

-------------------------------------------------------------------------------
(***************************************************************************)
(* Operations of the queue on messages that no commit has staged.          *)
(***************************************************************************)
\* The operation of a host is the only one under way.
LEMMA OthersIdle ==
    ASSUME FsInvariant, NEW h \in FsHosts, queueLock \in {h, NoHost}
    PROVE  \A g \in FsHosts \ {h} : operation[g] = Idle
BY NoHostIsNone DEF FsInvariant, LocksHold, OperationLocked

\* An operation under way holds the lock, so it is the only one.
LEMMA LockedOthersIdle ==
    ASSUME FsInvariant, NEW h \in FsHosts, operation[h].kind # "none"
    PROVE  queueLock = h /\ \A g \in FsHosts \ {h} : operation[g] = Idle
BY OthersIdle DEF FsInvariant, LocksHold, OperationLocked

\* A message that is only staged, or not created yet, stays so; one that is out stays out.
StagedAside ==
    \A m \in FsMessages :
        files'[m] # files[m] => /\ files[m] \ {"staged"} # {}
                                /\ files'[m] \ {"staged"} # {}

\* A step of an operation that leaves staged messages aside.
LEMMA QueueStepKeeps ==
    ASSUME FsInvariant, NEW h \in FsHosts,
           UNCHANGED <<fsRuntimeVars, created, discarded>>,
           \A g \in FsHosts \ {h} : operation[g] = Idle /\ operation'[g] = operation[g],
           operation[h].kind \notin {"promote", "discard"},
           FsTypes', OperationLocked(h)', OperationShape(h)', CopiesHold', StagedAside
    PROVE  FsInvariant'
<1> USE DEF FsInvariant
<1>1. UNCHANGED <<fsEntries, fsState, fsRequested, fsProcessed, fsNews, appending, relayLock, held,
                  fsPc, fsSnap, stagedNow, origin, fsCrashes, leaseTimers, overrun, unpromoted>>
  BY DEF fsRuntimeVars
<1>2. LocksHold'
  <2>1. \A g \in FsHosts \ {h} : OperationLocked(g)'
    BY DEF OperationLocked, Idle
  <2>2. \A g \in FsHosts : TokenLocked(g)'
    BY <1>1 DEF LocksHold, TokenLocked
  <2> QED
    BY <2>1, <2>2 DEF LocksHold
<1>3. OperationsHold'
  BY IdleShape DEF OperationsHold
<1>4. StagedHold'
  <2>1. ASSUME NEW g \in FsHosts PROVE UntouchedStaged(g)'
    <3>1. \A i \in 1..Len(stagedNow[g]) : stagedNow[g][i] \in FsMessages
      BY HostTypes, ElementOfSeq
    <3>2. operation[g].kind \notin {"promote", "discard"}
      BY DEF Idle
    <3>3. \A i \in 1..Len(stagedNow[g]) :
            /\ stagedNow[g][i] \in 1..created
            /\ files[stagedNow[g][i]] = {"staged"} /\ stagedNow[g][i] \notin discarded
      BY <3>2 DEF StagedHold, UntouchedStaged
    <3>4. \A i \in 1..Len(stagedNow[g]) : files'[stagedNow[g][i]] = {"staged"}
      <4>1. \A m \in FsMessages : files[m] = {"staged"} => files'[m] = {"staged"}
        BY DEF StagedAside
      <4> QED
        BY <3>1, <3>3, <4>1
    <3>5. ~Committing(g)' => stagedNow'[g] = <<>>
      BY <1>1 DEF StagedHold, UntouchedStaged, Committing
    <3> QED
      BY <1>1, <3>3, <3>4, <3>5 DEF UntouchedStaged
  <2>2. StagedApart' /\ NotCreated'
    BY <1>1 DEF StagedHold, StagedApart, NotCreated, StagedAside
  <2> QED
    BY <2>1, <2>2 DEF StagedHold
<1>5. CommitsHold'
  BY <1>1, CommitKept DEF CommitsHold
<1>6. \A m \in FsMessages : Out(m)' <=> Out(m)
  BY DEF Out, StagedAside
<1>7. FoldsOnce'
  <2> SUFFICES ASSUME ~overrun PROVE (\A g \in FsHosts : WriterAlone(g)') /\ OutOnce'
    BY <1>1 DEF FoldsOnce
  <2> QED
    BY <1>1, <1>6, WriterKept DEF FoldsOnce, OutOnce
<1>8. \A e : Covered(e) => Covered(e)'
  BY <1>1, <1>6, CoveredKept
<1>9. FoldedCovered'
  BY <1>1, <1>8 DEF FoldedCovered
<1>10. WakesHold'
  BY <1>1, WakeReadKept DEF WakesHold
<1>11. FsWakeKept'
  BY <1>1 DEF FsWakeKept
<1> QED
  BY <1>2, <1>3, <1>4, <1>5, <1>7, <1>9, <1>10, <1>11

\* The types after an operation, and before it.
LEMMA QueueTypes ==
    ASSUME FsInvariant, UNCHANGED <<fsRuntimeVars, created, discarded>>,
           files' \in [FsMessages -> SUBSET Directories],
           leaseToken' \in [FsMessages -> FsHosts \cup {NoHost}],
           expired' \subseteq FsMessages, queueLock' \in FsHosts \cup {NoHost},
           item' \in [FsHosts -> 0..MaxFsMessages],
           operation' \in [FsHosts -> Operations]
    PROVE  FsTypes'
<1> USE DEF FsInvariant
<1>1. UNCHANGED <<fsEntries, fsState, fsRequested, fsProcessed, fsNews, appending, relayLock, held,
                  fsPc, fsSnap, stagedNow, origin, fsCrashes, overrun>>
  BY DEF fsRuntimeVars
<1>2. FsTypeOK'
  BY <1>1 DEF FsTypes, FsTypeOK
<1> QED
  BY <1>1, <1>2 DEF FsTypes

LEMMA QueueTypesNow ==
    ASSUME FsInvariant
    PROVE  /\ files \in [FsMessages -> SUBSET Directories]
           /\ leaseToken \in [FsMessages -> FsHosts \cup {NoHost}]
           /\ expired \subseteq FsMessages /\ discarded \subseteq FsMessages
           /\ queueLock \in FsHosts \cup {NoHost}
           /\ item \in [FsHosts -> 0..MaxFsMessages]
           /\ operation \in [FsHosts -> Operations]
           /\ 0 \in 0..MaxFsMessages /\ FsMessages \subseteq 0..MaxFsMessages
BY FsQueueBounds DEF FsInvariant, FsTypes, FsTypeOK, FsMessages

\* What the three ways an operation moves on do to the operations.
LEMMA OperationGoes ==
    ASSUME FsInvariant, NEW h \in FsHosts, NEW kind \in Kinds, NEW m \in 0..MaxFsMessages,
           operation' = [operation EXCEPT ![h] = Doing(kind, m)]
    PROVE  /\ operation' \in [FsHosts -> Operations]
           /\ operation'[h].kind = kind /\ operation'[h].message = m
           /\ \A g \in FsHosts \ {h} : operation'[g] = operation[g]
BY QueueTypesNow DEF Operations, Doing

\* An operation that ends leaves no operation and a free lock.
LEMMA OperationEnds ==
    ASSUME FsInvariant, NEW h \in FsHosts, Unlocked(h)
    PROVE  /\ operation' \in [FsHosts -> Operations] /\ queueLock' = NoHost
           /\ operation'[h] = Idle /\ operation'[h].kind = "none" /\ operation'[h].message = 0
           /\ \A g \in FsHosts \ {h} : operation'[g] = operation[g]
           /\ OperationLocked(h)' /\ OperationShape(h)'
<1>1. /\ operation' \in [FsHosts -> Operations] /\ queueLock' = NoHost
      /\ operation'[h] = Idle
      /\ \A g \in FsHosts \ {h} : operation'[g] = operation[g]
  BY QueueTypesNow DEF Unlocked, Operations, Kinds, Idle
<1>2. operation'[h].kind = "none" /\ operation'[h].message = 0
  BY <1>1 DEF Idle
<1>3. OperationLocked(h)'
  BY <1>1, <1>2 DEF OperationLocked
<1> QED
  BY <1>1, <1>2, <1>3, IdleShape

\* The copies after an operation, from those of the messages it is about.
LEMMA CopiesAfter ==
    ASSUME FsInvariant, NEW h \in FsHosts, fsCrashes' = fsCrashes,
           \A g \in FsHosts \ {h} : operation[g] = Idle /\ operation'[g] = operation[g],
           NEW old \in 0..MaxFsMessages, old = operation[h].message,
           NEW new \in 0..MaxFsMessages, new = operation'[h].message,
           \A x \in FsMessages : x # old /\ x # new => files'[x] = files[x],
           fsCrashes = 0 =>
               /\ old # new /\ old \in FsMessages => Single(old)'
               /\ Reviving(h)' => files'[new] = {"leased", "active"}
               /\ operation'[h].kind = "claim" => files'[new] = {"leased"}
               /\ operation'[h].kind = "settle" =>
                      \E d \in {"done", "active", "dead"} : files'[new] = {"leased", d}
    PROVE  CopiesHold'
<1> SUFFICES ASSUME fsCrashes = 0 PROVE CopiesExact'
  BY DEF CopiesHold
<1>1. CopiesExact
  BY DEF FsInvariant, CopiesHold
<1>2. ASSUME NEW x \in FsMessages, \A g \in FsHosts : operation'[g].message # x
      PROVE  Single(x)'
  <2>1. CASE x = old
    BY <1>2, <2>1
  <2>2. CASE x # old
    <3>1. \A g \in FsHosts : operation[g].message # x
      BY <1>2, <2>2
    <3>2. Single(x) /\ files'[x] = files[x]
      BY <1>1, <1>2, <2>2, <3>1 DEF CopiesExact
    <3> QED
      BY <3>2 DEF Single
  <2> QED
    BY <2>1, <2>2
<1>3. ASSUME NEW g \in FsHosts, g # h PROVE operation'[g].kind = "none"
  BY <1>3 DEF Idle
<1>4. ASSUME NEW g \in FsHosts
      PROVE  /\ Reviving(g)' => files'[operation'[g].message] = {"leased", "active"}
             /\ operation'[g].kind = "claim" => files'[operation'[g].message] = {"leased"}
             /\ operation'[g].kind = "settle" =>
                    \E d \in {"done", "active", "dead"} :
                        files'[operation'[g].message] = {"leased", d}
  <2>1. CASE g = h
    BY <2>1
  <2>2. CASE g # h
    BY <1>3, <2>2 DEF Reviving
  <2> QED
    BY <2>1, <2>2
<1> QED
  BY <1>2, <1>4 DEF CopiesExact

\* A message that no operation is about has a single copy, if nothing crashed.
LEMMA SingleNow ==
    ASSUME FsInvariant, NEW h \in FsHosts, fsCrashes = 0,
           \A g \in FsHosts \ {h} : operation[g] = Idle,
           NEW m \in FsMessages, operation[h].message # m
    PROVE  \E d \in Directories : files[m] \subseteq {d}
<1>1. \A g \in FsHosts : operation[g].message # m
  BY DEF Idle, FsMessages
<1> QED
  BY <1>1 DEF FsInvariant, CopiesHold, CopiesExact, Single

\* A message with a copy elsewhere is not among the staged ones.
LEMMA AsideIfOut ==
    ASSUME NEW m \in FsMessages, \A x \in FsMessages \ {m} : files'[x] = files[x],
           NEW d \in files[m], d # "staged", NEW e \in files'[m], e # "staged"
    PROVE  StagedAside
BY DEF StagedAside

\* revive writes the active copy beside the leased one.
LEMMA ReviveWriteKeeps ==
    ASSUME FsInvariant, NEW h \in FsHosts, ReviveWrite(h), UNCHANGED fsRuntimeVars
    PROVE  FsInvariant'
<1> USE DEF FsInvariant
<1>1. PICK kind \in Kinds, m \in FsMessages :
        /\ m \in expired /\ "leased" \in files[m]
        /\ files' = [files EXCEPT ![m] = @ \cup {"active"}]
        /\ operation' = [operation EXCEPT ![h] = Doing(kind, m)]
        /\ kind \in {"revive for lease", "revive for stage"}
        /\ kind = "revive for stage" => operation[h].kind # "lease"
  <2>1. PICK kind : kind = IF operation[h].kind = "lease" THEN "revive for lease"
                           ELSE "revive for stage"
    OBVIOUS
  <2>2. /\ kind \in {"revive for lease", "revive for stage"} /\ kind \in Kinds
        /\ kind = "revive for stage" => operation[h].kind # "lease"
    BY <2>1 DEF Kinds
  <2> QED
    BY <2>1, <2>2, QueueTypesNow DEF ReviveWrite, Expirable, CopiedTo, Continue
<1>2. /\ operation[h].kind \in {"lease", "stage"}
      /\ UNCHANGED <<queueLock, leaseToken, expired, discarded, item, created, fsExpiries>>
  BY DEF ReviveWrite, Continue
<1>3. /\ queueLock = h /\ \A g \in FsHosts \ {h} : operation[g] = Idle
      /\ operation[h].message = 0
  BY <1>2, LockedOthersIdle DEF OperationsHold, OperationShape
<1>4. /\ operation' \in [FsHosts -> Operations]
      /\ operation'[h].kind = kind /\ operation'[h].message = m
      /\ \A g \in FsHosts \ {h} : operation'[g] = operation[g]
  BY <1>1, OperationGoes, QueueTypesNow
<1>5. /\ files' \in [FsMessages -> SUBSET Directories]
      /\ files'[m] = files[m] \cup {"active"}
      /\ \A x \in FsMessages \ {m} : files'[x] = files[x]
  BY <1>1, QueueTypesNow DEF Directories
<1>6. FsTypes'
  BY <1>2, <1>4, <1>5, QueueTypes, QueueTypesNow
<1>7. OperationLocked(h)'
  BY <1>1, <1>2, <1>3, <1>4 DEF OperationLocked
<1>8. OperationShape(h)'
  <2>1. UNCHANGED <<fsPc, stagedNow, fsSnap>>
    BY DEF fsRuntimeVars
  <2>2. operation[h].kind = "stage" => fsPc[h] = "stage" /\ ~AllStaged(h)
    BY DEF OperationsHold, OperationShape, Staging
  <2> QED
    BY <1>1, <1>2, <1>4, <1>5, <2>1, <2>2
       DEF OperationShape, Reviving, Staging, AllStaged, NextEffect
<1>9. CopiesHold'
  <2>1. m # 0 /\ fsCrashes' = fsCrashes
    BY DEF FsMessages, fsRuntimeVars
  <2>2. fsCrashes = 0 => files'[m] = {"leased", "active"}
    BY <1>1, <1>3, <1>5, <2>1, SingleNow
  <2>3. 0 \notin FsMessages
    BY DEF FsMessages
  <2>4. kind \notin {"claim", "settle"}
    BY <1>1
  <2> QED
    BY <1>3, <1>4, <1>5, <2>1, <2>2, <2>3, <2>4, CopiesAfter, QueueTypesNow
<1>10. StagedAside
  BY <1>1, <1>5, AsideIfOut
<1> QED
  BY <1>2, <1>3, <1>4, <1>6, <1>7, <1>8, <1>9, <1>10, QueueStepKeeps

\* revive removes the leased copy; the active one remains.
LEMMA ReviveRemoveKeeps ==
    ASSUME FsInvariant, NEW h \in FsHosts, ReviveRemove(h), UNCHANGED fsRuntimeVars
    PROVE  FsInvariant'
<1> USE DEF FsInvariant
<1>1. PICK m \in FsMessages : m = operation[h].message
  BY DEF ReviveRemove, OperationsHold, OperationShape
<1>2. PICK kind \in Kinds :
        kind = IF operation[h].kind = "revive for lease" THEN "lease" ELSE "stage"
  BY DEF Kinds
<1>3. /\ operation[h].kind \in {"revive for lease", "revive for stage"}
      /\ files' = [files EXCEPT ![m] = @ \ {"leased"}]
      /\ leaseToken' = [leaseToken EXCEPT ![m] = NoHost]
      /\ expired' = expired \ {m}
      /\ operation' = [operation EXCEPT ![h] = Doing(kind, 0)]
      /\ UNCHANGED <<queueLock, discarded, item, created, fsExpiries>>
  BY <1>1, <1>2 DEF ReviveRemove, LeasedCopyRemoved, RemovedFrom, Continue
<1>4. /\ queueLock = h /\ \A g \in FsHosts \ {h} : operation[g] = Idle
      /\ "active" \in files[m]
  BY <1>1, <1>3, LockedOthersIdle DEF OperationsHold, OperationShape, Reviving
<1>5. /\ operation' \in [FsHosts -> Operations]
      /\ operation'[h].kind = kind /\ operation'[h].message = 0
      /\ \A g \in FsHosts \ {h} : operation'[g] = operation[g]
  BY <1>3, OperationGoes, QueueTypesNow
<1>6. /\ files' \in [FsMessages -> SUBSET Directories]
      /\ files'[m] = files[m] \ {"leased"}
      /\ \A x \in FsMessages \ {m} : files'[x] = files[x]
      /\ leaseToken' \in [FsMessages -> FsHosts \cup {NoHost}]
      /\ expired' \subseteq FsMessages
  BY <1>3, QueueTypesNow
<1>7. FsTypes'
  BY <1>3, <1>5, <1>6, QueueTypes, QueueTypesNow
<1>8. OperationLocked(h)'
  BY <1>2, <1>3, <1>4, <1>5 DEF OperationLocked
<1>9. OperationShape(h)'
  <2>1. UNCHANGED <<fsPc, stagedNow, fsSnap>>
    BY DEF fsRuntimeVars
  <2>2. operation[h].kind = "revive for stage" => fsPc[h] = "stage" /\ ~AllStaged(h)
    BY DEF OperationsHold, OperationShape, Staging
  <2> QED
    BY <1>2, <1>3, <1>5, <2>1, <2>2
       DEF OperationShape, Reviving, Staging, AllStaged, NextEffect
<1>10. CopiesHold'
  <2>1. fsCrashes' = fsCrashes
    BY DEF fsRuntimeVars
  <2>2. fsCrashes = 0 => files[m] = {"leased", "active"}
    BY <1>1, <1>3 DEF CopiesHold, CopiesExact, Reviving
  <2>3. fsCrashes = 0 => Single(m)'
    BY <1>6, <2>2 DEF Single, Directories
  <2>4. kind \notin {"revive for lease", "revive for stage", "claim", "settle"}
    BY <1>2
  <2>5. ~Reviving(h)' /\ operation'[h].kind \notin {"claim", "settle"}
    BY <1>5, <2>4 DEF Reviving
  <2> QED
    BY <1>1, <1>4, <1>5, <1>6, <2>1, <2>3, <2>5, CopiesAfter, QueueTypesNow
<1>11. StagedAside
  BY <1>4, <1>6 DEF StagedAside
<1> QED
  BY <1>3, <1>4, <1>5, <1>7, <1>8, <1>9, <1>10, <1>11, QueueStepKeeps

\* An operation that begins, or ends, without a file operation.
LEMMA LeaseBeginKeeps ==
    ASSUME FsInvariant, NEW h \in FsHosts, LeaseBegin(h), UNCHANGED fsRuntimeVars
    PROVE  FsInvariant'
<1> USE DEF FsInvariant
<1>1. /\ queueLock = NoHost /\ queueLock' = h
      /\ operation' = [operation EXCEPT ![h] = Doing("lease", 0)]
      /\ UNCHANGED <<files, leaseToken, expired, discarded, item, created, fsExpiries>>
  BY DEF LeaseBegin, Locked
<1>2. /\ \A g \in FsHosts \ {h} : operation[g] = Idle
      /\ operation[h] = Idle /\ operation[h].kind = "none" /\ operation[h].message = 0
  BY <1>1, OthersIdle, NoHostIsNone DEF LocksHold, OperationLocked, Idle
<1>3. /\ operation' \in [FsHosts -> Operations]
      /\ operation'[h].kind = "lease" /\ operation'[h].message = 0
      /\ \A g \in FsHosts \ {h} : operation'[g] = operation[g]
  BY <1>1, OperationGoes, QueueTypesNow DEF Kinds
<1>4. FsTypes'
  BY <1>1, <1>3, QueueTypes, QueueTypesNow
<1>5. OperationLocked(h)' /\ OperationShape(h)'
  BY <1>1, <1>3 DEF OperationLocked, OperationShape, Reviving, Staging
<1>6. CopiesHold'
  <2>1. fsCrashes' = fsCrashes
    BY DEF fsRuntimeVars
  <2> QED
    BY <1>1, <1>2, <1>3, <2>1, CopiesAfter, QueueTypesNow DEF Reviving
<1>7. StagedAside
  BY <1>1 DEF StagedAside
<1> QED
  BY <1>1, <1>2, <1>3, <1>4, <1>5, <1>6, <1>7, QueueStepKeeps

\* stage takes the lock.
LEMMA StageBeginKeeps ==
    ASSUME FsInvariant, NEW h \in FsHosts, FsStageBegin(h)
    PROVE  FsInvariant'
<1> USE DEF FsInvariant
<1>1. /\ queueLock = NoHost /\ queueLock' = h
      /\ operation' = [operation EXCEPT ![h] = Doing("stage", 0)]
      /\ UNCHANGED <<files, leaseToken, expired, discarded, item, created, fsExpiries>>
      /\ UNCHANGED fsRuntimeVars /\ fsPc[h] = "stage" /\ ~AllStaged(h)
  BY DEF FsStageBegin, StageBegin, Locked
<1>2. /\ \A g \in FsHosts \ {h} : operation[g] = Idle
      /\ operation[h] = Idle /\ operation[h].kind = "none" /\ operation[h].message = 0
  BY <1>1, OthersIdle, NoHostIsNone DEF LocksHold, OperationLocked, Idle
<1>3. /\ operation' \in [FsHosts -> Operations]
      /\ operation'[h].kind = "stage" /\ operation'[h].message = 0
      /\ \A g \in FsHosts \ {h} : operation'[g] = operation[g]
  BY <1>1, OperationGoes, QueueTypesNow DEF Kinds
<1>4. FsTypes'
  BY <1>1, <1>3, QueueTypes, QueueTypesNow
<1>5. OperationLocked(h)' /\ OperationShape(h)'
  <2>1. UNCHANGED <<fsPc, stagedNow, fsSnap>>
    BY <1>1 DEF fsRuntimeVars
  <2> QED
    BY <1>1, <1>3, <2>1
       DEF OperationLocked, OperationShape, Reviving, Staging, AllStaged, NextEffect
<1>6. CopiesHold'
  <2>1. fsCrashes' = fsCrashes
    BY <1>1 DEF fsRuntimeVars
  <2> QED
    BY <1>1, <1>2, <1>3, <2>1, CopiesAfter, QueueTypesNow DEF Reviving
<1>7. StagedAside
  BY <1>1 DEF StagedAside
<1> QED
  BY <1>1, <1>2, <1>3, <1>4, <1>5, <1>6, <1>7, QueueStepKeeps

\* lease finds nothing and gives the lock back.
LEMMA LeaseNothingKeeps ==
    ASSUME FsInvariant, NEW h \in FsHosts, LeaseNothing(h), UNCHANGED fsRuntimeVars
    PROVE  FsInvariant'
<1> USE DEF FsInvariant
<1>1. /\ operation[h].kind = "lease" /\ Unlocked(h)
      /\ UNCHANGED <<files, leaseToken, expired, discarded, item, created, fsExpiries>>
  BY DEF LeaseNothing
<1>2. \A g \in FsHosts \ {h} : operation[g] = Idle
  BY <1>1, LockedOthersIdle
<1>3. FsTypes'
  BY <1>1, OperationEnds, QueueTypes, QueueTypesNow
<1>4. CopiesHold'
  <2>1. fsCrashes' = fsCrashes
    BY DEF fsRuntimeVars
  <2>2. operation[h].message = 0
    BY <1>1 DEF OperationsHold, OperationShape
  <2> QED
    BY <1>1, <1>2, <2>1, <2>2, OperationEnds, CopiesAfter, QueueTypesNow DEF Reviving
<1>5. StagedAside
  BY <1>1 DEF StagedAside
<1> QED
  BY <1>1, <1>2, <1>3, <1>4, <1>5, OperationEnds, QueueStepKeeps

\* lease takes a message no operation is about: its only copy moves.
LEMMA LeaseRenameKeeps ==
    ASSUME FsInvariant, NEW h \in FsHosts, LeaseRename(h), UNCHANGED fsRuntimeVars
    PROVE  FsInvariant'
<1> USE DEF FsInvariant
<1>1. PICK m \in FsMessages :
        /\ "active" \in files[m]
        /\ files' = [files EXCEPT ![m] = (@ \ {"active"}) \cup {"leased"}]
        /\ leaseToken' = [leaseToken EXCEPT ![m] = NoHost]
        /\ expired' = expired \cup {m}
        /\ operation' = [operation EXCEPT ![h] = Doing("claim", m)]
        /\ UNCHANGED queueLock
  BY DEF LeaseRename, Moved, Continue
<1>2. /\ operation[h].kind = "lease"
      /\ UNCHANGED <<discarded, item, created, fsExpiries>>
  BY DEF LeaseRename
<1>3. /\ queueLock = h /\ \A g \in FsHosts \ {h} : operation[g] = Idle
      /\ operation[h].message = 0
  BY <1>2, LockedOthersIdle DEF OperationsHold, OperationShape
<1>4. /\ operation' \in [FsHosts -> Operations]
      /\ operation'[h].kind = "claim" /\ operation'[h].message = m
      /\ \A g \in FsHosts \ {h} : operation'[g] = operation[g]
  BY <1>1, OperationGoes, QueueTypesNow DEF Kinds
<1>5. /\ files' \in [FsMessages -> SUBSET Directories]
      /\ files'[m] = (files[m] \ {"active"}) \cup {"leased"}
      /\ \A x \in FsMessages \ {m} : files'[x] = files[x]
      /\ leaseToken' \in [FsMessages -> FsHosts \cup {NoHost}]
      /\ expired' \subseteq FsMessages
  BY <1>1, QueueTypesNow DEF Directories
<1>6. FsTypes'
  BY <1>1, <1>2, <1>4, <1>5, QueueTypes, QueueTypesNow
<1>7. OperationLocked(h)' /\ OperationShape(h)'
  BY <1>1, <1>3, <1>4, <1>5 DEF OperationLocked, OperationShape, Reviving, Staging
<1>8. CopiesHold'
  <2>1. m # 0 /\ 0 \notin FsMessages /\ fsCrashes' = fsCrashes
    BY DEF FsMessages, fsRuntimeVars
  <2>2. fsCrashes = 0 => files'[m] = {"leased"}
    BY <1>1, <1>3, <1>5, <2>1, SingleNow
  <2> QED
    <3>1. ~Reviving(h)' /\ operation'[h].kind # "settle"
      BY <1>4 DEF Reviving
    <3> HIDE DEF FsInvariant
    <3> QED
      BY <1>3, <1>4, <1>5, <2>1, <2>2, <3>1, CopiesAfter, QueueTypesNow
<1>9. StagedAside
  BY <1>1, <1>5, AsideIfOut
<1> QED
  BY <1>2, <1>3, <1>4, <1>6, <1>7, <1>8, <1>9, QueueStepKeeps

\* lease writes its token into the leased copy.
LEMMA LeaseClaimKeeps ==
    ASSUME FsInvariant, NEW h \in FsHosts, LeaseClaim(h), UNCHANGED fsRuntimeVars
    PROVE  FsInvariant'
<1> USE DEF FsInvariant
<1>1. PICK m \in FsMessages : m = operation[h].message
  BY DEF LeaseClaim, OperationsHold, OperationShape
<1>2. /\ operation[h].kind = "claim" /\ Unlocked(h)
      /\ leaseToken' = [leaseToken EXCEPT ![m] = h]
      /\ expired' = expired \ {m}
      /\ item' = [item EXCEPT ![h] = m]
      /\ UNCHANGED <<files, discarded, created, fsExpiries>>
  BY <1>1 DEF LeaseClaim
<1>3. \A g \in FsHosts \ {h} : operation[g] = Idle
  BY <1>2, LockedOthersIdle
<1>4. FsTypes'
  <2>1. /\ leaseToken' \in [FsMessages -> FsHosts \cup {NoHost}] /\ expired' \subseteq FsMessages
        /\ item' \in [FsHosts -> 0..MaxFsMessages]
    BY <1>2, QueueTypesNow
  <2> QED
    BY <1>2, <2>1, OperationEnds, QueueTypes, QueueTypesNow
<1>5. CopiesHold'
  <2>1. fsCrashes' = fsCrashes
    BY DEF fsRuntimeVars
  <2>2. fsCrashes = 0 => files[m] = {"leased"}
    BY <1>1, <1>2 DEF CopiesHold, CopiesExact
  <2>3. fsCrashes = 0 => Single(m)'
    BY <1>2, <2>2 DEF Single, Directories
  <2> QED
    BY <1>1, <1>2, <1>3, <2>1, <2>3, OperationEnds, CopiesAfter, QueueTypesNow DEF Reviving
<1>6. StagedAside
  BY <1>2 DEF StagedAside
<1> QED
  BY <1>2, <1>3, <1>4, <1>5, <1>6, OperationEnds, QueueStepKeeps

\* ack and nack write the copy beside the leased one.
LEMMA SettleWriteKeeps ==
    ASSUME FsInvariant, NEW h \in FsHosts, SettleWrite(h), UNCHANGED fsRuntimeVars
    PROVE  FsInvariant'
<1> USE DEF FsInvariant
<1>1. PICK m \in FsMessages : m = item[h]
  <2>1. item[h] \in 0..MaxFsMessages /\ item[h] # 0
    BY QueueTypesNow DEF SettleWrite
  <2> QED
    BY <2>1, FsQueueBounds DEF FsMessages
<1>2. PICK target \in {"done", "active", "dead"} :
        files' = [files EXCEPT ![m] = @ \cup {target}]
  BY <1>1 DEF SettleWrite, CopiedTo
<1>3. /\ "leased" \in files[m] /\ operation[h] = Idle
      /\ queueLock = NoHost /\ queueLock' = h
      /\ operation' = [operation EXCEPT ![h] = Doing("settle", m)]
      /\ UNCHANGED <<leaseToken, expired, discarded, item, created, fsExpiries>>
  BY <1>1 DEF SettleWrite, TokenMatches, Locked
<1>4. /\ \A g \in FsHosts \ {h} : operation[g] = Idle
      /\ operation[h].message = 0 /\ operation[h].kind = "none"
  BY <1>3, OthersIdle DEF Idle
<1>5. /\ operation' \in [FsHosts -> Operations]
      /\ operation'[h].kind = "settle" /\ operation'[h].message = m
      /\ \A g \in FsHosts \ {h} : operation'[g] = operation[g]
  BY <1>3, OperationGoes, QueueTypesNow DEF Kinds
<1>6. /\ files' \in [FsMessages -> SUBSET Directories]
      /\ files'[m] = files[m] \cup {target}
      /\ \A x \in FsMessages \ {m} : files'[x] = files[x]
  BY <1>2, QueueTypesNow DEF Directories
<1>7. FsTypes'
  BY <1>3, <1>5, <1>6, QueueTypes, QueueTypesNow
<1>8. OperationLocked(h)' /\ OperationShape(h)'
  BY <1>3, <1>5, <1>6 DEF OperationLocked, OperationShape, Reviving, Staging
<1>9. CopiesHold'
  <2>1. m # 0 /\ 0 \notin FsMessages /\ fsCrashes' = fsCrashes
    BY DEF FsMessages, fsRuntimeVars
  <2>2. fsCrashes = 0 => files'[m] = {"leased", target}
    BY <1>3, <1>4, <1>6, <2>1, SingleNow
  <2>3. ~Reviving(h)' /\ operation'[h].kind # "claim"
    BY <1>5 DEF Reviving
  <2> HIDE DEF FsInvariant
  <2> QED
    BY <1>4, <1>5, <1>6, <2>1, <2>2, <2>3, CopiesAfter, QueueTypesNow
<1>10. StagedAside
  BY <1>3, <1>6, AsideIfOut
<1> QED
  BY <1>3, <1>4, <1>5, <1>7, <1>8, <1>9, <1>10, QueueStepKeeps

\* ack and nack remove the leased copy.
LEMMA SettleRemoveKeeps ==
    ASSUME FsInvariant, NEW h \in FsHosts, SettleRemove(h), UNCHANGED fsRuntimeVars
    PROVE  FsInvariant'
<1> USE DEF FsInvariant
<1>1. PICK m \in FsMessages : m = operation[h].message
  BY DEF SettleRemove, OperationsHold, OperationShape
<1>2. /\ operation[h].kind = "settle" /\ Unlocked(h)
      /\ files' = [files EXCEPT ![m] = @ \ {"leased"}]
      /\ leaseToken' = [leaseToken EXCEPT ![m] = NoHost]
      /\ expired' = expired \ {m}
      /\ item' = [item EXCEPT ![h] = 0]
      /\ UNCHANGED <<discarded, created, fsExpiries>>
  BY <1>1 DEF SettleRemove, SettledCopyRemoved, LeasedCopyRemoved, RemovedFrom
<1>3. \A g \in FsHosts \ {h} : operation[g] = Idle
  BY <1>2, LockedOthersIdle
<1>4. files[m] \cap {"done", "active", "dead"} # {}
  BY <1>1, <1>2 DEF OperationsHold, OperationShape
<1>5. /\ files' \in [FsMessages -> SUBSET Directories]
      /\ files'[m] = files[m] \ {"leased"}
      /\ \A x \in FsMessages \ {m} : files'[x] = files[x]
      /\ leaseToken' \in [FsMessages -> FsHosts \cup {NoHost}]
      /\ expired' \subseteq FsMessages /\ item' \in [FsHosts -> 0..MaxFsMessages]
  BY <1>2, QueueTypesNow
<1>6. FsTypes'
  BY <1>2, <1>5, OperationEnds, QueueTypes
<1>7. CopiesHold'
  <2>1. fsCrashes' = fsCrashes /\ 0 \notin FsMessages
    BY DEF fsRuntimeVars, FsMessages
  <2>2. fsCrashes = 0 => \E d \in {"done", "active", "dead"} : files[m] = {"leased", d}
    BY <1>1, <1>2 DEF CopiesHold, CopiesExact
  <2>3. fsCrashes = 0 => Single(m)'
    BY <1>5, <2>2 DEF Single, Directories
  <2>4. ~Reviving(h)' /\ operation'[h].kind \notin {"claim", "settle"}
    BY <1>2, OperationEnds DEF Reviving
  <2> HIDE DEF FsInvariant
  <2> QED
    BY <1>1, <1>2, <1>3, <1>5, <2>1, <2>3, <2>4, OperationEnds, CopiesAfter, QueueTypesNow
<1>8. StagedAside
  <2>1. PICK d \in {"done", "active", "dead"} : d \in files[m]
    BY <1>4
  <2> QED
    BY <1>5, <2>1, AsideIfOut
<1> QED
  BY <1>2, <1>3, <1>6, <1>7, <1>8, OperationEnds, QueueStepKeeps

\* ack and nack that fail touch no file.
LEMMA SettleFailsKeeps ==
    ASSUME FsInvariant, NEW h \in FsHosts, SettleFails(h), UNCHANGED fsRuntimeVars
    PROVE  FsInvariant'
<1> USE DEF FsInvariant
<1>1. UNCHANGED <<files, leaseToken, expired, discarded, queueLock, operation, created,
                  fsEntries, fsState, fsWakeVars, relayLock, held, fsPc, fsSnap,
                  stagedNow, origin, fsFaultVars>>
  BY DEF SettleFails, fsRuntimeVars, fsWakeVars, fsFaultVars
<1>2. item' \in [FsHosts -> 0..MaxFsMessages]
  BY QueueTypesNow DEF SettleFails
<1>3. /\ queueLock' \in FsHosts \cup {NoHost} /\ relayLock' \in FsHosts \cup {NoHost}
      /\ expired' \subseteq FsMessages
      /\ leaseToken' \in [FsMessages -> FsHosts \cup {NoHost}]
  BY <1>1 DEF FsTypes, FsTypeOK
<1>4. LocksHold'
  BY <1>1 DEF LocksHold, OperationLocked, TokenLocked
<1> QED
  BY <1>1, <1>2, <1>3, <1>4, LockStepKeeps

\* The lane as a whole.
LEMMA FsLaneKeeps ==
    ASSUME FsInvariant, NEW h \in FsHosts, FsLane(h) PROVE FsInvariant'
<1>1. UNCHANGED fsRuntimeVars
  BY DEF FsLane
<1>2. CASE LeaseBegin(h)
  BY <1>1, <1>2, LeaseBeginKeeps
<1>3. CASE QueueStep(h)
  BY <1>1, <1>3, ReviveWriteKeeps, ReviveRemoveKeeps, LeaseRenameKeeps, LeaseClaimKeeps,
     LeaseNothingKeeps, SettleWriteKeeps, SettleRemoveKeeps, SettleFailsKeeps DEF QueueStep
<1> QED
  BY <1>2, <1>3 DEF FsLane

-------------------------------------------------------------------------------
(***************************************************************************)
(* Promotion and discard of the first message a commit has staged.         *)
(***************************************************************************)
LEMMA FirstStepKeeps ==
    ASSUME FsInvariant, NEW h \in FsHosts, stagedNow[h] # <<>>, Committing(h),
           NEW m \in FsMessages, m = Head(stagedNow[h]),
           UNCHANGED <<fsPc, fsSnap, fsState, fsEntries, fsWakeVars, relayLock, held, origin,
                       created, fsFaultVars, leaseToken, expired, item>>,
           \A g \in FsHosts \ {h} :
               /\ operation[g] = Idle /\ operation'[g] = operation[g]
               /\ stagedNow'[g] = stagedNow[g],
           \A x \in FsMessages \ {m} :
               files'[x] = files[x] /\ (x \in discarded' <=> x \in discarded),
           files' \in [FsMessages -> SUBSET Directories], discarded' \subseteq FsMessages,
           stagedNow' \in [FsHosts -> Seq(FsMessages)], operation' \in [FsHosts -> Operations],
           queueLock' \in FsHosts \cup {NoHost},
           OperationLocked(h)', OperationShape(h)', CopiesHold', UntouchedStaged(h)',
           StagedApart', CommitShape(h)', FoldsOnce',
           \A x \in FsMessages : Out(x) => Out(x)',
           \A e \in Nat : OnItsWay(e) => Covered(e)'
    PROVE  FsInvariant'
<1> USE DEF FsInvariant
<1>1. UNCHANGED <<fsRequested, fsProcessed, fsNews, appending, fsCrashes, overrun, unpromoted>>
  BY WakesUnmoved
<1>2. FsTypes'
  <2>1. FsTypeOK'
    BY <1>1 DEF FsTypes, FsTypeOK
  <2> QED
    BY <1>1, <2>1 DEF FsTypes
<1>3. LocksHold'
  <2>1. \A g \in FsHosts \ {h} : OperationLocked(g)'
    BY DEF OperationLocked, Idle
  <2>2. \A g \in FsHosts : TokenLocked(g)'
    BY DEF LocksHold, TokenLocked
  <2> QED
    BY <2>1, <2>2 DEF LocksHold
<1>4. OperationsHold'
  BY IdleShape DEF OperationsHold
<1>5. 1 \in 1..Len(stagedNow[h]) /\ m = stagedNow[h][1] /\ m \in 1..created
  <2>1. stagedNow[h] \in Seq(FsMessages)
    BY HostTypes
  <2>2. 1 \in 1..Len(stagedNow[h]) /\ m = stagedNow[h][1]
    BY <2>1, TailPlaces
  <2> QED
    BY <2>2 DEF StagedHold, UntouchedStaged
<1>6. StagedHold'
  <2>1. ASSUME NEW g \in FsHosts, g # h PROVE UntouchedStaged(g)'
    <3>1. operation[g].kind = "none"
      BY <2>1 DEF Idle
    <3>2. \A i \in 1..Len(stagedNow[g]) :
            /\ stagedNow[g][i] \in 1..created /\ stagedNow[g][i] \in FsMessages
            /\ files[stagedNow[g][i]] = {"staged"} /\ stagedNow[g][i] \notin discarded
      <4>1. stagedNow[g] \in Seq(FsMessages) /\ UntouchedStaged(g)
        BY HostTypes DEF StagedHold
      <4> HIDE DEF FsInvariant
      <4>2. \A i \in 1..Len(stagedNow[g]) : stagedNow[g][i] \in FsMessages
        BY <4>1, ElementOfSeq
      <4> QED
        BY <3>1, <4>1, <4>2 DEF UntouchedStaged
    <3>3. \A i \in 1..Len(stagedNow[g]) : stagedNow[g][i] # m
      <4>1. StagedApart
        BY DEF StagedHold
      <4> HIDE DEF FsInvariant
      <4> QED
        BY <1>5, <2>1, <4>1 DEF StagedApart
    <3>4. \A i \in 1..Len(stagedNow[g]) :
            files'[stagedNow[g][i]] = {"staged"} /\ stagedNow[g][i] \notin discarded'
      BY <3>2, <3>3
    <3>5. ~Committing(g)' => stagedNow'[g] = <<>>
      BY <2>1 DEF StagedHold, UntouchedStaged, Committing
    <3> QED
      BY <2>1, <3>2, <3>4, <3>5 DEF UntouchedStaged
  <2>2. NotCreated'
    <3>1. \A x \in FsMessages : x > created => x # m
      BY <1>5, HostTypes
    <3> HIDE DEF FsInvariant
    <3>2. NotCreated
      BY DEF FsInvariant, StagedHold
    <3> QED
      BY <3>1, <3>2 DEF NotCreated
  <2> QED
    BY <2>1, <2>2 DEF StagedHold
<1>7. CommitsHold'
  <2>1. \A g \in FsHosts \ {h} : CommitShape(g)'
    BY CommitKept DEF CommitsHold
  <2> QED
    BY <2>1 DEF CommitsHold
<1>8. \A e \in Nat : Covered(e) => Covered(e)'
  BY <1>1 DEF Covered
<1>9. FoldedCovered'
  <2>1. fsState.cursor \in Nat /\ \A g \in FsHosts : fsSnap[g].cursor \in Nat
    BY HostTypes
  <2>2. FoldedCovered
    OBVIOUS
  <2> HIDE DEF FsInvariant
  <2>3. /\ \A e \in 1..fsState.cursor : e \in Nat
        /\ \A g \in FsHosts : \A e \in 1..fsSnap[g].cursor : e \in Nat
    BY <2>1
  <2>4. \A e \in 1..fsState.cursor : Covered(e)'
    BY <1>8, <2>2, <2>3 DEF FoldedCovered
  <2>5. \A g \in FsHosts : fsPc[g] \in {"run", "stage"} =>
          \A e \in 1..fsSnap[g].cursor : Covered(e)'
    BY <1>8, <2>2, <2>3 DEF FoldedCovered
  <2> QED
    BY <2>4, <2>5 DEF FoldedCovered
<1>10. WakesHold' /\ FsWakeKept'
  <2>1. UNCHANGED <<fsCrashes, overrun, fsRequested, fsNews, appending>>
    BY <1>1
  <2>2. WakesHold'
    <3>1. \A g \in FsHosts : WakeRead(g) => WakeRead(g)'
      BY <2>1, WakeReadKept
    <3> QED
      BY <2>1, <3>1 DEF WakesHold
  <2>3. FsWakeKept'
    BY <1>1, <2>1 DEF FsWakeKept
  <2> QED
    BY <2>2, <2>3
<1> QED
  BY <1>2, <1>3, <1>4, <1>6, <1>7, <1>9, <1>10

\* A writer that has not lost its lease is alone in its commit.
LEMMA AloneInCommit ==
    ASSUME FsInvariant, ~overrun, NEW h \in FsHosts, fsPc[h] \in {"stage", "promote"}
    PROVE  h \in held /\ \A g \in FsHosts \ {h} : fsPc[g] \notin {"stage", "promote"}
BY DEF FsInvariant, FoldsOnce, WriterAlone, LocksHold, TokenLocked

\* What a commit about to promote knows of the messages it has staged.
LEMMA PromotionFacts ==
    ASSUME FsInvariant, NEW h \in FsHosts, fsPc[h] = "promote", stagedNow[h] # <<>>
    PROVE  \E m \in FsMessages :
               /\ m = Head(stagedNow[h]) /\ m = stagedNow[h][1] /\ m \in 1..created
               /\ 1 \in 1..Len(stagedNow[h])
               /\ origin[m] = fsSnap[h].end - Len(stagedNow[h]) + 1
               /\ origin[m] \in Nat /\ origin[m] <= fsSnap[h].end
               /\ \A i \in 1..Len(stagedNow[h]) :
                      origin[stagedNow[h][i]] = origin[m] => i = 1
<1> USE DEF FsInvariant
<1>1. stagedNow[h] \in Seq(FsMessages) /\ Len(stagedNow[h]) \in Nat /\ fsSnap[h].end \in Nat
      /\ fsSnap[h].cursor \in Nat
  BY HostTypes
<1>2. PICK m \in FsMessages : m = Head(stagedNow[h])
  BY <1>1, TailPlaces
<1>3. m = stagedNow[h][1] /\ 1 \in 1..Len(stagedNow[h])
  BY <1>1, <1>2, TailPlaces
<1>4. m \in 1..created
  BY <1>3 DEF StagedHold, UntouchedStaged
<1>5. /\ \A i \in 1..Len(stagedNow[h]) :
            origin[stagedNow[h][i]] = fsSnap[h].end - Len(stagedNow[h]) + i
      /\ fsSnap[h].cursor + Len(stagedNow[h]) <= fsSnap[h].end
  BY DEF CommitsHold, CommitShape
<1>6. origin[m] = fsSnap[h].end - Len(stagedNow[h]) + 1
  BY <1>3, <1>5
<1>7. origin[m] \in Nat /\ origin[m] <= fsSnap[h].end
  BY <1>1, <1>3, <1>5, <1>6
<1>8. \A i \in 1..Len(stagedNow[h]) : origin[stagedNow[h][i]] = origin[m] => i = 1
  BY <1>1, <1>5, <1>6
<1> QED
  BY <1>2, <1>3, <1>4, <1>6, <1>7, <1>8

\* The first message is only staged until its operation begins.
LEMMA FirstUntouched ==
    ASSUME FsInvariant, NEW h \in FsHosts, stagedNow[h] # <<>>, operation[h] = Idle
    PROVE  /\ Head(stagedNow[h]) \in FsMessages /\ Head(stagedNow[h]) \in 1..created
           /\ files[Head(stagedNow[h])] = {"staged"} /\ Head(stagedNow[h]) \notin discarded
<1>1. operation[h].kind \notin {"promote", "discard"}
  BY DEF Idle
<1>2. /\ 1 \in 1..Len(stagedNow[h]) /\ Head(stagedNow[h]) = stagedNow[h][1]
      /\ Head(stagedNow[h]) \in FsMessages
  BY HostTypes, TailPlaces
<1>3. UntouchedStaged(h)
  BY DEF FsInvariant, StagedHold
<1>4. \A i \in 1..Len(stagedNow[h]) :
          /\ stagedNow[h][i] \in 1..created
          /\ files[stagedNow[h][i]] = {"staged"} /\ stagedNow[h][i] \notin discarded
  BY <1>1, <1>3 DEF UntouchedStaged
<1> QED
  BY <1>2, <1>4

\* Promotion writes the active copy: the entry now has its one message out.
LEMMA PromoteWriteKeeps ==
    ASSUME FsInvariant, NEW h \in FsHosts, FsPromoteWrite(h) PROVE FsInvariant'
<1> USE DEF FsInvariant
<1>1. fsPc[h] = "promote" /\ operation[h] = Idle /\ stagedNow[h] # <<>> /\ Committing(h)
  <2>1. Len(stagedNow[h]) # 0
    BY DEF FsPromoteWrite, PromoteFirst
  <2> QED
    BY <2>1, EmptySeq DEF FsPromoteWrite, Committing
<1>2. PICK m \in FsMessages :
        /\ m = Head(stagedNow[h]) /\ m = stagedNow[h][1] /\ m \in 1..created
        /\ 1 \in 1..Len(stagedNow[h])
        /\ origin[m] \in Nat /\ origin[m] <= fsSnap[h].end
        /\ \A i \in 1..Len(stagedNow[h]) : origin[stagedNow[h][i]] = origin[m] => i = 1
  BY <1>1, PromotionFacts
<1>3. /\ queueLock = NoHost /\ queueLock' = h
      /\ operation' = [operation EXCEPT ![h] = Doing("promote", m)]
      /\ files' = [files EXCEPT ![m] = @ \cup {"active"}]
      /\ UNCHANGED <<leaseToken, expired, discarded, item, created, fsExpiries>>
      /\ UNCHANGED fsRuntimeVars
  BY <1>2 DEF FsPromoteWrite, PromoteFirst, PromoteWrite, Locked, CopiedTo
<1>4. UNCHANGED <<fsPc, fsSnap, fsState, fsEntries, fsWakeVars, relayLock, held, origin,
                  stagedNow, fsFaultVars, fsCrashes, overrun, unpromoted>>
  BY <1>3 DEF fsRuntimeVars, fsWakeVars, fsFaultVars
<1>5. /\ \A g \in FsHosts \ {h} : operation[g] = Idle
      /\ operation[h].kind = "none" /\ operation[h].message = 0
  BY <1>1, <1>3, OthersIdle DEF Idle
<1>6. /\ operation' \in [FsHosts -> Operations]
      /\ operation'[h].kind = "promote" /\ operation'[h].message = m
      /\ \A g \in FsHosts \ {h} : operation'[g] = operation[g]
  BY <1>3, OperationGoes, QueueTypesNow DEF Kinds
<1>7. files[m] = {"staged"} /\ m \notin discarded
  BY <1>1, <1>2, FirstUntouched
<1>8. /\ files' \in [FsMessages -> SUBSET Directories]
      /\ files'[m] = {"staged", "active"}
      /\ \A x \in FsMessages \ {m} : files'[x] = files[x]
  BY <1>3, <1>7, QueueTypesNow DEF Directories
<1>9. OperationLocked(h)' /\ OperationShape(h)'
  BY <1>1, <1>2, <1>3, <1>4, <1>6, <1>7, <1>8
     DEF OperationLocked, OperationShape, Reviving, Staging
<1>10. CopiesHold'
  <2>1. ~Reviving(h)' /\ operation'[h].kind \notin {"claim", "settle"} /\ 0 \notin FsMessages
    BY <1>6 DEF Reviving, FsMessages
  <2> HIDE DEF FsInvariant
  <2> QED
    BY <1>4, <1>5, <1>6, <1>8, <2>1, CopiesAfter, QueueTypesNow
<1>11. UntouchedStaged(h)'
  <2>1. ASSUME NEW i \in 1..Len(stagedNow[h]), i # 1
        PROVE  /\ stagedNow[h][i] \in 1..created
               /\ files'[stagedNow[h][i]] = {"staged"} /\ stagedNow[h][i] \notin discarded
    <3>1. stagedNow[h][i] # m /\ stagedNow[h][i] \in FsMessages
      BY <1>2, <2>1, HostTypes, ElementOfSeq DEF StagedHold, StagedApart
    <3>2. /\ stagedNow[h][i] \in 1..created
          /\ files[stagedNow[h][i]] = {"staged"} /\ stagedNow[h][i] \notin discarded
      BY <2>1 DEF StagedHold, UntouchedStaged
    <3> QED
      BY <1>8, <3>1, <3>2
  <2> QED
    BY <1>1, <1>2, <1>3, <1>4, <1>6, <2>1 DEF UntouchedStaged, Committing
<1>12. StagedApart' /\ CommitShape(h)'
  BY <1>4, CommitKept DEF StagedHold, StagedApart, CommitsHold
<1>13. /\ \A x \in FsMessages \ {m} : Out(x)' <=> Out(x)
       /\ Out(m)'
  BY <1>2, <1>3, <1>7, <1>8 DEF Out
<1>14. FoldsOnce'
  <2> SUFFICES ASSUME ~overrun PROVE (\A g \in FsHosts : WriterAlone(g)') /\ OutOnce'
    BY <1>4 DEF FoldsOnce
  <2>1. /\ fsSnap[h].end = fsState.cursor
        /\ \A i \in 1..Len(stagedNow[h]), x \in FsMessages :
               Out(x) /\ origin[x] = origin[stagedNow[h][i]] => x = stagedNow[h][i]
    BY <1>1 DEF FoldsOnce, WriterAlone
  <2>2. \A x \in FsMessages : Out(x) /\ origin[x] = origin[m] => x = m
    BY <1>2, <2>1
  <2>3. OutOnce'
    <3>1. \A x \in FsMessages : Out(x)' => origin[x] <= fsState.cursor
      BY <1>2, <1>13, <2>1 DEF FoldsOnce, OutOnce
    <3>2. \A x, y \in FsMessages : Out(x)' /\ Out(y)' /\ origin[x] = origin[y] => x = y
      BY <1>13, <2>2 DEF FoldsOnce, OutOnce
    <3> QED
      BY <1>4, <3>1, <3>2 DEF OutOnce
  <2>4. WriterAlone(h)'
    <3>1. \A i \in 1..Len(stagedNow[h]), x \in FsMessages :
               Out(x)' /\ origin[x] = origin[stagedNow[h][i]] => x = stagedNow[h][i]
      BY <1>2, <1>13, <2>1
    <3>2. WriterAlone(h)
      BY DEF FoldsOnce
    <3> QED
      BY <1>1, <1>4, <3>1, <3>2 DEF WriterAlone
  <2>5. \A g \in FsHosts \ {h} : WriterAlone(g)'
    <3>1. \A g \in FsHosts \ {h} : fsPc[g] \notin {"stage", "promote"} /\ WriterAlone(g)
      BY <1>1, AloneInCommit DEF FoldsOnce
    <3> QED
      BY <1>4, <3>1 DEF WriterAlone
  <2> QED
    BY <2>3, <2>4, <2>5
<1>15. \A e \in Nat : OnItsWay(e) => Covered(e)'
  BY <1>4, OnItsWayKept
<1>16. /\ \A x \in FsMessages : Out(x) => Out(x)'
       /\ \A x \in FsMessages \ {m} : x \in discarded' <=> x \in discarded
       /\ stagedNow' \in [FsHosts -> Seq(FsMessages)] /\ discarded' \subseteq FsMessages
       /\ queueLock' \in FsHosts \cup {NoHost}
  BY <1>3, <1>4, <1>13, QueueTypesNow DEF FsTypes
<1> HIDE DEF FsInvariant
<1> QED
  BY <1>1, <1>2, <1>3, <1>4, <1>5, <1>6, <1>8, <1>9, <1>10, <1>11, <1>12, <1>14, <1>15, <1>16,
     FirstStepKeeps

\* Dropping the first of n staged messages moves the others one place down.
LEMMA ShiftedPlace ==
    ASSUME NEW e \in Int, NEW n \in Int, NEW k \in Int, NEW i \in Int, k = n - 1
    PROVE  e - n + (i + 1) = e - k + i
OBVIOUS

\* Promotion removes the staged copy.
LEMMA PromoteRemoveKeeps ==
    ASSUME FsInvariant, NEW h \in FsHosts, FsPromoteRemove(h) PROVE FsInvariant'
<1> USE DEF FsInvariant
<1>1. operation[h].kind = "promote"
  BY DEF FsPromoteRemove, StagedRemove
<1>2. /\ fsPc[h] = "promote" /\ stagedNow[h] # <<>> /\ Committing(h)
      /\ operation[h].message = Head(stagedNow[h])
      /\ files[operation[h].message] = {"staged", "active"}
      /\ operation[h].message \notin discarded
  BY <1>1 DEF OperationsHold, OperationShape, Committing
<1>3. PICK m \in FsMessages :
        /\ m = Head(stagedNow[h]) /\ m = stagedNow[h][1] /\ m \in 1..created
        /\ 1 \in 1..Len(stagedNow[h])
        /\ origin[m] = fsSnap[h].end - Len(stagedNow[h]) + 1
  BY <1>2, PromotionFacts
<1>4. /\ Unlocked(h) /\ files' = [files EXCEPT ![m] = @ \ {"staged"}]
      /\ stagedNow' = [stagedNow EXCEPT ![h] = Tail(@)]
      /\ UNCHANGED <<leaseToken, expired, discarded, item, created, fsExpiries>>
      /\ UNCHANGED <<fsEntries, fsState, fsWakeVars, relayLock, held, fsPc, fsSnap,
                     origin, fsFaultVars>>
  BY <1>2, <1>3 DEF FsPromoteRemove, StagedRemove, RemovedFrom
<1>5. UNCHANGED <<fsCrashes, overrun, unpromoted>>
  BY <1>4 DEF fsFaultVars
<1>6. /\ \A g \in FsHosts \ {h} : operation[g] = Idle
      /\ \A g \in FsHosts \ {h} : operation'[g] = operation[g]
  BY <1>1, <1>4, LockedOthersIdle, OperationEnds
<1>7. /\ files' \in [FsMessages -> SUBSET Directories]
      /\ files'[m] = {"active"}
      /\ \A x \in FsMessages \ {m} : files'[x] = files[x]
  BY <1>2, <1>3, <1>4, QueueTypesNow DEF Directories
<1>8. CopiesHold'
  <2>1. /\ ~Reviving(h)' /\ operation'[h].kind \notin {"claim", "settle"}
        /\ operation'[h].message = 0
    BY <1>4, OperationEnds DEF Reviving
  <2>2. Single(m)'
    BY <1>7 DEF Single, Directories
  <2> HIDE DEF FsInvariant
  <2> QED
    BY <1>2, <1>3, <1>5, <1>6, <1>7, <2>1, <2>2, CopiesAfter, QueueTypesNow
<1>9. UntouchedStaged(h)' /\ StagedApart'
  BY <1>2, <1>3, <1>4, <1>7, FirstDropped, DroppedUntouched DEF Committing
<1>10. /\ \A i \in 1..Len(stagedNow'[h]) : /\ stagedNow'[h][i] = stagedNow[h][i + 1]
                                           /\ i + 1 \in 1..Len(stagedNow[h])
       /\ Len(stagedNow'[h]) = Len(stagedNow[h]) - 1
       /\ Len(stagedNow[h]) \in Nat /\ fsSnap[h].end \in Nat /\ fsSnap[h].cursor \in Nat
       /\ \A g \in FsHosts \ {h} : stagedNow'[g] = stagedNow[g]
       /\ stagedNow' \in [FsHosts -> Seq(FsMessages)]
  <2>1. /\ stagedNow[h] \in Seq(FsMessages) /\ Len(stagedNow[h]) \in Nat
        /\ fsSnap[h].end \in Nat /\ fsSnap[h].cursor \in Nat
    BY HostTypes
  <2>2. /\ stagedNow' \in [FsHosts -> Seq(FsMessages)]
        /\ stagedNow'[h] = Tail(stagedNow[h])
        /\ \A g \in FsHosts \ {h} : stagedNow'[g] = stagedNow[g]
    BY <1>2, <1>4, FirstDropped
  <2> HIDE DEF FsInvariant
  <2>3. /\ Len(Tail(stagedNow[h])) = Len(stagedNow[h]) - 1
        /\ \A i \in 1..Len(Tail(stagedNow[h])) :
               Tail(stagedNow[h])[i] = stagedNow[h][i + 1] /\ i + 1 \in 1..Len(stagedNow[h])
    BY <1>2, <2>1, TailPlaces
  <2> QED
    BY <2>1, <2>2, <2>3
<1>11. CommitShape(h)'
  <2>1. /\ fsSnap[h].cursor <= fsSnap[h].end /\ fsSnap[h].end <= fsEntries
        /\ fsSnap[h].cursor + Len(stagedNow[h]) <= fsSnap[h].end
        /\ \A i \in 1..Len(stagedNow[h]) :
               origin[stagedNow[h][i]] = fsSnap[h].end - Len(stagedNow[h]) + i
    BY <1>2 DEF CommitsHold, CommitShape
  <2>2. fsSnap[h].cursor + Len(stagedNow'[h]) <= fsSnap[h].end
    BY <1>10, <2>1
  <2>3. ASSUME NEW i \in 1..Len(stagedNow'[h])
        PROVE  origin[stagedNow'[h][i]] = fsSnap[h].end - Len(stagedNow'[h]) + i
    <3>1. origin[stagedNow[h][i + 1]] = fsSnap[h].end - Len(stagedNow[h]) + (i + 1)
      BY <1>10, <2>1, <2>3
    <3>2. fsSnap[h].end - Len(stagedNow[h]) + (i + 1) = fsSnap[h].end - Len(stagedNow'[h]) + i
      <4> HIDE DEF FsInvariant
      <4>1. /\ fsSnap[h].end \in Nat /\ Len(stagedNow[h]) \in Nat
            /\ Len(stagedNow'[h]) = Len(stagedNow[h]) - 1
        BY <1>10, Zenon
      <4>2. /\ fsSnap[h].end \in Int /\ Len(stagedNow[h]) \in Int
            /\ Len(stagedNow'[h]) \in Int
        BY <4>1
      <4>3. i \in Int
        BY <2>3, <4>2
      <4> QED
        BY <4>1, <4>2, <4>3, ShiftedPlace, SMTT(30)
    <3> QED
      BY <1>10, <2>3, <3>1, <3>2
  <2> QED
    BY <1>2, <1>4, <2>1, <2>2, <2>3 DEF CommitShape
<1>12. \A x \in FsMessages : Out(x)' <=> Out(x)
  <2>1. Out(m)' /\ Out(m)
    BY <1>2, <1>3, <1>4, <1>7, ZenonT(40) DEF Out
  <2> QED
    BY <1>4, <1>7, <2>1 DEF Out
<1>13. FoldsOnce'
  <2> SUFFICES ASSUME ~overrun PROVE (\A g \in FsHosts : WriterAlone(g)') /\ OutOnce'
    BY <1>5 DEF FoldsOnce
  <2>1. OutOnce'
    BY <1>4, <1>12 DEF FoldsOnce, OutOnce
  <2>2. WriterAlone(h)'
    <3>1. WriterAlone(h)
      BY DEF FoldsOnce
    <3>2. ASSUME NEW i \in 1..Len(stagedNow'[h]), NEW x \in FsMessages,
                 Out(x)', origin[x] = origin[stagedNow'[h][i]]
          PROVE  x = stagedNow'[h][i]
      <4>1. \A k \in 1..Len(stagedNow[h]) :
                origin[x] = origin[stagedNow[h][k]] => x = stagedNow[h][k]
        BY <1>2, <1>12, <3>1, <3>2 DEF WriterAlone
      <4>2. stagedNow'[h][i] = stagedNow[h][i + 1] /\ i + 1 \in 1..Len(stagedNow[h])
        BY <1>10, <3>2
      <4> QED
        BY <3>2, <4>1, <4>2
    <3> QED
      BY <1>2, <1>4, <3>1, <3>2 DEF WriterAlone
  <2>3. \A g \in FsHosts \ {h} : WriterAlone(g)'
    BY <1>4, <1>10, <1>12, WriterKept DEF FoldsOnce
  <2> QED
    BY <2>1, <2>2, <2>3
<1>14. ASSUME NEW e \in Nat, OnItsWay(e) PROVE Covered(e)'
  <2>0. PICK g \in FsHosts :
            fsPc[g] = "promote" /\ \E i \in 1..Len(stagedNow[g]) : origin[stagedNow[g][i]] = e
    BY <1>14 DEF OnItsWay
  <2>1. PICK i \in 1..Len(stagedNow[g]) : fsPc[g] = "promote" /\ origin[stagedNow[g][i]] = e
    BY <2>0
  <2>2. CASE g # h
    <3>1. OnItsWay(e)'
      BY <1>4, <1>10, <2>1, <2>2 DEF OnItsWay
    <3> QED
      BY <3>1 DEF Covered
  <2>3. CASE g = h /\ i = 1
    <3>1. Out(m)' /\ origin'[m] = e
      BY <1>2, <1>3, <1>4, <1>7, <2>1, <2>3, ZenonT(40) DEF Out
    <3> QED
      BY <3>1 DEF Covered
  <2>4. CASE g = h /\ i # 1
    <3>1. PICK j \in 1..Len(stagedNow'[h]) : j = i - 1
      BY <1>10, <2>4
    <3>2. origin[stagedNow'[h][j]] = e
      <4>1. j + 1 = i
        BY <1>10, <3>1, <2>4
      <4> QED
        BY <1>10, <2>1, <2>4, <4>1
    <3>3. OnItsWay(e)'
      BY <1>2, <1>4, <3>2 DEF OnItsWay
    <3> QED
      BY <3>3 DEF Covered
  <2> QED
    BY <2>2, <2>3, <2>4
<1>15. /\ \A x \in FsMessages : Out(x) => Out(x)'
       /\ \A x \in FsMessages \ {m} : x \in discarded' <=> x \in discarded
       /\ discarded' \subseteq FsMessages /\ queueLock' \in FsHosts \cup {NoHost}
       /\ OperationLocked(h)' /\ OperationShape(h)' /\ operation' \in [FsHosts -> Operations]
  BY <1>4, <1>12, OperationEnds, QueueTypesNow
<1> HIDE DEF FsInvariant
<1> QED
  BY <1>2, <1>3, <1>4, <1>6, <1>7, <1>8, <1>9, <1>10, <1>11, <1>13, <1>14, <1>15,
     FirstStepKeeps, SMTT(30)

\* A discard writes the dead copy of a message that is nobody's any more.
LEMMA DiscardWriteKeeps ==
    ASSUME FsInvariant, NEW h \in FsHosts, FsDiscardWrite(h) PROVE FsInvariant'
<1> USE DEF FsInvariant
<1>1. fsPc[h] = "discard" /\ operation[h] = Idle /\ stagedNow[h] # <<>> /\ Committing(h)
  BY DEF FsDiscardWrite, Committing
<1>2. PICK m \in FsMessages : m = Head(stagedNow[h])
  BY <1>1, FirstUntouched
<1>3. /\ m \in 1..created /\ files[m] = {"staged"} /\ m \notin discarded
      /\ m = stagedNow[h][1] /\ 1 \in 1..Len(stagedNow[h])
  BY <1>1, <1>2, FirstUntouched, HostTypes, TailPlaces
<1>4. /\ queueLock = NoHost /\ queueLock' = h
      /\ operation' = [operation EXCEPT ![h] = Doing("discard", m)]
      /\ files' = [files EXCEPT ![m] = @ \cup {"dead"}]
      /\ discarded' = discarded \cup {m}
      /\ UNCHANGED <<leaseToken, expired, item, created, fsExpiries>>
      /\ UNCHANGED fsRuntimeVars
  BY <1>2 DEF FsDiscardWrite, DiscardWrite, Locked, CopiedTo
<1>5. UNCHANGED <<fsPc, fsSnap, fsState, fsEntries, fsWakeVars, relayLock, held, origin,
                  stagedNow, fsFaultVars, fsCrashes, overrun, unpromoted>>
  BY <1>4 DEF fsRuntimeVars, fsWakeVars, fsFaultVars
<1>6. /\ \A g \in FsHosts \ {h} : operation[g] = Idle
      /\ operation[h].kind = "none" /\ operation[h].message = 0
  BY <1>1, <1>4, OthersIdle DEF Idle
<1>7. /\ operation' \in [FsHosts -> Operations]
      /\ operation'[h].kind = "discard" /\ operation'[h].message = m
      /\ \A g \in FsHosts \ {h} : operation'[g] = operation[g]
  BY <1>4, OperationGoes, QueueTypesNow DEF Kinds
<1>8. /\ files' \in [FsMessages -> SUBSET Directories]
      /\ files'[m] = {"staged", "dead"} /\ m \in discarded'
      /\ \A x \in FsMessages \ {m} : files'[x] = files[x] /\ (x \in discarded' <=> x \in discarded)
      /\ discarded' \subseteq FsMessages
  BY <1>3, <1>4, QueueTypesNow DEF Directories
<1>9. OperationLocked(h)' /\ OperationShape(h)'
  BY <1>1, <1>2, <1>4, <1>5, <1>7, <1>8
     DEF OperationLocked, OperationShape, Reviving, Staging
<1>10. CopiesHold'
  <2>1. ~Reviving(h)' /\ operation'[h].kind \notin {"claim", "settle"} /\ 0 \notin FsMessages
    BY <1>7 DEF Reviving, FsMessages
  <2> HIDE DEF FsInvariant
  <2> QED
    BY <1>5, <1>6, <1>7, <1>8, <2>1, CopiesAfter, QueueTypesNow
<1>11. UntouchedStaged(h)'
  <2>1. ASSUME NEW i \in 1..Len(stagedNow[h]), i # 1
        PROVE  /\ stagedNow[h][i] \in 1..created
               /\ files'[stagedNow[h][i]] = {"staged"} /\ stagedNow[h][i] \notin discarded'
    <3>1. stagedNow[h][i] # m /\ stagedNow[h][i] \in FsMessages
      BY <1>3, <2>1, HostTypes, ElementOfSeq DEF StagedHold, StagedApart
    <3>2. /\ stagedNow[h][i] \in 1..created
          /\ files[stagedNow[h][i]] = {"staged"} /\ stagedNow[h][i] \notin discarded
      BY <2>1 DEF StagedHold, UntouchedStaged
    <3> QED
      BY <1>8, <3>1, <3>2
  <2> QED
    BY <1>1, <1>3, <1>4, <1>5, <1>7, <2>1 DEF UntouchedStaged, Committing
<1>12. StagedApart' /\ CommitShape(h)'
  BY <1>5, CommitKept DEF StagedHold, StagedApart, CommitsHold
<1>13. \A x \in FsMessages : Out(x)' <=> Out(x)
  <2>1. ~Out(m)' /\ ~Out(m)
    BY <1>3, <1>8 DEF Out
  <2> QED
    BY <1>4, <1>8, <2>1 DEF Out
<1>14. FoldsOnce'
  <2> SUFFICES ASSUME ~overrun PROVE (\A g \in FsHosts : WriterAlone(g)') /\ OutOnce'
    BY <1>5 DEF FoldsOnce
  <2> QED
    BY <1>5, <1>13, WriterKept DEF FoldsOnce, OutOnce
<1>15. \A e \in Nat : OnItsWay(e) => Covered(e)'
  BY <1>5, OnItsWayKept
<1>16. /\ \A x \in FsMessages : Out(x) => Out(x)'
       /\ stagedNow' \in [FsHosts -> Seq(FsMessages)]
       /\ queueLock' \in FsHosts \cup {NoHost}
  BY <1>4, <1>5, <1>13 DEF FsTypes
<1> HIDE DEF FsInvariant
<1> QED
  BY <1>1, <1>2, <1>4, <1>5, <1>6, <1>7, <1>8, <1>9, <1>10, <1>11, <1>12, <1>14, <1>15, <1>16,
     FirstStepKeeps

\* A discard removes the staged copy.
LEMMA DiscardRemoveKeeps ==
    ASSUME FsInvariant, NEW h \in FsHosts, FsDiscardRemove(h) PROVE FsInvariant'
<1> USE DEF FsInvariant
<1>1. operation[h].kind = "discard"
  BY DEF FsDiscardRemove, StagedRemove
<1>2. /\ fsPc[h] = "discard" /\ stagedNow[h] # <<>> /\ Committing(h)
      /\ operation[h].message = Head(stagedNow[h])
      /\ files[operation[h].message] = {"staged", "dead"}
      /\ operation[h].message \in discarded
  BY <1>1 DEF OperationsHold, OperationShape, Committing
<1>3. PICK m \in FsMessages : m = Head(stagedNow[h])
  BY <1>2, HostTypes, TailPlaces
<1>4. /\ Unlocked(h) /\ files' = [files EXCEPT ![m] = @ \ {"staged"}]
      /\ stagedNow' = [stagedNow EXCEPT ![h] = Tail(@)]
      /\ UNCHANGED <<leaseToken, expired, discarded, item, created, fsExpiries>>
      /\ UNCHANGED <<fsEntries, fsState, fsWakeVars, relayLock, held, fsPc, fsSnap,
                     origin, fsFaultVars>>
  BY <1>2, <1>3 DEF FsDiscardRemove, StagedRemove, RemovedFrom
<1>5. UNCHANGED <<fsCrashes, overrun, unpromoted>>
  BY <1>4 DEF fsFaultVars
<1>6. /\ \A g \in FsHosts \ {h} : operation[g] = Idle
      /\ \A g \in FsHosts \ {h} : operation'[g] = operation[g]
  BY <1>1, <1>4, LockedOthersIdle, OperationEnds
<1>7. /\ files' \in [FsMessages -> SUBSET Directories]
      /\ files'[m] = {"dead"} /\ m \in discarded
      /\ \A x \in FsMessages \ {m} : files'[x] = files[x]
  BY <1>2, <1>3, <1>4, QueueTypesNow DEF Directories
<1>8. CopiesHold'
  <2>1. /\ ~Reviving(h)' /\ operation'[h].kind \notin {"claim", "settle"}
        /\ operation'[h].message = 0
    BY <1>4, OperationEnds DEF Reviving
  <2>2. Single(m)'
    BY <1>7 DEF Single, Directories
  <2> HIDE DEF FsInvariant
  <2>3. operation[h].message = m
    BY <1>2, <1>3
  <2>4. m \in 0..MaxFsMessages /\ 0 \in 0..MaxFsMessages
    BY FsQueueBounds DEF FsMessages
  <2>5. \A x \in FsMessages : x # m /\ x # 0 => files'[x] = files[x]
    BY <1>7
  <2> QED
    BY <1>5, <1>6, <2>1, <2>2, <2>3, <2>4, <2>5, CopiesAfter, SMTT(30)
<1>9. UntouchedStaged(h)' /\ StagedApart'
  BY <1>2, <1>3, <1>4, <1>7, FirstDropped, DroppedUntouched DEF Committing
<1>10. /\ \A g \in FsHosts \ {h} : stagedNow'[g] = stagedNow[g]
       /\ stagedNow' \in [FsHosts -> Seq(FsMessages)]
  BY <1>2, <1>4, FirstDropped
<1>11. CommitShape(h)'
  BY <1>2, <1>4 DEF CommitsHold, CommitShape
<1>12. \A x \in FsMessages : Out(x)' <=> Out(x)
  BY <1>4, <1>7 DEF Out
<1>13. FoldsOnce'
  <2> SUFFICES ASSUME ~overrun PROVE (\A g \in FsHosts : WriterAlone(g)') /\ OutOnce'
    BY <1>5 DEF FoldsOnce
  <2>1. OutOnce'
    BY <1>4, <1>12 DEF FoldsOnce, OutOnce
  <2>2. WriterAlone(h)'
    BY <1>2, <1>4 DEF WriterAlone
  <2>3. \A g \in FsHosts \ {h} : WriterAlone(g)'
    BY <1>4, <1>10, <1>12, WriterKept DEF FoldsOnce
  <2> QED
    BY <2>1, <2>2, <2>3
<1>14. \A e \in Nat : OnItsWay(e) => Covered(e)'
  <2>1. \A g \in FsHosts : fsPc[g] = "promote" => fsPc'[g] = "promote" /\ stagedNow'[g] = stagedNow[g]
    BY <1>2, <1>4, <1>10
  <2> QED
    BY <1>4, <2>1, OnItsWayKept
<1>15. /\ \A x \in FsMessages : Out(x) => Out(x)'
       /\ \A x \in FsMessages \ {m} : x \in discarded' <=> x \in discarded
       /\ discarded' \subseteq FsMessages /\ queueLock' \in FsHosts \cup {NoHost}
       /\ OperationLocked(h)' /\ OperationShape(h)' /\ operation' \in [FsHosts -> Operations]
  BY <1>4, <1>12, OperationEnds, QueueTypesNow
<1> HIDE DEF FsInvariant
<1> QED
  BY <1>2, <1>3, <1>4, <1>6, <1>7, <1>8, <1>9, <1>10, <1>11, <1>13, <1>14, <1>15,
     FirstStepKeeps

-------------------------------------------------------------------------------
(***************************************************************************)
(* A message is staged.                                                    *)
(***************************************************************************)
LEMMA AppendPlaces ==
    ASSUME NEW S, NEW s \in Seq(S), NEW x \in S
    PROVE  /\ Append(s, x) \in Seq(S) /\ Len(Append(s, x)) = Len(s) + 1
           /\ \A i \in 1..Len(s) : Append(s, x)[i] = s[i]
           /\ Append(s, x)[Len(s) + 1] = x
BY AppendProperties

\* The new message is for the next entry of the batch.
LEMMA StageWriteKeeps ==
    ASSUME FsInvariant, NEW h \in FsHosts, FsStageWrite(h) PROVE FsInvariant'
<1> USE DEF FsInvariant
<1>1. PICK n \in FsMessages : n = created + 1
  BY HostTypes, FsQueueBounds DEF FsStageWrite, StageWrite, FsMessages
<1>2. PICK e0 \in Nat : e0 = NextEffect(h)
  BY HostTypes DEF NextEffect
<1>3. /\ fsPc[h] = "stage" /\ operation[h].kind = "stage" /\ created' = n
      /\ files' = [files EXCEPT ![n] = @ \cup {"staged"}] /\ Unlocked(h)
      /\ stagedNow' = [stagedNow EXCEPT ![h] = Append(@, n)]
      /\ origin' = Append(origin, e0)
      /\ UNCHANGED <<leaseToken, expired, discarded, item, fsExpiries>>
      /\ UNCHANGED <<fsEntries, fsState, fsWakeVars, relayLock, held, fsPc, fsSnap,
                     fsFaultVars>>
  BY <1>1, <1>2 DEF FsStageWrite, StageWrite, CopiedTo
<1>4. UNCHANGED <<fsRequested, fsProcessed, fsNews, appending, fsCrashes, overrun, unpromoted>>
  BY <1>3, WakesUnmoved
<1>5. /\ \A g \in FsHosts \ {h} : operation[g] = Idle
      /\ operation[h].message = 0 /\ ~AllStaged(h)
  BY <1>3, LockedOthersIdle DEF OperationsHold, OperationShape, Staging
<1>6. /\ operation' \in [FsHosts -> Operations] /\ queueLock' = NoHost
      /\ \A g \in FsHosts : operation'[g] = Idle
  BY <1>3, <1>5, OperationEnds
<1>7. /\ created \in Nat /\ n = created + 1 /\ n \notin 1..created
      /\ \A m \in 1..created : m # n /\ m \in 1..n
      /\ \A m \in FsMessages : m # n => (m \in 1..n <=> m \in 1..created)
      /\ \A m \in FsMessages : m > n => m > created
      /\ n > created
  BY <1>1, HostTypes DEF FsMessages
<1>8. files[n] = {} /\ n \notin discarded
  BY <1>1, <1>7 DEF StagedHold, NotCreated
<1>9. /\ files' \in [FsMessages -> SUBSET Directories]
      /\ files'[n] = {"staged"}
      /\ \A x \in FsMessages \ {n} : files'[x] = files[x]
  BY <1>3, <1>8, QueueTypesNow DEF Directories
<1>10. /\ origin \in Seq(Nat) /\ Len(origin) = created
       /\ origin' \in Seq(Nat) /\ Len(origin') = n
       /\ \A m \in 1..created : origin'[m] = origin[m]
       /\ origin'[n] = e0
  BY <1>1, <1>3, AppendPlaces, SMTT(30) DEF FsTypes, FsTypeOK
<1>0. PICK L \in Nat : L = Len(stagedNow[h])
  BY HostTypes
<1>11. /\ stagedNow' \in [FsHosts -> Seq(FsMessages)]
       /\ \A g \in FsHosts \ {h} : stagedNow'[g] = stagedNow[g]
       /\ Len(stagedNow'[h]) = L + 1
       /\ \A i \in 1..L : stagedNow'[h][i] = stagedNow[h][i]
       /\ stagedNow'[h][L + 1] = n
  <2>1. stagedNow \in [FsHosts -> Seq(FsMessages)] /\ stagedNow[h] \in Seq(FsMessages)
    BY HostTypes DEF FsTypes
  <2>2. stagedNow'[h] = Append(stagedNow[h], n)
    BY <1>3, <2>1
  <2>3. Append(stagedNow[h], n) \in Seq(FsMessages)
    BY <2>1, AppendPlaces
  <2> HIDE DEF FsInvariant
  <2>4. /\ stagedNow' \in [FsHosts -> Seq(FsMessages)]
        /\ \A g \in FsHosts \ {h} : stagedNow'[g] = stagedNow[g]
    BY <1>3, <2>1, <2>3
  <2>5. /\ Len(stagedNow'[h]) = L + 1
        /\ \A i \in 1..L : stagedNow'[h][i] = stagedNow[h][i]
        /\ stagedNow'[h][L + 1] = n
    BY <1>0, <2>1, <2>2, AppendPlaces
  <2> QED
    BY <2>4, <2>5
\* What was staged before is as it was.
<1>12. \A g \in FsHosts : \A i \in 1..Len(stagedNow[g]) :
          /\ stagedNow[g][i] \in 1..created /\ stagedNow[g][i] \in FsMessages
          /\ stagedNow[g][i] # n
          /\ files'[stagedNow[g][i]] = {"staged"} /\ stagedNow[g][i] \notin discarded
          /\ origin'[stagedNow[g][i]] = origin[stagedNow[g][i]]
  <2> SUFFICES ASSUME NEW g \in FsHosts, NEW i \in 1..Len(stagedNow[g])
               PROVE  /\ stagedNow[g][i] \in 1..created /\ stagedNow[g][i] \in FsMessages
                      /\ stagedNow[g][i] # n
                      /\ files'[stagedNow[g][i]] = {"staged"} /\ stagedNow[g][i] \notin discarded
                      /\ origin'[stagedNow[g][i]] = origin[stagedNow[g][i]]
    OBVIOUS
  <2>1. operation[g].kind \notin {"promote", "discard"}
    BY <1>3, <1>5 DEF Idle
  <2>2. /\ stagedNow[g][i] \in 1..created
        /\ files[stagedNow[g][i]] = {"staged"} /\ stagedNow[g][i] \notin discarded
    BY <2>1 DEF StagedHold, UntouchedStaged
  <2>3. stagedNow[g][i] \in FsMessages
    BY HostTypes, ElementOfSeq
  <2> HIDE DEF FsInvariant
  <2> QED
    BY <1>7, <1>9, <1>10, <2>2, <2>3
<1>24. \A g \in FsHosts : \A i \in 1..Len(stagedNow'[g]) :
           \/ g = h /\ i = L + 1 /\ stagedNow'[g][i] = n
           \/ i \in 1..Len(stagedNow[g]) /\ stagedNow'[g][i] = stagedNow[g][i]
  <2> SUFFICES ASSUME NEW g \in FsHosts, NEW i \in 1..Len(stagedNow'[g])
               PROVE  \/ g = h /\ i = L + 1 /\ stagedNow'[g][i] = n
                      \/ i \in 1..Len(stagedNow[g]) /\ stagedNow'[g][i] = stagedNow[g][i]
    OBVIOUS
  <2> HIDE DEF FsInvariant
  <2>1. CASE g # h
    BY <1>11, <2>1
  <2>2. CASE g = h
    <3>1. i \in 1..(L + 1)
      BY <1>11, <2>2
    <3>2. i = L + 1 \/ i \in 1..L
      BY <3>1
    <3> QED
      BY <1>0, <1>11, <2>2, <3>2
  <2> QED
    BY <2>1, <2>2
<1>13. FsTypes'
  <2>1. created' \in 0..MaxFsMessages
    BY <1>1, <1>3, FsQueueBounds DEF FsMessages
  <2>2. Len(origin') = created'
    BY <1>3, <1>10
  <2>3. /\ files' \in [FsMessages -> SUBSET Directories]
        /\ leaseToken' \in [FsMessages -> FsHosts \cup {NoHost}]
        /\ expired' \subseteq FsMessages /\ discarded' \subseteq FsMessages
        /\ queueLock' \in FsHosts \cup {NoHost} /\ item' \in [FsHosts -> 0..MaxFsMessages]
    BY <1>3, <1>6, <1>9, QueueTypesNow
  <2>4. FsTypeOK'
    BY <1>3, <1>4, <2>1, <2>2, <2>3 DEF FsTypes, FsTypeOK
  <2> QED
    BY <1>3, <1>4, <1>6, <1>10, <1>11, <2>4 DEF FsTypes
<1>14. LocksHold'
  BY <1>3, <1>6 DEF LocksHold, OperationLocked, TokenLocked, Idle
<1>15. OperationsHold'
  BY <1>6, IdleShape DEF OperationsHold
<1>16. CopiesHold'
  <2> SUFFICES ASSUME fsCrashes = 0 PROVE CopiesExact'
    BY <1>4 DEF CopiesHold
  <2>1. \A g \in FsHosts : operation'[g].kind = "none"
    BY <1>6 DEF Idle
  <2>2. ASSUME NEW x \in FsMessages PROVE Single(x)'
    <3>1. CASE x = n
      BY <1>9, <3>1 DEF Single, Directories
    <3>2. CASE x # n
      <4>1. \E d \in Directories : files[x] \subseteq {d}
        BY <1>5, SingleNow DEF FsMessages
      <4> QED
        BY <1>9, <3>2, <4>1 DEF Single
    <3> QED
      BY <3>1, <3>2
  <2> QED
    BY <2>1, <2>2 DEF CopiesExact, Reviving
<1>17. StagedHold'
  <2>1. ASSUME NEW g \in FsHosts PROVE UntouchedStaged(g)'
    <3>1. ~Committing(g)' => stagedNow'[g] = <<>>
      BY <1>3, <1>11 DEF StagedHold, UntouchedStaged, Committing
    <3> HIDE DEF FsInvariant
    <3>2. ASSUME NEW i \in 1..Len(stagedNow'[g])
          PROVE  /\ stagedNow'[g][i] \in 1..n
                 /\ files'[stagedNow'[g][i]] = {"staged"} /\ stagedNow'[g][i] \notin discarded
      <4>1. CASE stagedNow'[g][i] = n
        <5>1. n \in 1..n
          BY <1>7
        <5> QED
          BY <1>8, <1>9, <4>1, <5>1
      <4>2. CASE i \in 1..Len(stagedNow[g]) /\ stagedNow'[g][i] = stagedNow[g][i]
        BY <1>7, <1>12, <4>2, ZenonT(40)
      <4> QED
        BY <1>24, <4>1, <4>2
    <3> QED
      BY <1>3, <3>1, <3>2 DEF UntouchedStaged
  <2>3. StagedApart'
    <3> SUFFICES ASSUME NEW f \in FsHosts, NEW g \in FsHosts,
                        NEW i \in 1..Len(stagedNow'[f]), NEW j \in 1..Len(stagedNow'[g]),
                        stagedNow'[f][i] = stagedNow'[g][j]
                 PROVE  f = g /\ i = j
      BY DEF StagedApart
    <3>1. StagedApart
      BY DEF StagedHold
    <3> HIDE DEF FsInvariant
    <3>2. CASE f = h /\ i = L + 1 /\ stagedNow'[f][i] = n
      <4>1. ~(j \in 1..Len(stagedNow[g]) /\ stagedNow'[g][j] = stagedNow[g][j])
        BY <1>12, <3>2
      <4>2. g = h /\ j = L + 1
        BY <1>24, <4>1
      <4> QED
        BY <3>2, <4>2
    <3>3. CASE i \in 1..Len(stagedNow[f]) /\ stagedNow'[f][i] = stagedNow[f][i]
      <4>1. stagedNow'[g][j] # n
        BY <1>12, <3>3
      <4>2. j \in 1..Len(stagedNow[g]) /\ stagedNow'[g][j] = stagedNow[g][j]
        BY <1>24, <4>1
      <4>3. stagedNow[f][i] = stagedNow[g][j]
        BY <3>3, <4>2
      <4>4. i \in 1..Len(stagedNow[f]) /\ j \in 1..Len(stagedNow[g])
        BY <3>3, <4>2
      <4> QED
        BY ONLY <3>1, <4>3, <4>4 DEF StagedApart
    <3> QED
      BY <1>24, <3>2, <3>3
  <2>4. NotCreated'
    <3>1. \A m \in FsMessages : m > n => m > created /\ m # n
      BY <1>1, <1>7 DEF FsMessages
    <3>2. NotCreated
      BY DEF StagedHold
    <3> HIDE DEF FsInvariant
    <3> QED
      BY <1>3, <1>9, <3>1, <3>2 DEF NotCreated
  <2> QED
    BY <2>1, <2>3, <2>4 DEF StagedHold
<1>18. CommitsHold'
  <2>1. ASSUME NEW g \in FsHosts, g # h PROVE CommitShape(g)'
    <3>1. CommitShape(g)
      BY DEF CommitsHold
    <3> HIDE DEF FsInvariant
    <3> QED
      BY <1>3, <1>11, <1>12, <2>1, <3>1, ZenonT(40) DEF CommitShape
  <2>2. CommitShape(h)'
    <3>1. /\ fsSnap[h].cursor <= fsSnap[h].end /\ fsSnap[h].end <= fsEntries
          /\ \A i \in 1..L : origin[stagedNow[h][i]] = fsSnap[h].cursor + i
      BY <1>0, <1>3 DEF CommitsHold, CommitShape
    <3>2. /\ fsSnap[h].cursor \in Nat /\ fsSnap[h].end \in Nat
          /\ e0 = fsSnap[h].cursor + L + 1 /\ e0 <= fsSnap[h].end
      BY <1>0, <1>2, <1>5, HostTypes DEF NextEffect, AllStaged
    <3> HIDE DEF FsInvariant
    <3>3. ASSUME NEW i \in 1..(L + 1)
          PROVE  origin'[stagedNow'[h][i]] = fsSnap[h].cursor + i
      <4>1. CASE i = L + 1
        <5>1. origin'[stagedNow'[h][i]] = e0
          BY <1>10, <1>11, <4>1
        <5> QED
          BY <3>2, <4>1, <5>1
      <4>2. CASE i # L + 1
        <5>1. i \in 1..L
          BY <4>2
        <5>2. stagedNow'[h][i] = stagedNow[h][i] /\ i \in 1..Len(stagedNow[h])
          BY <1>0, <1>11, <5>1
        <5> QED
          BY <1>12, <3>1, <5>1, <5>2
      <4> QED
        BY <4>1, <4>2
    <3>4. fsSnap[h].cursor + (L + 1) <= fsSnap[h].end
      BY <3>2
    <3> QED
      BY <1>3, <1>11, <3>1, <3>3, <3>4 DEF CommitShape
  <2> QED
    BY <1>3, <2>1, <2>2 DEF CommitsHold
<1>19. \A x \in FsMessages : /\ Out(x)' <=> Out(x)
                             /\ Out(x) => origin'[x] = origin[x]
  <2>1. ~Out(n)' /\ ~Out(n)
    BY <1>7, <1>9 DEF Out
  <2> HIDE DEF FsInvariant
  <2> QED
    BY <1>3, <1>7, <1>9, <1>10, <2>1 DEF Out
<1>20. FoldsOnce'
  <2> SUFFICES ASSUME ~overrun PROVE (\A g \in FsHosts : WriterAlone(g)') /\ OutOnce'
    BY <1>4 DEF FoldsOnce
  <2>1. OutOnce'
    <3>1. OutOnce
      BY DEF FoldsOnce
    <3> HIDE DEF FsInvariant
    <3> QED
      BY <1>3, <1>19, <3>1 DEF OutOnce
  <2>2. ASSUME NEW g \in FsHosts PROVE WriterAlone(g)'
    <3>1. WriterAlone(g) /\ fsPc[g] # "promote"
      BY <1>3, AloneInCommit DEF FoldsOnce
    <3> HIDE DEF FsInvariant
    <3> QED
      BY <1>3, <3>1 DEF WriterAlone
  <2> QED
    BY <2>1, <2>2
<1>21. ASSUME NEW e, Covered(e) PROVE Covered(e)'
  <2>1. CASE e \in unpromoted
    BY <1>4, <2>1 DEF Covered
  <2>2. CASE OnItsWay(e)
    <3>1. PICK g \in FsHosts :
            fsPc[g] = "promote" /\ \E i \in 1..Len(stagedNow[g]) : origin[stagedNow[g][i]] = e
      BY <2>2 DEF OnItsWay
    <3>2. g # h
      BY <1>3, <3>1
    <3> HIDE DEF FsInvariant
    <3>3. PICK i \in 1..Len(stagedNow[g]) : origin[stagedNow[g][i]] = e
      BY <3>1
    <3>4. stagedNow'[g] = stagedNow[g] /\ fsPc'[g] = "promote"
      BY <1>3, <1>11, <3>1, <3>2
    <3>5. i \in 1..Len(stagedNow'[g]) /\ origin'[stagedNow'[g][i]] = e
      BY <1>12, <3>3, <3>4
    <3>6. OnItsWay(e)'
      BY <3>4, <3>5 DEF OnItsWay
    <3> QED
      BY <3>6 DEF Covered
  <2>3. CASE \E m \in FsMessages : Out(m) /\ origin[m] = e
    BY <1>19, <2>3 DEF Covered
  <2> QED
    BY <1>21, <2>1, <2>2, <2>3 DEF Covered
<1>22. FoldedCovered'
  BY <1>3, <1>21 DEF FoldedCovered
<1>23. WakesHold' /\ FsWakeKept'
  BY <1>3, <1>4, WakeReadKept, WakeStays DEF WakesHold
<1> QED
  BY <1>13, <1>14, <1>15, <1>16, <1>17, <1>18, <1>20, <1>22, <1>23

-------------------------------------------------------------------------------
(***************************************************************************)
(* A process dies: what it had staged for a state already written is not   *)
(* promoted any more, all else it was doing is as if it had not begun.     *)
(***************************************************************************)
LEMMA FsDiesKeeps ==
    ASSUME FsInvariant, NEW h \in FsHosts, FsDies(h) PROVE FsInvariant'
<1> USE DEF FsInvariant
<1>1. /\ fsCrashes' = fsCrashes + 1
      /\ fsPc' = [fsPc EXCEPT ![h] = "idle"] /\ fsSnap' = [fsSnap EXCEPT ![h] = NoSnap]
      /\ held' = held \ {h}
      /\ stagedNow' = [stagedNow EXCEPT ![h] = <<>>]
      /\ item' = [item EXCEPT ![h] = 0]
      /\ operation' = [operation EXCEPT ![h] = Idle]
      /\ unpromoted' = IF fsPc[h] = "promote"
                       THEN unpromoted \cup {origin[m] : m \in Staged(h)} ELSE unpromoted
      /\ UNCHANGED <<files, leaseToken, expired, discarded, queueLock, created,
                     fsExpiries, fsEntries, fsState, fsWakeVars, relayLock, origin,
                     leaseTimers, overrun>>
  BY DEF FsDies, Return, Goto
<1>2. UNCHANGED <<fsRequested, fsProcessed, fsNews, appending>>
  BY <1>1 DEF fsWakeVars
<1>3. fsCrashes \in Nat /\ fsCrashes' \in Nat /\ fsCrashes' # 0
  BY <1>1 DEF FsTypes
<1>4. /\ fsPc' \in [FsHosts -> FsLabels] /\ fsSnap' \in [FsHosts -> Snaps]
      /\ fsPc'[h] = "idle" /\ fsSnap'[h] = NoSnap
      /\ \A g \in FsHosts \ {h} : fsPc'[g] = fsPc[g] /\ fsSnap'[g] = fsSnap[g]
      /\ NoSnap.wake = 0 /\ NoSnap.cursor = 0 /\ NoSnap.end = 0
  BY <1>1 DEF FsTypes, FsLabels, Snaps, NoSnap
<1>5. /\ stagedNow' \in [FsHosts -> Seq(FsMessages)]
      /\ stagedNow'[h] = <<>> /\ Len(stagedNow'[h]) = 0
      /\ \A g \in FsHosts \ {h} : stagedNow'[g] = stagedNow[g]
  BY <1>1, EmptySeq DEF FsTypes
<1>6. /\ operation' \in [FsHosts -> Operations] /\ operation'[h] = Idle
      /\ \A g \in FsHosts \ {h} : operation'[g] = operation[g]
      /\ item' \in [FsHosts -> 0..MaxFsMessages]
  BY <1>1, QueueTypesNow DEF Operations, Kinds, Idle
<1>7. FsTypes'
  <2>1. held' \subseteq FsHosts
    BY <1>1 DEF FsTypes, FsTypeOK
  <2>2. FsTypeOK'
    BY <1>1, <1>2, <1>6, <2>1 DEF FsTypes, FsTypeOK
  <2> QED
    BY <1>1, <1>2, <1>3, <1>4, <1>5, <1>6, <2>2 DEF FsTypes
<1>8. LocksHold'
  <2>1. \A g \in FsHosts : OperationLocked(g)'
    BY <1>1, <1>6 DEF LocksHold, OperationLocked, Idle
  <2>2. \A g \in FsHosts : TokenLocked(g)'
    BY <1>1 DEF LocksHold, TokenLocked
  <2> QED
    BY <2>1, <2>2 DEF LocksHold
<1>9. OperationsHold'
  <2>1. \A g \in FsHosts \ {h} : OperationShape(g)'
    BY <1>1, <1>4, <1>5, <1>6, OperationKept DEF OperationsHold
  <2>2. OperationShape(h)'
    BY <1>6, IdleShape
  <2> QED
    BY <2>1, <2>2 DEF OperationsHold
<1>10. CopiesHold'
  BY <1>3 DEF CopiesHold
<1>11. StagedHold'
  <2>1. \A g \in FsHosts \ {h} : UntouchedStaged(g)'
    BY <1>1, <1>4, <1>5, <1>6, UntouchedKept DEF StagedHold
  <2>2. UntouchedStaged(h)'
    BY <1>5 DEF UntouchedStaged
  <2>3. StagedApart'
    <3>1. StagedApart
      BY DEF StagedHold
    <3> HIDE DEF FsInvariant
    <3> QED
      BY <1>5, <3>1, SMTT(30) DEF StagedApart
  <2>4. NotCreated'
    BY <1>1 DEF StagedHold, NotCreated
  <2> QED
    BY <2>1, <2>2, <2>3, <2>4 DEF StagedHold
<1>12. CommitsHold'
  <2>1. \A g \in FsHosts \ {h} : CommitShape(g)'
    BY <1>1, <1>4, <1>5, CommitKept DEF CommitsHold
  <2>2. CommitShape(h)'
    BY <1>1, <1>4, HostTypes DEF CommitShape
  <2> QED
    BY <1>1, <2>1, <2>2 DEF CommitsHold
<1>13. \A m \in FsMessages : Out(m)' <=> Out(m)
  BY <1>1 DEF Out
<1>14. FoldsOnce'
  <2> SUFFICES ASSUME ~overrun PROVE (\A g \in FsHosts : WriterAlone(g)') /\ OutOnce'
    BY <1>1 DEF FoldsOnce
  <2>1. OutOnce'
    BY <1>1, <1>13 DEF FoldsOnce, OutOnce
  <2>2. WriterAlone(h)'
    BY <1>4 DEF WriterAlone
  <2>3. \A g \in FsHosts \ {h} : WriterAlone(g)'
    BY <1>1, <1>4, <1>5, <1>13, WriterKept DEF FoldsOnce
  <2> QED
    BY <2>1, <2>2, <2>3
<1>15. ASSUME NEW e, Covered(e) PROVE Covered(e)'
  <2>1. CASE e \in unpromoted
    BY <1>1, <2>1 DEF Covered
  <2>2. CASE OnItsWay(e)
    <3>1. PICK g \in FsHosts :
            fsPc[g] = "promote" /\ \E i \in 1..Len(stagedNow[g]) : origin[stagedNow[g][i]] = e
      BY <2>2 DEF OnItsWay
    <3>2. CASE g = h
      <4>1. e \in unpromoted'
        BY <1>1, <3>1, <3>2 DEF Staged
      <4> QED
        BY <4>1 DEF Covered
    <3>3. CASE g # h
      <4>1. OnItsWay(e)'
        BY <1>1, <1>4, <1>5, <3>1, <3>3 DEF OnItsWay
      <4> QED
        BY <4>1 DEF Covered
    <3> QED
      BY <3>2, <3>3
  <2>3. CASE \E m \in FsMessages : Out(m) /\ origin[m] = e
    BY <1>1, <1>13, <2>3 DEF Covered
  <2> QED
    BY <1>15, <2>1, <2>2, <2>3 DEF Covered
<1>16. FoldedCovered'
  BY <1>1, <1>4, <1>15 DEF FoldedCovered
<1>17. WakesHold' /\ FsWakeKept'
  BY <1>3 DEF WakesHold, FsWakeKept
<1> QED
  BY <1>7, <1>8, <1>9, <1>10, <1>11, <1>12, <1>14, <1>16, <1>17

\* Every step keeps the invariant.
LEMMA FsStep == FsInvariant /\ [FsNext]_fsVars => FsInvariant'
<1> SUFFICES ASSUME FsInvariant, [FsNext]_fsVars PROVE FsInvariant'
  OBVIOUS
<1>1. CASE UNCHANGED fsVars
  <2>1. UNCHANGED <<fsQueueVars, fsRuntimeVars>>
    BY <1>1 DEF fsVars
  <2>2. UNCHANGED <<files, discarded, operation, created, fsEntries, fsState, fsWakeVars,
                    held, fsPc, fsSnap, stagedNow, origin, fsFaultVars, expired, item,
                    leaseToken, queueLock, relayLock>>
    BY <2>1 DEF fsQueueVars, fsRuntimeVars, fsWakeVars, fsFaultVars
  <2>3. /\ queueLock' \in FsHosts \cup {NoHost} /\ relayLock' \in FsHosts \cup {NoHost}
        /\ expired' \subseteq FsMessages /\ item' \in [FsHosts -> 0..MaxFsMessages]
        /\ leaseToken' \in [FsMessages -> FsHosts \cup {NoHost}]
    BY <2>2 DEF FsInvariant, FsTypes, FsTypeOK
  <2>4. LocksHold'
    BY <2>2 DEF FsInvariant, LocksHold, OperationLocked, TokenLocked
  <2> QED
    BY <2>2, <2>3, <2>4, LockStepKeeps
<1>2. CASE FsAppend \/ FsRequest \/ FsAppendDies \/ StaleLocksRemoved
  BY <1>2, FsAppendsKeep, StaleLocksKeep
<1>3. CASE FsItemExpires /\ UNCHANGED fsRuntimeVars
  BY <1>3, FsItemExpiresKeeps
<1>4. ASSUME NEW h \in FsHosts, FsEngine(h) PROVE FsInvariant'
  <2>1. CASE FsReadWake(h) \/ FsLock(h) \/ FsReadState(h) \/ LeaseTimerFires(h) \/ FsCheck(h)
    BY <2>1, FsReadWakeKeeps, FsLockKeeps, FsReadStateKeeps, LeaseTimerKeeps, FsCheckKeeps
  <2>2. CASE FsStageBegin(h) \/ FsStageWrite(h) \/ FsWriteState(h)
    BY <2>2, StageBeginKeeps, StageWriteKeeps, FsWriteStateKeeps
  <2>3. CASE FsPromoteWrite(h) \/ FsPromoteRemove(h) \/ FsCommitted(h) \/ FsMarkProcessed(h)
    BY <2>3, PromoteWriteKeeps, PromoteRemoveKeeps, FsCommittedKeeps, FsMarkKeeps
  <2>4. CASE FsCommitFails(h) \/ FsDiscardWrite(h) \/ FsDiscardRemove(h)
             \/ FsDiscardFails(h) \/ FsCommitThrows(h)
    BY <2>4, FsCommitFailsKeeps, DiscardWriteKeeps, DiscardRemoveKeeps, FsDiscardFailsKeeps,
       FsCommitThrowsKeeps
  <2> QED
    BY <1>4, <2>1, <2>2, <2>3, <2>4 DEF FsEngine
<1>5. ASSUME NEW h \in FsHosts, FsLane(h) \/ FsDies(h) PROVE FsInvariant'
  BY <1>5, FsLaneKeeps, FsDiesKeeps
<1> QED
  BY <1>1, <1>2, <1>3, <1>4, <1>5 DEF FsNext

-------------------------------------------------------------------------------
(***************************************************************************)
(* What the invariant promises.                                            *)
(***************************************************************************)
\* A set whose elements are all equal has one at most.
LEMMA AllEqual ==
    ASSUME NEW S, \A x, y \in S : x = y PROVE Cardinality(S) <= 1
<1>1. CASE S = {}
  BY <1>1, FS_EmptySet
<1>2. CASE S # {}
  <2>1. PICK x : x \in S
    BY <1>2
  <2>2. S = {x}
    BY <2>1
  <2> QED
    BY <2>2, FS_Singleton
<1> QED
  BY <1>1, <1>2

\* A message in one directory at most has one copy at most.
LEMMA OneCopyHolds == FsInvariant => OneCopy
<1> SUFFICES ASSUME FsInvariant, fsCrashes = 0, NEW m \in FsMessages,
                    \A h \in FsHosts : operation[h].message # m
             PROVE  Cardinality(files[m]) <= 1
  BY DEF OneCopy
<1>1. PICK d \in Directories : files[m] \subseteq {d}
  BY DEF FsInvariant, CopiesHold, CopiesExact, Single
<1>2. \A x, y \in files[m] : x = y
  BY <1>1
<1> QED
  BY <1>2, AllEqual

\* Two messages of an entry that are both out of the staged directory are one.
LEMMA QueuedOnceHolds == FsInvariant => QueuedOnce
<1> SUFFICES ASSUME FsInvariant, ~overrun, NEW e \in 1..MaxFsEntries
             PROVE  Cardinality({m \in MessagesOf(e) \ discarded :
                        files[m] \cap {"active", "leased", "done", "dead"} # {}}) <= 1
  BY DEF QueuedOnce
<1> DEFINE Q == {m \in MessagesOf(e) \ discarded :
                    files[m] \cap {"active", "leased", "done", "dead"} # {}}
<1>1. created \in 0..MaxFsMessages
  BY DEF FsInvariant, FsTypes, FsTypeOK
<1>2. 1..created \subseteq FsMessages
  BY <1>1, FsQueueBounds DEF FsMessages
<1>3. \A m \in Q : m \in 1..created /\ origin[m] = e /\ m \notin discarded
  BY DEF MessagesOf
<1>4. \A m \in Q : files[m] \ {"staged"} # {}
  OBVIOUS
<1>5. \A m \in Q : Out(m) /\ m \in FsMessages /\ origin[m] = e
  BY <1>2, <1>3, <1>4 DEF Out
<1>6. OutOnce
  BY DEF FsInvariant, FoldsOnce
<1>7. \A m, n \in Q : m = n
  BY <1>5, <1>6 DEF OutOnce
<1> QED
  BY <1>7, AllEqual

\* A message that is on its way belongs to a commit that is not over.
LEMMA FoldedIsQueuedHolds == FsInvariant => FoldedIsQueued
<1> SUFFICES ASSUME FsInvariant, NEW e \in 1..fsState.cursor
             PROVE  \/ e \in unpromoted
                    \/ \E h \in FsHosts : Committing(h)
                    \/ \E m \in MessagesOf(e) \ discarded : files[m] \ {"staged"} # {}
  BY DEF FoldedIsQueued
<1>1. Covered(e)
  BY DEF FsInvariant, FoldedCovered
<1>2. CASE OnItsWay(e)
  BY <1>2 DEF OnItsWay, Committing
<1>3. CASE \E m \in FsMessages : Out(m) /\ origin[m] = e
  BY <1>3 DEF Out, MessagesOf
<1> QED
  BY <1>1, <1>2, <1>3 DEF Covered

\* The invariant promises what the run checks.
LEMMA FsSafeFromInvariant == ASSUME FsInvariant PROVE FsSafe
BY OneCopyHolds, QueuedOnceHolds, FoldedIsQueuedHolds DEF FsInvariant, FsTypes, FsSafe

(***************************************************************************)
(* An item is taken up by the claim of a leased copy, and without a crash  *)
(* that copy is the only one.                                              *)
(***************************************************************************)
LEMMA DoneFinalStep == FsInvariant /\ [FsNext]_fsVars => DoneIsFinal
<1> SUFFICES ASSUME FsInvariant, [FsNext]_fsVars, fsCrashes = 0,
                    NEW m \in FsMessages, NEW h \in FsHosts,
                    "done" \in files[m], item'[h] = m
             PROVE  item[h] = m
  BY DEF DoneIsFinal
<1>0. m # 0 /\ item \in [FsHosts -> 0..MaxFsMessages]
  BY FsQueueBounds DEF FsInvariant, FsTypes, FsTypeOK, FsMessages
<1>1. CASE item' = item
  BY <1>1
<1>2. ASSUME NEW g \in FsHosts, item' = [item EXCEPT ![g] = 0] PROVE item[h] = m
  BY <1>0, <1>2
<1>3. ASSUME NEW g \in FsHosts, LeaseClaim(g) PROVE item[h] = m
  <2>1. operation[g].kind = "claim" /\ item' = [item EXCEPT ![g] = operation[g].message]
    BY <1>3 DEF LeaseClaim
  <2>2. files[operation[g].message] = {"leased"}
    BY <2>1 DEF FsInvariant, CopiesHold, CopiesExact
  <2>3. operation[g].message # m
    BY <2>2
  <2> QED
    BY <1>0, <2>1, <2>3
<1>4. ASSUME NEW g \in FsHosts, QueueStep(g) PROVE item[h] = m
  <2>1. \/ item' = item \/ item' = [item EXCEPT ![g] = 0] \/ LeaseClaim(g)
    BY <1>4 DEF QueueStep, ReviveWrite, ReviveRemove, LeaseRename, LeaseNothing, SettleWrite,
       SettleRemove, SettleFails
  <2> QED
    BY <1>1, <1>2, <1>3, <2>1
<1>5. ASSUME NEW g \in FsHosts, FsEngine(g) PROVE item' = item
  BY <1>5 DEF FsEngine, FsReadWake, FsLock, FsReadState, LeaseTimerFires, FsCheck, FsStageBegin,
     StageBegin, FsStageWrite, StageWrite, FsWriteState, FsPromoteWrite, PromoteWrite,
     FsPromoteRemove, FsCommitted, FsMarkProcessed, FsCommitFails, FsDiscardWrite, DiscardWrite,
     FsDiscardRemove, StagedRemove, FsDiscardFails, FsCommitThrows, fsQueueVars
<1>6. ASSUME NEW g \in FsHosts, FsLane(g) PROVE item[h] = m
  BY <1>1, <1>4, <1>6 DEF FsLane, LeaseBegin
<1>7. ASSUME NEW g \in FsHosts, FsDies(g) PROVE item[h] = m
  BY <1>2, <1>7 DEF FsDies
<1>8. CASE \/ FsAppend \/ FsRequest \/ FsAppendDies \/ StaleLocksRemoved
           \/ FsFault /\ FsItemExpires /\ UNCHANGED fsRuntimeVars
           \/ UNCHANGED fsVars
  BY <1>1, <1>8 DEF FsAppend, FsRequest, FsAppendDies, StaleLocksRemoved, FsItemExpires,
     fsVars, fsQueueVars
<1> QED
  BY <1>1, <1>5, <1>6, <1>7, <1>8 DEF FsNext

-------------------------------------------------------------------------------
(***************************************************************************)
(* Whether or not two wake requests may share a file time, a message is in *)
(* one place, no effect is queued twice unless a commit outlived its       *)
(* lease, and what was folded is queued once its commit is over or has     *)
(* broken off (commit, filesystem/runtime.ts).                             *)
(***************************************************************************)
THEOREM FilesystemFoldsOnce ==
    FsSpec => [](FsTypeOK /\ OneCopy /\ QueuedOnce /\ FoldedIsQueued)
<1>1. FsInvariant => FsTypeOK /\ OneCopy /\ QueuedOnce /\ FoldedIsQueued
  BY OneCopyHolds, QueuedOnceHolds, FoldedIsQueuedHolds DEF FsInvariant, FsTypes
<1> QED
  BY <1>1, FsInitial, FsStep, PTL DEF FsSpec
===============================================================================
