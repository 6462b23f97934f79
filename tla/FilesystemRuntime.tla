--------------------------- MODULE FilesystemRuntime ---------------------------
(***************************************************************************)
(* createFilesystemDurableStorage: journal, wake markers, state file and   *)
(* effect queue of one runtime in a directory, shared by processes.  A     *)
(* transition is leased by holding a lock file, and a timer gives the lock *)
(* up when the lease ends, whatever its holder is doing.  A commit stages  *)
(* the effects, writes the state file, then promotes the effects.          *)
(*                                                                         *)
(* Every journal entry emits one effect, named by the entry; the messages  *)
(* staged for it are fresh each time.  The state file is its cursor and    *)
(* its revision.                                                           *)
(***************************************************************************)
EXTENDS FilesystemQueue

CONSTANTS
    MaxFsEntries,   \* bound: journal entries
    MaxFsWrites,    \* bound: writes of the state file
    MaxFsFaults,    \* bound: crashes, lease timers and item leases that run out
    FsClock         \* what the processes' clocks may show: milliseconds, in no order

ASSUME FsRuntimeBounds ==
    /\ MaxFsEntries \in Nat /\ MaxFsWrites \in Nat /\ MaxFsFaults \in Nat
    /\ FsClock \subseteq Nat \ {0}

VARIABLES
    fsEntries,   \* length of the journal
    fsState,     \* the state file: cursor, revision
    fsRequested, \* file time of the requested marker, 0 for no marker
    fsProcessed, \* file time of the processed marker
    fsNews,      \* history: the last request was news to the marker and to every run
    appending,   \* appends between their journal write and their wake request
    relayLock,   \* the host that holds .relay-lock
    held,        \* hosts whose token is in transitionTokens
    fsPc,        \* where a host's engine run is
    fsSnap,      \* what it read: cursor, revision, end of the batch, wake
    stagedNow,   \* the messages it staged, in order
    origin,      \* for every message, its entry
    fsCrashes, leaseTimers,
    overrun,     \* a lease timer fired inside a commit
    unpromoted   \* entries whose commit failed or died after the state write

fsRuntimeVars == <<fsEntries, fsState, fsRequested, fsProcessed, fsNews, appending,
                   relayLock, held, fsPc, fsSnap, stagedNow, origin, fsCrashes,
                   leaseTimers, overrun, unpromoted>>
fsVars == <<fsQueueVars, fsRuntimeVars>>
fsTransitionVars == <<relayLock, held, fsPc, fsSnap, stagedNow, origin>>
fsWakeVars == <<fsRequested, fsProcessed, fsNews, appending>>
fsFaultVars == <<fsCrashes, leaseTimers, overrun, unpromoted>>

NoSnap == [cursor |-> 0, revision |-> 0, end |-> 0, wake |-> 0]

FsInit ==
    /\ FsQueueInit
    /\ fsEntries = 0 /\ fsState = [cursor |-> 0, revision |-> 0]
    /\ fsRequested = 0 /\ fsProcessed = 0 /\ fsNews = TRUE /\ appending = 0
    /\ relayLock = NoHost /\ held = {}
    /\ fsPc = [h \in FsHosts |-> "idle"]
    /\ fsSnap = [h \in FsHosts |-> NoSnap]
    /\ stagedNow = [h \in FsHosts |-> <<>>]
    /\ origin = <<>>
    /\ fsCrashes = 0 /\ leaseTimers = 0 /\ overrun = FALSE /\ unpromoted = {}

FsFault == fsCrashes + leaseTimers + fsExpiries < MaxFsFaults

Goto(h, label) == fsPc' = [fsPc EXCEPT ![h] = label]
\* An engine run returns, or throws.
Return(h) == Goto(h, "idle") /\ fsSnap' = [fsSnap EXCEPT ![h] = NoSnap]

-------------------------------------------------------------------------------
(***************************************************************************)
(* appendJournalAndWake: a line is appended, then the marker is touched.   *)
(***************************************************************************)
FsAppend ==
    /\ fsEntries < MaxFsEntries
    /\ fsEntries' = fsEntries + 1
    /\ appending' = appending + 1
    /\ UNCHANGED <<fsQueueVars, fsState, fsRequested, fsProcessed, fsNews,
                   fsTransitionVars, fsFaultVars>>

\* A run that captured this time marks it as processed.
IsNews(now) == fsProcessed < now /\ \A h \in FsHosts : fsSnap[h].wake < now

\* The marker takes the time of day, whatever the markers say.
FsRequest ==
    /\ appending > 0
    /\ appending' = appending - 1
    /\ \E now \in FsClock : fsRequested' = now /\ fsNews' = IsNews(now)
    /\ UNCHANGED <<fsQueueVars, fsEntries, fsState, fsProcessed,
                   fsTransitionVars, fsFaultVars>>

FsAppendDies ==
    /\ appending > 0 /\ FsFault
    /\ appending' = appending - 1
    /\ fsCrashes' = fsCrashes + 1
    /\ UNCHANGED <<fsQueueVars, fsEntries, fsState, fsRequested, fsProcessed, fsNews,
                   fsTransitionVars, leaseTimers, overrun, unpromoted>>

-------------------------------------------------------------------------------
(***************************************************************************)
(* readEngineWake and acquire.                                             *)
(***************************************************************************)
AtRest(h) == fsPc[h] = "idle" /\ operation[h] = Idle /\ item[h] = 0

FsReadWake(h) ==
    /\ AtRest(h)
    /\ fsRequested > fsProcessed
    /\ fsSnap' = [fsSnap EXCEPT ![h].wake = fsRequested]
    /\ Goto(h, "acquire")
    /\ UNCHANGED <<fsQueueVars, fsEntries, fsState, fsWakeVars, relayLock, held,
                   stagedNow, origin, fsFaultVars>>

LockFree == relayLock = NoHost

FsLock(h) ==
    /\ fsPc[h] = "acquire"
    /\ IF LockFree
       THEN /\ relayLock' = h /\ held' = held \cup {h} /\ Goto(h, "read")
            /\ UNCHANGED fsSnap
       ELSE Return(h) /\ UNCHANGED <<relayLock, held>>
    /\ UNCHANGED <<fsQueueVars, fsEntries, fsState, fsWakeVars, stagedNow,
                   origin, fsFaultVars>>

FsReadState(h) ==
    /\ fsPc[h] = "read"
    /\ fsSnap' = [fsSnap EXCEPT ![h].cursor = fsState.cursor,
                                ![h].revision = fsState.revision,
                                ![h].end = fsEntries]
    /\ Goto(h, "run")
    /\ UNCHANGED <<fsQueueVars, fsEntries, fsState, fsWakeVars, relayLock, held,
                   stagedNow, origin, fsFaultVars>>

\* releaseTransition: whoever comes second does nothing.
Release(h) ==
    /\ held' = held \ {h}
    /\ relayLock' = IF h \in held THEN NoHost ELSE relayLock

\* The lease timer gives the lock up.
LeaseTimerFires(h) ==
    /\ h \in held /\ FsFault
    /\ Release(h)
    /\ leaseTimers' = leaseTimers + 1
    /\ overrun' = (overrun \/ fsPc[h] \in {"stage", "write", "promote"})
    /\ UNCHANGED <<fsQueueVars, fsEntries, fsState, fsWakeVars, fsPc, fsSnap,
                   stagedNow, origin, fsCrashes, unpromoted>>

-------------------------------------------------------------------------------
(***************************************************************************)
(* commit: the checks, one stage per effect, the state, one promotion per  *)
(* effect.                                                                 *)
(***************************************************************************)
MayCommit(h) ==
    /\ h \in held
    /\ fsState.revision = fsSnap[h].revision
    /\ fsState.cursor = fsSnap[h].cursor

\* Nothing to do is an abort; the wake is marked processed all the same.
FsCheck(h) ==
    /\ fsPc[h] = "run"
    /\ IF fsSnap[h].end = fsSnap[h].cursor
       THEN Release(h) /\ Goto(h, "mark") /\ UNCHANGED fsSnap
       ELSE IF MayCommit(h)
       THEN Goto(h, "stage") /\ UNCHANGED <<relayLock, held, fsSnap>>
       ELSE Release(h) /\ Return(h)
    /\ UNCHANGED <<fsQueueVars, fsEntries, fsState, fsWakeVars, stagedNow,
                   origin, fsFaultVars>>

NextEffect(h) == fsSnap[h].cursor + Len(stagedNow[h]) + 1

AllStaged(h) == NextEffect(h) > fsSnap[h].end

FsStageBegin(h) ==
    /\ fsPc[h] = "stage" /\ operation[h] = Idle /\ ~AllStaged(h)
    /\ StageBegin(h)
    /\ UNCHANGED fsRuntimeVars

FsStageWrite(h) ==
    /\ fsPc[h] = "stage"
    /\ StageWrite(h)
    /\ stagedNow' = [stagedNow EXCEPT ![h] = Append(@, created + 1)]
    /\ origin' = Append(origin, NextEffect(h))
    /\ UNCHANGED <<fsEntries, fsState, fsWakeVars, relayLock, held, fsPc, fsSnap,
                   fsFaultVars>>

FsWriteState(h) ==
    /\ fsPc[h] = "stage" /\ operation[h] = Idle /\ AllStaged(h)
    /\ fsState.revision < MaxFsWrites
    /\ fsState' = [cursor |-> fsSnap[h].end, revision |-> fsState.revision + 1]
    /\ Goto(h, "promote")
    /\ UNCHANGED <<fsQueueVars, fsEntries, fsWakeVars, relayLock, held, fsSnap,
                   stagedNow, origin, fsFaultVars>>

PromoteFirst(h) ==
    IF Len(stagedNow[h]) = 0 THEN {} ELSE {Head(stagedNow[h])}

FsPromoteWrite(h) ==
    /\ fsPc[h] = "promote" /\ operation[h] = Idle
    /\ \E m \in PromoteFirst(h) : PromoteWrite(h, m)
    /\ UNCHANGED fsRuntimeVars

FsPromoteRemove(h) ==
    /\ StagedRemove(h, "promote")
    /\ stagedNow' = [stagedNow EXCEPT ![h] = Tail(@)]
    /\ UNCHANGED <<fsEntries, fsState, fsWakeVars, relayLock, held, fsPc, fsSnap,
                   origin, fsFaultVars>>

FsCommitted(h) ==
    /\ fsPc[h] = "promote" /\ operation[h] = Idle /\ stagedNow[h] = <<>>
    /\ Release(h)
    /\ Goto(h, "mark")
    /\ UNCHANGED <<fsQueueVars, fsEntries, fsState, fsWakeVars, fsSnap, stagedNow,
                   origin, fsFaultVars>>

\* markProcessed with the wake that was read.
Captured(h) == fsSnap[h].wake

FsMarkProcessed(h) ==
    /\ fsPc[h] = "mark"
    /\ fsProcessed' = IF fsProcessed < Captured(h) THEN Captured(h) ELSE fsProcessed
    /\ Return(h)
    /\ UNCHANGED <<fsQueueVars, fsEntries, fsState, fsRequested, fsNews, appending, relayLock,
                   held, stagedNow, origin, fsFaultVars>>

-------------------------------------------------------------------------------
(***************************************************************************)
(* An operation of the queue throws because the queue is busy: what was    *)
(* staged is discarded one by one, a discard that fails is ignored, and    *)
(* the commit throws.                                                      *)
(***************************************************************************)
FsCommitFails(h) ==
    /\ fsPc[h] \in {"stage", "promote"} /\ operation[h] = Idle
    /\ fsPc[h] = "stage" => ~AllStaged(h)
    /\ fsPc[h] = "promote" => stagedNow[h] # <<>>
    /\ QueueBusy
    /\ unpromoted' = IF fsPc[h] = "stage" THEN unpromoted
                     ELSE unpromoted \cup {origin[m] : m \in {stagedNow[h][i] : i \in 1..Len(stagedNow[h])}}
    /\ Goto(h, "discard")
    /\ UNCHANGED <<fsQueueVars, fsEntries, fsState, fsWakeVars, relayLock, held,
                   fsSnap, stagedNow, origin, fsCrashes, leaseTimers, overrun>>

FsDiscardWrite(h) ==
    /\ fsPc[h] = "discard" /\ operation[h] = Idle /\ stagedNow[h] # <<>>
    /\ DiscardWrite(h, Head(stagedNow[h]))
    /\ UNCHANGED fsRuntimeVars

FsDiscardRemove(h) ==
    /\ StagedRemove(h, "discard")
    /\ stagedNow' = [stagedNow EXCEPT ![h] = Tail(@)]
    /\ UNCHANGED <<fsEntries, fsState, fsWakeVars, relayLock, held, fsPc, fsSnap,
                   origin, fsFaultVars>>

FsDiscardFails(h) ==
    /\ fsPc[h] = "discard" /\ operation[h] = Idle /\ stagedNow[h] # <<>>
    /\ QueueBusy
    /\ stagedNow' = [stagedNow EXCEPT ![h] = Tail(@)]
    /\ UNCHANGED <<fsQueueVars, fsEntries, fsState, fsWakeVars, relayLock, held, fsPc,
                   fsSnap, origin, fsFaultVars>>

FsCommitThrows(h) ==
    /\ fsPc[h] = "discard" /\ operation[h] = Idle /\ stagedNow[h] = <<>>
    /\ Release(h)
    /\ Return(h)
    /\ UNCHANGED <<fsQueueVars, fsEntries, fsState, fsWakeVars, stagedNow,
                   origin, fsFaultVars>>

-------------------------------------------------------------------------------
(***************************************************************************)
(* The lane, and the death of a process.  Its lock files go stale and are  *)
(* removed by whoever asks next.                                           *)
(***************************************************************************)
FsLane(h) ==
    \/ AtRest(h) /\ LeaseBegin(h) /\ UNCHANGED fsRuntimeVars
    \/ QueueStep(h) /\ UNCHANGED fsRuntimeVars

Staged(h) == {stagedNow[h][i] : i \in 1..Len(stagedNow[h])}

FsDies(h) ==
    /\ FsFault
    /\ ~AtRest(h)
    /\ fsCrashes' = fsCrashes + 1
    /\ Return(h)
    /\ held' = held \ {h}
    /\ stagedNow' = [stagedNow EXCEPT ![h] = <<>>]
    /\ item' = [item EXCEPT ![h] = 0]
    /\ operation' = [operation EXCEPT ![h] = Idle]
    /\ unpromoted' = IF fsPc[h] = "promote"
                     THEN unpromoted \cup {origin[m] : m \in Staged(h)} ELSE unpromoted
    /\ UNCHANGED <<files, leaseToken, expired, discarded, queueLock, created,
                   fsExpiries, fsEntries, fsState, fsWakeVars, relayLock, origin,
                   leaseTimers, overrun>>

StaleLocksRemoved ==
    /\ \E h \in FsHosts :
        \/ /\ queueLock = h /\ operation[h] = Idle
           /\ queueLock' = NoHost /\ UNCHANGED relayLock
        \/ /\ relayLock = h /\ h \notin held
           /\ relayLock' = NoHost /\ UNCHANGED queueLock
    /\ UNCHANGED <<files, leaseToken, expired, discarded, operation, item, created,
                   fsExpiries, fsEntries, fsState, fsWakeVars, held, fsPc, fsSnap,
                   stagedNow, origin, fsFaultVars>>

FsEngine(h) ==
    \/ FsReadWake(h) \/ FsLock(h) \/ FsReadState(h) \/ LeaseTimerFires(h)
    \/ FsCheck(h) \/ FsStageBegin(h) \/ FsStageWrite(h) \/ FsWriteState(h)
    \/ FsPromoteWrite(h) \/ FsPromoteRemove(h) \/ FsCommitted(h)
    \/ FsMarkProcessed(h) \/ FsCommitFails(h) \/ FsDiscardWrite(h)
    \/ FsDiscardRemove(h) \/ FsDiscardFails(h) \/ FsCommitThrows(h)

FsNext ==
    \/ FsAppend \/ FsRequest \/ FsAppendDies \/ StaleLocksRemoved
    \/ FsFault /\ FsItemExpires /\ UNCHANGED fsRuntimeVars
    \/ \E h \in FsHosts : FsEngine(h) \/ FsLane(h) \/ FsDies(h)

FsSpec == FsInit /\ [][FsNext]_fsVars

-------------------------------------------------------------------------------
\* Every variable stays in its type and within its bound.
FsTypeOK ==
    /\ files \in [FsMessages -> SUBSET Directories]
    /\ leaseToken \in [FsMessages -> FsHosts \cup {NoHost}]
    /\ expired \subseteq FsMessages /\ discarded \subseteq FsMessages
    /\ queueLock \in FsHosts \cup {NoHost} /\ relayLock \in FsHosts \cup {NoHost}
    /\ item \in [FsHosts -> 0..MaxFsMessages]
    /\ created \in 0..MaxFsMessages /\ Len(origin) = created
    /\ fsEntries \in 0..MaxFsEntries
    /\ fsState \in [cursor : 0..MaxFsEntries, revision : 0..MaxFsWrites]
    /\ held \subseteq FsHosts
    /\ fsRequested \in Nat /\ fsProcessed \in Nat /\ fsNews \in BOOLEAN

MessagesOf(e) == {m \in 1..created : origin[m] = e}
Queued(m) == files[m] \cap {"active", "leased", "done"} # {}
Committing(h) == fsPc[h] \in {"stage", "promote", "discard"}

(***************************************************************************)
(* Without a crash a message has one copy, except while an operation is    *)
(* between the two halves of its move.                                     *)
(***************************************************************************)
OneCopy ==
    fsCrashes = 0 =>
        \A m \in FsMessages :
            (\A h \in FsHosts : operation[h].message # m) => Cardinality(files[m]) <= 1

(***************************************************************************)
(* Unless a commit outlives its lease, an entry is folded once: no two     *)
(* commits queue its effect, through lost leases, failed commits, retries  *)
(* and crashes.                                                            *)
(***************************************************************************)
QueuedOnce ==
    ~overrun => \A e \in 1..MaxFsEntries :
                    Cardinality({m \in MessagesOf(e) \ discarded :
                                    files[m] \cap {"active", "leased", "done", "dead"} # {}}) <= 1

(***************************************************************************)
(* The effect of a folded entry is queued, once its commit is over, or     *)
(* that commit broke off after the state was written.                      *)
(***************************************************************************)
FoldedIsQueued ==
    \A e \in 1..fsState.cursor :
        \/ e \in unpromoted
        \/ \E h \in FsHosts : Committing(h)
        \/ \E m \in MessagesOf(e) \ discarded : files[m] \ {"staged"} # {}

(***************************************************************************)
(* A commit is whole: state and cursor are not advanced without the        *)
(* effects, short of a crash.                                              *)
(***************************************************************************)
CommitIsWhole ==
    fsCrashes = 0 /\ (\A h \in FsHosts : ~Committing(h)) =>
        \A e \in 1..fsState.cursor : \E m \in MessagesOf(e) \ discarded : files[m] \ {"staged"} # {}

(***************************************************************************)
(* An acknowledged message is not leased again, unless a crash left its    *)
(* leased copy behind.                                                     *)
(***************************************************************************)
DoneIsFinal ==
    fsCrashes = 0 =>
        \A m \in FsMessages, h \in FsHosts :
            "done" \in files[m] /\ item'[h] = m => item[h] = m

(***************************************************************************)
(* Every entry not folded yet is covered by a pending wake, by its own     *)
(* append that has still to request one, or by a run that read the wake    *)
(* before, if the last request was news: unless an append died between its *)
(* two halves or a commit that outlived its lease has set the cursor back. *)
(***************************************************************************)
FsWakeKept ==
    fsCrashes = 0 /\ ~overrun /\ fsNews /\ fsEntries > fsState.cursor =>
        fsRequested > fsProcessed \/ appending > 0

(***************************************************************************)
(* A request written while a run is under way outlives the run's mark:     *)
(* "Preserve a newer request written while the engine transition is        *)
(* running" (durable-runtime.yaml:111).                                    *)
(***************************************************************************)
FsNewerRequestKept ==
    fsCrashes = 0 /\ ~overrun /\ fsEntries > fsState.cursor =>
        fsRequested > fsProcessed \/ appending > 0

(***************************************************************************)
(* No two commits write the state from one revision: "Only one active      *)
(* transition lease may own a runtime namespace" and "expectedRevision     *)
(* must equal the persisted revision" (durable-runtime.yaml:704, 710).     *)
(***************************************************************************)
FsOneCommitPerRevision ==
    \A g, h \in FsHosts :
        g # h /\ fsPc[g] = "promote" /\ fsPc[h] = "promote" =>
            fsSnap[g].revision # fsSnap[h].revision

\* The types and the four invariants a shared directory keeps between file operations.
FsSafe == FsTypeOK /\ OneCopy /\ QueuedOnce /\ FoldedIsQueued /\ FsWakeKept
===============================================================================
