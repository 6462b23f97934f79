---------------------------- MODULE BlueprintSession ----------------------------
(***************************************************************************)
(* A rendered Blueprint: the React binding mounts and unmounts a source,   *)
(* the DurableBlueprintController behind it works through one queue of     *)
(* operations on a durable runtime and follows its commits, and a worker,  *)
(* which the in-memory BlueprintController or the durable BlueprintHost    *)
(* starts and stops, transitions what was appended (src/adapters/react).   *)
(*                                                                         *)
(* A commit folds every entry of the journal: revision n + 1 has folded n  *)
(* entries, and 0 is null.  The subscription of the runtime is what        *)
(* SnapshotSubscription promises: it tells of the newest revision in the   *)
(* end.  An action is the code between two awaits.                         *)
(***************************************************************************)
EXTENDS Naturals, Sequences

CONSTANTS
    SeHostings,   \* "memory", "durable" with a worker, or "remote" without one
    MaxMounts,    \* bound: times the source is mounted
    MaxEntries,   \* bound: entries of the journal
    MaxResyncs,   \* bound: writes of a shared context
    MaxRejects    \* bound: awaits that reject

ASSUME SessionBounds == {MaxMounts, MaxEntries, MaxResyncs, MaxRejects} \subseteq Nat

VARIABLES
    hosting,
    journal,     \* [exists, entries, revision] of the durable runtime
    operations,  \* the queue; its first element runs and is at its step
    session,     \* [version (lifecycleVersion), mounted, subscribed, told (by
                 \* the subscription), revision, tree (the revision it shows)]
    seWorker,    \* [on, owed (starts of it that follow a settled start)]
    seUsed       \* [mounts, resyncs, rejects] so far

seVars == <<hosting, journal, operations, session, seWorker, seUsed>>

Operation(op, version, to, step) == [op |-> op, version |-> version, to |-> to, step |-> step]

SeInit ==
    /\ hosting \in SeHostings
    /\ journal = [exists |-> FALSE, entries |-> 0, revision |-> 0]
    /\ operations = <<>>
    /\ session = [version |-> 0, mounted |-> FALSE, subscribed |-> FALSE, told |-> 0, revision |-> 0, tree |-> 0]
    /\ seWorker = [on |-> FALSE, owed |-> 0]
    /\ seUsed = [mounts |-> 0, resyncs |-> 0, rejects |-> 0]

EnqueueOperation(operation) == operations' = Append(operations, operation)

-----------------------------------------------------------------------------
(* What React does, and what the components of the tree ask for. *)

Mount ==
    /\ ~session.mounted /\ seUsed.mounts < MaxMounts
    /\ seUsed' = [seUsed EXCEPT !.mounts = @ + 1]
    /\ session' = [session EXCEPT !.version = @ + 1, !.mounted = TRUE]
    /\ EnqueueOperation(Operation("start", session.version + 1, 0, "initialize"))
    /\ seWorker' = [seWorker EXCEPT !.on = @ \/ hosting = "durable"]
    /\ UNCHANGED <<hosting, journal>>

Unmount ==
    /\ session.mounted
    /\ session' = [session EXCEPT !.version = @ + 1, !.mounted = FALSE, !.subscribed = FALSE]
    /\ seWorker' = [seWorker EXCEPT !.on = FALSE]
    /\ UNCHANGED <<hosting, journal, operations, seUsed>>

\* Bound: one append of the page at a time.
Emit ==
    /\ session.mounted /\ session.tree > 0 /\ journal.entries < MaxEntries
    /\ \A i \in DOMAIN operations : operations[i].op # "emit"
    /\ EnqueueOperation(Operation("emit", 0, 0, "append"))
    /\ UNCHANGED <<hosting, journal, session, seWorker, seUsed>>

\* A shared context was written (useBundleContextSync).
Resync ==
    /\ session.mounted /\ seUsed.resyncs < MaxResyncs
    /\ seUsed' = [seUsed EXCEPT !.resyncs = @ + 1]
    /\ EnqueueOperation(Operation("resync", 0, 0, "read"))
    /\ UNCHANGED <<hosting, journal, session, seWorker>>

Told ==
    /\ session.subscribed /\ session.told < journal.revision
    /\ session' = [session EXCEPT !.told = journal.revision]
    /\ EnqueueOperation(Operation("external", 0, journal.revision, "compare"))
    /\ UNCHANGED <<hosting, journal, seWorker, seUsed>>

-----------------------------------------------------------------------------
(* The operation that runs. *)

At(step) == operations # <<>> /\ operations[1].step = step
Advance(step) == operations' = [operations EXCEPT ![1].step = step]
Return == operations' = Tail(operations)

Initialize ==
    /\ At("initialize")
    /\ IF journal.exists THEN Advance("read") /\ UNCHANGED journal
       ELSE Advance("append") /\ journal' = [journal EXCEPT !.exists = TRUE, !.revision = 1]
    /\ UNCHANGED <<hosting, session, seWorker, seUsed>>

\* The bootstrap event or the event that was emitted.
AppendEntry ==
    /\ At("append") /\ journal.exists /\ journal.entries < MaxEntries + 1
    /\ journal' = [journal EXCEPT !.entries = @ + 1]
    /\ Advance("read")
    /\ UNCHANGED <<hosting, session, seWorker, seUsed>>

\* Mutant: what the subscription told of is not read again.
AsTold(operation) == IF operation.op = "external" THEN operation.to ELSE journal.revision

RevisionRead(operation) == journal.revision

ReadSnapshot ==
    /\ At("read") /\ journal.exists
    /\ session' = [session EXCEPT !.revision = RevisionRead(operations[1])]
    /\ Advance("resolve")
    /\ UNCHANGED <<hosting, journal, seWorker, seUsed>>

\* Mutant: whoever stopped in the meantime is not asked.
SubscribesAnyway(operation) == operation.op = "start" /\ ~session.subscribed

Subscribes(operation) ==
    operation.op = "start" /\ operation.version = session.version /\ ~session.subscribed

Resolve ==
    /\ At("resolve")
    /\ session' = IF Subscribes(operations[1])
                  THEN [session EXCEPT !.tree = session.revision, !.subscribed = TRUE, !.told = session.revision]
                  ELSE [session EXCEPT !.tree = session.revision]
    /\ seWorker' = IF operations[1].op = "start" /\ hosting = "memory" THEN [seWorker EXCEPT !.owed = @ + 1] ELSE seWorker
    /\ Return
    /\ UNCHANGED <<hosting, journal, seUsed>>

\* What was told of may be what was read meanwhile.
Compare ==
    /\ At("compare")
    /\ IF operations[1].to = session.revision /\ session.tree > 0 THEN Return ELSE Advance("read")
    /\ UNCHANGED <<hosting, journal, session, seWorker, seUsed>>

\* An await rejects; the queue goes on with the next operation.
RejectOperation ==
    /\ \E step \in {"initialize", "append", "read", "resolve"} : At(step)
    /\ seUsed.rejects < MaxRejects
    /\ seUsed' = [seUsed EXCEPT !.rejects = @ + 1]
    /\ Return
    /\ UNCHANGED <<hosting, journal, session, seWorker>>

\* An append or a read of a runtime that was never initialized.
Missing ==
    /\ At("append") \/ At("read")
    /\ ~journal.exists
    /\ Return
    /\ UNCHANGED <<hosting, journal, session, seWorker, seUsed>>

OperationStep == Initialize \/ AppendEntry \/ ReadSnapshot \/ Resolve \/ Compare \/ Missing

-----------------------------------------------------------------------------
(* The worker, and other hosts of the same runtime. *)

\* BlueprintController.start goes on when its controller has started.
WorkerStarts ==
    /\ seWorker.owed > 0
    /\ seWorker' = [on |-> TRUE, owed |-> seWorker.owed - 1]
    /\ UNCHANGED <<hosting, journal, operations, session, seUsed>>

CommitAll ==
    /\ journal.exists /\ journal.revision < journal.entries + 1
    /\ journal' = [journal EXCEPT !.revision = journal.entries + 1]
    /\ UNCHANGED <<hosting, operations, session, seWorker, seUsed>>

WorkerCommits == seWorker.on /\ CommitAll
OthersCommit == hosting # "memory" /\ CommitAll
OthersAppend ==
    /\ hosting # "memory"
    /\ journal.entries < MaxEntries
    /\ journal' = IF journal.exists THEN [journal EXCEPT !.entries = @ + 1]
                  ELSE [exists |-> TRUE, entries |-> 1, revision |-> 1]
    /\ UNCHANGED <<hosting, operations, session, seWorker, seUsed>>

SeNext ==
    \/ Mount \/ Unmount \/ Emit \/ Resync \/ Told
    \/ OperationStep \/ RejectOperation
    \/ WorkerStarts \/ WorkerCommits \/ OthersCommit \/ OthersAppend

\* Promises settle, a running worker works and a subscription tells.
SeUnderway == OperationStep \/ Told \/ WorkerStarts \/ WorkerCommits
SeSpec == SeInit /\ [][SeNext]_seVars /\ WF_seVars(SeUnderway)

-----------------------------------------------------------------------------
AtRest == operations = <<>> /\ seUsed.rejects = 0

(***************************************************************************)
(* "stops the subscription with the GenUISource lifecycle": an unmounted   *)
(* source follows nothing, even if its start was overtaken; a mounted one  *)
(* follows the runtime once its start has settled; and when nothing runs   *)
(* the tree is that of the snapshot that was read.                         *)
(***************************************************************************)
FollowsWhileMounted ==
    /\ session.subscribed => session.mounted
    /\ AtRest /\ session.mounted => session.subscribed
    /\ AtRest => session.tree = session.revision

\* What is shown never goes back to an older revision, whatever was told late.
TreeForward == [][session'.tree >= session.tree]_seVars

(***************************************************************************)
(* What is appended is shown in the end, by whoever it was committed,      *)
(* while a worker runs, unless an operation rejected.                      *)
(***************************************************************************)
Shown == session.tree = journal.entries + 1
         \/ ~session.mounted \/ hosting = "remote" \/ seUsed.rejects > 0
=============================================================================
