------------------------- MODULE SnapshotSubscription -------------------------
(***************************************************************************)
(* subscribe() of the durable runtime: one subscriber follows the          *)
(* committed snapshots of one runtime.  Reads are asked for by the attach, *)
(* by invalidations, which may be lost, and by a safety poll; a drain      *)
(* loop reads what changed after the local revision and hands it to the    *)
(* listener, which keeps a snapshot with applyRuntimeSnapshotChanges.      *)
(*                                                                         *)
(* Revisions are numbered in commit order, 0 is null.  An action is the    *)
(* code between two awaits, a provider's read, or the listener's work.     *)
(***************************************************************************)
EXTENDS Naturals, FiniteSets

CONSTANTS
    MaxCommits,  \* bound: the last revision committed
    MaxFailures  \* bound: reads and listener calls that reject by themselves

ASSUME SubscriptionBounds == MaxCommits \in Nat \ {0, 1} /\ MaxFailures \in Nat

VARIABLES
    current,         \* the provider's revision
    hints,           \* invalidations published and not delivered
    attach,          \* "awaiting", "attached" or "absent"
    timer,           \* whether the safety poll is scheduled
    stopped, revision, drainScheduled,  \* as in the code
    readPending,     \* "pending" in the code
    draining,        \* whether the promise "draining" is set
    calls,           \* turns of drain loops that await something
    loopEnds,        \* loops that ended and have yet to run their finally block
    view,            \* revision of the listener's snapshot
    failures         \* failures so far

provider == <<current, hints>>
request == <<readPending, drainScheduled>>
loop == <<draining, calls, loopEnds>>
subVars == <<provider, attach, timer, stopped, revision, request, loop, view, failures>>

Revisions == 0..MaxCommits
Kinds == {"none", "unchanged", "changes", "reset"}
Changes == [kind : Kinds, base : Revisions, revision : Revisions]
NoChanges == [kind |-> "none", base |-> 0, revision |-> 0]

\* "reading" until the provider has read, "answered" until the loop resumes,
\* "listening" while the listener runs; n keeps two calls apart.
Calls == [stage : {"reading", "answered", "listening"}, after : Revisions,
          changes : Changes, n : Nat]

-------------------------------------------------------------------------------
(***************************************************************************)
(* readSnapshotChanges and applyRuntimeSnapshotChanges.  A provider        *)
(* retains the patch of its last commit.                                   *)
(***************************************************************************)
\* Mutant: the retained patch is returned whatever the caller has.
PatchAnyway(after) == current > 1

PatchRetained(after) == current > 1 /\ after = current - 1

ChangesSince(after) ==
    IF after = current
    THEN [kind |-> "unchanged", base |-> 0, revision |-> current]
    ELSE IF PatchRetained(after)
    THEN [kind |-> "changes", base |-> current - 1, revision |-> current]
    ELSE [kind |-> "reset", base |-> 0, revision |-> current]

Applicable(changes) == changes.kind = "reset" \/ changes.base = view

-------------------------------------------------------------------------------
(***************************************************************************)
(* scheduleRead and the beginning of a drain loop.                         *)
(***************************************************************************)
\* Mutant: a loop begins although another one runs.
DrainAnyway == TRUE

DrainFree == ~draining

ScheduleRead ==
    IF stopped THEN UNCHANGED request
    ELSE readPending' = TRUE /\ drainScheduled' = (drainScheduled \/ DrainFree)

LoopContinues == ~stopped /\ readPending

\* The next turn of a loop whose other turns in flight are "others".
Turn(others, next) ==
    /\ readPending' = FALSE
    /\ calls' = others \cup {[stage |-> "reading", after |-> next,
                              changes |-> NoChanges, n |-> Cardinality(others)]}
    /\ UNCHANGED loopEnds

\* The test of the loop, with the local revision "next".
LoopTest(others, next) ==
    IF LoopContinues THEN Turn(others, next)
    ELSE /\ calls' = others
         /\ loopEnds' = loopEnds + 1
         /\ UNCHANGED readPending

-------------------------------------------------------------------------------
(***************************************************************************)
(* subscribe() has run up to the await of its invalidations, with a        *)
(* subscriber that has some committed snapshot or none.  Without           *)
(* subscribeSnapshotInvalidations the first read is scheduled at once.     *)
(***************************************************************************)
SubInit ==
    /\ current \in {1, 2}
    /\ revision \in 0..current
    /\ view = revision
    /\ hints = 0 /\ timer = TRUE /\ stopped = FALSE
    /\ attach \in {"awaiting", "absent"}
    /\ readPending = (attach = "absent") /\ drainScheduled = (attach = "absent")
    /\ draining = FALSE /\ calls = {} /\ loopEnds = 0
    /\ failures = 0

Fails == failures < MaxFailures /\ failures' = failures + 1

\* Some host commits; an invalidation is published, or lost.
Commit ==
    /\ current < MaxCommits
    /\ current' = current + 1
    /\ hints' \in {hints, hints + 1}
    /\ UNCHANGED <<attach, timer, stopped, revision, request, loop, view, failures>>

\* Invalidations arrive as soon as the provider has registered the listener,
\* in a call that may still be awaited.
Invalidated ==
    /\ hints > 0
    /\ hints' = hints - 1
    /\ \/ attach # "absent" /\ ScheduleRead
       \/ UNCHANGED request
    /\ UNCHANGED <<current, attach, timer, stopped, revision, loop, view, failures>>

Reconnected ==
    /\ attach = "attached" /\ ~stopped
    /\ ScheduleRead
    /\ UNCHANGED <<provider, attach, timer, stopped, revision, loop, view, failures>>

CleanupArrives == IF stopped THEN "absent" ELSE "attached"

\* The provider's subscription settles: with a cleanup, or without one
\* because it has no channel or rejects.
AttachSettles ==
    /\ attach = "awaiting"
    /\ attach' \in {CleanupArrives, "absent"}
    /\ ScheduleRead
    /\ UNCHANGED <<provider, timer, stopped, revision, loop, view, failures>>

\* Mutant: the safety poll runs once.
PollOnce == FALSE

PollAgain == ~stopped

PollFires ==
    /\ timer
    /\ ScheduleRead
    /\ timer' = PollAgain
    /\ UNCHANGED <<provider, attach, stopped, revision, loop, view, failures>>

\* The microtask of scheduleRead.
Microtask ==
    /\ drainScheduled
    /\ drainScheduled' = FALSE
    /\ IF ~stopped /\ DrainFree
       THEN draining' = TRUE /\ LoopTest(calls, revision)
       ELSE UNCHANGED <<readPending, loop>>
    /\ UNCHANGED <<provider, attach, timer, stopped, revision, view, failures>>

-------------------------------------------------------------------------------
(***************************************************************************)
(* One turn of the drain loop.                                             *)
(***************************************************************************)
\* The provider reads; what it answers may be old when the loop resumes.
ProviderReads(c) ==
    /\ c.stage = "reading"
    /\ calls' = (calls \ {c}) \cup
           {[c EXCEPT !.stage = "answered", !.changes = ChangesSince(c.after)]}
    /\ UNCHANGED <<provider, attach, timer, stopped, revision, request, draining,
                   loopEnds, view, failures>>

MayDeliver(c) == ~stopped /\ c.changes.kind # "unchanged"

ReadReturns(c) ==
    /\ c.stage = "answered"
    /\ IF MayDeliver(c)
       THEN /\ calls' = (calls \ {c}) \cup {[c EXCEPT !.stage = "listening"]}
            /\ UNCHANGED <<readPending, loopEnds>>
       ELSE LoopTest(calls \ {c}, revision)
    /\ UNCHANGED <<provider, attach, timer, stopped, revision, drainScheduled,
                   draining, view, failures>>

ReadRejects(c) ==
    /\ c.stage = "reading"
    /\ Fails
    /\ LoopTest(calls \ {c}, revision)
    /\ UNCHANGED <<provider, attach, timer, stopped, revision, drainScheduled,
                   draining, view>>

\* The listener took the changes: only now the local revision advances.
ListenerResolves(c) ==
    /\ c.stage = "listening"
    /\ Applicable(c.changes)
    /\ view' = c.changes.revision
    /\ revision' = c.changes.revision
    /\ LoopTest(calls \ {c}, revision')
    /\ UNCHANGED <<provider, attach, timer, stopped, drainScheduled, draining, failures>>

\* The listener rejects, because the patch does not start at its snapshot, or
\* for a reason of its own before or after it applied the changes.
ListenerRejects(c) ==
    /\ c.stage = "listening"
    /\ \/ ~Applicable(c.changes) /\ UNCHANGED <<view, failures>>
       \/ Applicable(c.changes) /\ Fails /\ view' \in {view, c.changes.revision}
    /\ LoopTest(calls \ {c}, revision)
    /\ UNCHANGED <<provider, attach, timer, stopped, revision, drainScheduled, draining>>

\* Mutant: the finally block does not look at what was asked meanwhile.
ForgetPending == UNCHANGED request

AskAgain == IF LoopContinues
            THEN readPending' = TRUE /\ drainScheduled' = TRUE
            ELSE UNCHANGED request

DrainFinally ==
    /\ loopEnds > 0
    /\ loopEnds' = loopEnds - 1
    /\ draining' = FALSE
    /\ AskAgain
    /\ UNCHANGED <<provider, attach, timer, stopped, revision, calls, view, failures>>

-------------------------------------------------------------------------------
\* The function subscribe() returned.  The aborted signal and the cleanup both
\* detach; a subscription still awaited is left to AttachSettles.
Unsubscribe ==
    /\ ~stopped
    /\ stopped' = TRUE
    /\ readPending' = FALSE
    /\ timer' = FALSE
    /\ attach' = IF attach = "attached" THEN "absent" ELSE attach
    /\ UNCHANGED <<provider, revision, drainScheduled, loop, view, failures>>

CallStep(c) ==
    \/ ProviderReads(c) \/ ReadReturns(c) \/ ReadRejects(c)
    \/ ListenerResolves(c) \/ ListenerRejects(c)

SubNext ==
    \/ Commit \/ Invalidated \/ Reconnected \/ AttachSettles
    \/ PollFires \/ Microtask \/ DrainFinally \/ Unsubscribe
    \/ \E c \in calls : CallStep(c)

SubSpec == SubInit /\ [][SubNext]_subVars

-------------------------------------------------------------------------------
\* Every variable stays in its type.
SubscriptionTypeOK ==
    /\ current \in Revisions /\ revision \in Revisions /\ view \in Revisions
    /\ hints \in 0..MaxCommits /\ failures \in 0..MaxFailures
    /\ attach \in {"awaiting", "attached", "absent"}
    /\ timer \in BOOLEAN /\ stopped \in BOOLEAN /\ readPending \in BOOLEAN
    /\ drainScheduled \in BOOLEAN /\ draining \in BOOLEAN
    /\ calls \subseteq Calls
    /\ loopEnds \in {0, 1}

(***************************************************************************)
(* "Serialize provider reads so polling and invalidation wakeups never     *)
(* overlap": at most one turn of one loop is in flight.                    *)
(***************************************************************************)
ReadsSerialized == Cardinality(calls) + loopEnds <= 1

(***************************************************************************)
(* A listener never meets a gap: a patch starts at its snapshot, or leads  *)
(* to the snapshot it has, which it then took in a call that rejected      *)
(* afterwards.                                                             *)
(***************************************************************************)
PatchContinuesView ==
    \A c \in calls :
        c.stage = "listening" /\ c.changes.kind = "changes" =>
            view \in {c.changes.base, c.changes.revision}

(***************************************************************************)
(* A read that was asked for while the subscription runs is not left to    *)
(* the next poll: a microtask is queued, or the running loop will see it.  *)
(***************************************************************************)
RequestedReadArranged == ~stopped /\ readPending => drainScheduled \/ draining

(***************************************************************************)
(* The returned function releases everything: no timer, and no             *)
(* subscription at the provider once its call has settled, even if it      *)
(* settled after the function was called.                                  *)
(***************************************************************************)
StopReleases == stopped => ~timer /\ attach # "attached"

\* Nothing asked for is forgotten while it runs, and nothing runs on afterwards.
SubscriptionKept == RequestedReadArranged /\ StopReleases

\* The subscriber's snapshot never goes back to an older revision, whatever
\* is answered late.
ViewNeverReverts == [][view' >= view]_subVars

===============================================================================
