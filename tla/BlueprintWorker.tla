---------------------------- MODULE BlueprintWorker ----------------------------
(***************************************************************************)
(* createBlueprintWorker: a queue processor whose cycle is one engine wake *)
(* and one queue item, with one retry timer.  The durable runtime behind   *)
(* it is abstracted to what a cycle can find there: a pending wake or      *)
(* none, deliverable messages or none, another host in the way, an error.  *)
(* What is at stake is that work the worker knows of gets another cycle:   *)
(* nobody else promises to notify it.                                      *)
(***************************************************************************)
EXTENDS QueueProcessor

CONSTANTS
    MaxLane,     \* bound: deliverable messages in the lane
    MaxAppends,  \* bound: entries appended, by hosts or by this worker
    MaxTroubles  \* bound: contention, retries and errors met by the worker

ASSUME WorkerBounds == MaxLane \in Nat /\ MaxAppends \in Nat /\ MaxTroubles \in Nat

VARIABLES
    stage,       \* where the cycle is: "engine", "lane", "returning" or "none"
    greeting,    \* whether a start that resolved has yet to call notify
    retryTimer,  \* whether the retry timer is set
    wakePending, \* requestedAt is later than processedAt
    lane,        \* deliverable messages
    appends,     \* entries appended so far
    troubles,    \* troubles met so far
    owed,        \* the last cycle left work that asks for another one
    ownWake      \* the pending wake was requested by this worker, and no error
                 \* or stop has released it from serving it since

runtimeVars == <<wakePending, lane, appends, troubles>>
duties == <<owed, ownWake>>
workerVars == <<stage, greeting, retryTimer, runtimeVars, duties>>
vars == <<processorVars, workerVars>>

WorkerInit ==
    /\ Init
    /\ stage = "none" /\ greeting = FALSE /\ retryTimer = FALSE
    /\ wakePending = FALSE /\ lane = 0 /\ appends = 0 /\ troubles = 0
    /\ owed = FALSE /\ ownWake = FALSE

\* A call that may begin a cycle puts it at its first await.
StageAfter == stage' = IF cycles' = cycles THEN stage ELSE "engine"
\* A cycle that begins is the follow-up that was owed.
OwedAfter == owed' = (owed /\ stage' # "engine")

Trouble == troubles < MaxTroubles /\ troubles' = troubles + 1
Appended == appends < MaxAppends /\ appends' = appends + 1

-------------------------------------------------------------------------------
(***************************************************************************)
(* start, stop, notify and the timer.                                      *)
(***************************************************************************)
WorkerStart ==
    /\ Start
    /\ UNCHANGED workerVars

\* processor.start() settled: the worker notifies itself if it succeeded.
StartResolves ==
    /\ \E s \in Starts : SubscribeSucceeds(s)
    /\ greeting' = TRUE
    /\ UNCHANGED <<stage, retryTimer, runtimeVars, duties>>

StartRejects ==
    /\ \E s \in Starts : SubscribeFails(s)
    /\ owed' = FALSE /\ ownWake' = FALSE
    /\ UNCHANGED <<stage, greeting, retryTimer, runtimeVars>>

Greet ==
    /\ greeting
    /\ greeting' = FALSE
    /\ Notified /\ UNCHANGED notifications
    /\ StageAfter /\ OwedAfter
    /\ UNCHANGED <<retryTimer, runtimeVars, ownWake>>

WorkerNotify ==
    /\ Notify
    /\ StageAfter /\ OwedAfter
    /\ UNCHANGED <<greeting, retryTimer, runtimeVars, ownWake>>

TimerFires ==
    /\ retryTimer
    /\ retryTimer' = FALSE
    /\ Notified /\ UNCHANGED notifications
    /\ StageAfter /\ OwedAfter
    /\ UNCHANGED <<greeting, runtimeVars, ownWake>>

\* The timer is cleared even if the processor is stopped already.
WorkerStop ==
    /\ \/ Stop
       \/ ~started /\ retryTimer /\ UNCHANGED processorVars
    /\ retryTimer' = FALSE
    /\ owed' = FALSE /\ ownWake' = FALSE
    /\ UNCHANGED <<stage, greeting, runtimeVars>>

-------------------------------------------------------------------------------
(***************************************************************************)
(* processNext, first await: processEngineWake.                            *)
(***************************************************************************)
\* Mutant: contention is left to whoever notifies next.
NoRetry == retryTimer

ScheduleRetry == TRUE

EngineIdle ==
    /\ stage = "engine" /\ ~wakePending
    /\ stage' = "lane"
    /\ UNCHANGED <<processorVars, greeting, retryTimer, runtimeVars, duties>>

\* A commit consumes the wake and may queue effects.
EngineCommits ==
    /\ stage = "engine" /\ wakePending
    /\ stage' = "lane"
    /\ wakePending' = FALSE
    /\ lane' \in {n \in 0..MaxLane : n >= lane}
    /\ ownWake' = FALSE
    /\ UNCHANGED <<processorVars, greeting, retryTimer, appends, troubles, owed>>

\* busy, conflict or lease-lost: another host is in the way.
EngineContended ==
    /\ stage = "engine" /\ wakePending
    /\ Trouble
    /\ stage' = "returning"
    /\ retryTimer' = ScheduleRetry
    /\ owed' = started
    /\ UNCHANGED <<processorVars, greeting, wakePending, lane, appends, ownWake>>

-------------------------------------------------------------------------------
(***************************************************************************)
(* Second await: processQueueLaneItem.  What it appended requests a wake,  *)
(* and the worker notifies itself, which leaves "pending" behind.          *)
(***************************************************************************)
NoticeSettlement == started \/ pending

Settles ==
    \/ /\ Appended
       /\ wakePending' = TRUE
       /\ pending' = NoticeSettlement
       /\ ownWake' = started
       /\ owed' = started
    \/ UNCHANGED <<appends, wakePending, pending, ownWake, owed>>

LaneIdle ==
    /\ stage = "lane" /\ lane = 0
    /\ stage' = "returning"
    /\ UNCHANGED <<processorVars, greeting, retryTimer, runtimeVars, duties>>

\* "completed" or "dead".
LaneFinishes ==
    /\ stage = "lane" /\ lane > 0
    /\ stage' = "returning"
    /\ lane' = lane - 1
    /\ Settles
    /\ UNCHANGED <<processing, cycles, finishing, lifecycleVars, subscriptionVars,
                   notifications, greeting, retryTimer, troubles>>

\* "retry": the message was given back, or its acknowledgement was lost after
\* its settlement was appended.
LaneRetries ==
    /\ stage = "lane" /\ lane > 0
    /\ Trouble
    /\ stage' = "returning"
    /\ lane' \in {lane, lane - 1}
    /\ retryTimer' = ScheduleRetry
    /\ \/ /\ Appended
          /\ wakePending' = TRUE
          /\ pending' = NoticeSettlement
          /\ ownWake' = started
       \/ UNCHANGED <<appends, wakePending, pending, ownWake>>
    /\ owed' = started
    /\ UNCHANGED <<processing, cycles, finishing, lifecycleVars, subscriptionVars,
                   notifications, greeting>>

-------------------------------------------------------------------------------
(***************************************************************************)
(* The cycle ends, and what hosts do meanwhile.                            *)
(***************************************************************************)
CycleEnds ==
    /\ stage = "returning"
    /\ \E c \in cycles : CycleReturns(c)
    /\ stage' = IF cycles' = {} THEN "none" ELSE "engine"
    /\ OwedAfter
    /\ UNCHANGED <<greeting, retryTimer, runtimeVars, ownWake>>

\* Either await rejects, perhaps after a settlement was appended: the error is
\* reported, no follow-up is arranged.
CycleRejects ==
    /\ stage \in {"engine", "lane"}
    /\ Trouble
    /\ \E c \in cycles : CycleThrows(c)
    /\ \/ stage = "lane" /\ lane > 0 /\ Appended /\ wakePending' = TRUE
       \/ UNCHANGED <<appends, wakePending>>
    /\ stage' = "none"
    /\ owed' = FALSE /\ ownWake' = FALSE
    /\ UNCHANGED <<greeting, retryTimer, lane>>

LoopEnds ==
    /\ Finally
    /\ StageAfter /\ OwedAfter
    /\ UNCHANGED <<greeting, retryTimer, runtimeVars, ownWake>>

\* A host appends, and need not notify; another worker serves wake or lane.
HostAppends ==
    /\ Appended
    /\ wakePending' = TRUE
    /\ UNCHANGED <<processorVars, stage, greeting, retryTimer, lane, troubles,
                   duties>>

OthersWork ==
    /\ \/ /\ wakePending /\ wakePending' = FALSE /\ ownWake' = FALSE
          /\ lane' \in {n \in 0..MaxLane : n >= lane}
       \/ /\ lane > 0 /\ lane' = lane - 1
          /\ UNCHANGED <<wakePending, ownWake>>
    /\ UNCHANGED <<processorVars, stage, greeting, retryTimer, appends, troubles,
                   owed>>

Cycle ==
    \/ EngineIdle \/ EngineCommits \/ EngineContended \/ LaneIdle
    \/ LaneFinishes \/ LaneRetries \/ CycleEnds \/ CycleRejects

WorkerNext ==
    \/ WorkerStart \/ StartResolves \/ StartRejects \/ Greet
    \/ WorkerNotify \/ TimerFires \/ WorkerStop
    \/ Cycle \/ LoopEnds
    \/ HostAppends \/ OthersWork

WorkerSpec == WorkerInit /\ [][WorkerNext]_vars

-------------------------------------------------------------------------------
\* Every variable stays in its type and within its bound.
WorkerTypeOK ==
    /\ ProcessorTypeOK
    /\ stage \in {"none", "engine", "lane", "returning"}
    /\ greeting \in BOOLEAN /\ retryTimer \in BOOLEAN /\ wakePending \in BOOLEAN
    /\ lane \in 0..MaxLane /\ appends \in 0..MaxAppends
    /\ troubles \in 0..MaxTroubles
    /\ owed \in BOOLEAN /\ ownWake \in BOOLEAN

(***************************************************************************)
(* A running worker whose last cycle met contention, a retry or its own    *)
(* settlement has arranged the follow-up: the loop will test again or the  *)
(* timer is set.                                                           *)
(***************************************************************************)
FollowUpArranged == owed => pending \/ retryTimer

===============================================================================
