------------------------- MODULE BlueprintWorkerProofs -------------------------
(***************************************************************************)
(* Proofs that the queue processor (QueueProcessor) never overlaps cycles, *)
(* tells stale cycles to stop and keeps one subscription, for any number   *)
(* of starts and notifications; and that the worker (BlueprintWorker), who *)
(* notifies itself by its timer and from inside its own cycles, overlaps   *)
(* none either and always has a follow-up for work it knows of.            *)
(***************************************************************************)
EXTENDS BlueprintWorker, FiniteSetTheorems, TLAPS

(***************************************************************************)
(* The promise "processing" is set exactly while one cycle runs or one     *)
(* loop waits for its finally block.                                       *)
(***************************************************************************)
LoopInvariant ==
    \/ ~processing /\ cycles = {} /\ finishing = 0
    \/ processing /\ cycles = {} /\ finishing = 1
    \/ processing /\ (\E c \in (1..starts) \X Nat : cycles = {c}) /\ finishing = 0

(***************************************************************************)
(* The current controller is the only one not aborted, and there is one    *)
(* exactly while the processor is started.                                 *)
(***************************************************************************)
ControllerInvariant ==
    /\ started <=> controller # 0
    /\ (1..starts) \ aborted = {controller} \ {0}

FlagTypes == started \in BOOLEAN /\ pending \in BOOLEAN /\ processing \in BOOLEAN

ScalarTypes ==
    /\ FlagTypes
    /\ starts \in 0..MaxStarts
    /\ controller \in 0..starts /\ unsubscribe \in 0..starts
    /\ aborted \subseteq 1..starts
    /\ subscribing \subseteq 1..starts /\ cleanups \subseteq 1..starts
    /\ notifications \in 0..MaxNotifications

ProcessorInvariant == ScalarTypes /\ LoopInvariant /\ ControllerInvariant

-------------------------------------------------------------------------------
\* Whoever calls notify begins a cycle only when there is none.
LEMMA NotifiedKeepsLoop ==
    ASSUME ProcessorInvariant, Notified
    PROVE  /\ LoopInvariant'
           /\ pending' \in BOOLEAN /\ processing' \in BOOLEAN
<1> USE LifecycleBounds DEF ProcessorInvariant, ScalarTypes, FlagTypes, ControllerInvariant
<1>1. UNCHANGED <<finishing, starts>>
  BY DEF Notified, lifecycleVars
<1>2. CASE ~started
  BY <1>1, <1>2 DEF Notified, LoopInvariant
<1>3. CASE started /\ LoopMayBegin
  <2>1. cycles = {} /\ finishing = 0
    BY <1>3 DEF LoopMayBegin, LoopInvariant
  <2>2. cycles' = {<<controller, 0>>}
    BY <1>3, <2>1, FS_EmptySet DEF Notified, BeginLoop
  <2>3. <<controller, 0>> \in (1..starts') \X Nat
    BY <1>1, <1>3
  <2> QED
    BY <1>1, <1>3, <2>1, <2>2, <2>3 DEF Notified, BeginLoop, LoopInvariant
<1>4. CASE started /\ ~LoopMayBegin
  BY <1>1, <1>4 DEF Notified, LoopInvariant
<1> QED
  BY <1>2, <1>3, <1>4

\* A step keeps the types of everything but the loop's variables.
LEMMA LifecycleStep ==
    ASSUME ProcessorInvariant, [Next]_processorVars
    PROVE  ControllerInvariant' /\ ScalarTypes'
<1> USE LifecycleBounds DEF ProcessorInvariant, ScalarTypes, FlagTypes, ControllerInvariant
<1>1. CASE Start
  <2>1. started' = TRUE /\ starts' = starts + 1 /\ controller' = starts + 1
    BY <1>1 DEF Start
  <2>2. UNCHANGED <<pending, processing, aborted, cleanups, unsubscribe, notifications>>
    BY <1>1 DEF Start, loopVars
  <2>3. controller = 0 /\ (1..starts) \ aborted = {}
    BY <1>1 DEF Start, MayStart
  <2>4. (1..starts') \ aborted' = {starts + 1}
    BY <2>1, <2>2, <2>3
  <2>5. subscribing' \subseteq 1..starts' /\ starts' \in 0..MaxStarts
    BY <1>1, <2>1 DEF Start
  <2> QED
    BY <2>1, <2>2, <2>4, <2>5
<1>2. CASE Notify
  <2>1. pending' \in BOOLEAN /\ processing' \in BOOLEAN
    BY <1>2, NotifiedKeepsLoop DEF Notify
  <2> QED
    BY <1>2, <2>1 DEF Notify, Notified, lifecycleVars, subscriptionVars
<1>3. CASE Finally
  BY <1>3 DEF Finally, BeginLoop, lifecycleVars, subscriptionVars
<1>4. CASE Stop
  <2>1. started' = FALSE /\ controller' = 0 /\ unsubscribe' = 0 /\ pending' = FALSE
    BY <1>4 DEF Stop
  <2>2. aborted' = aborted \cup {controller} /\ cleanups' \subseteq cleanups
    BY <1>4 DEF Stop, AbortedByStop
  <2>3. UNCHANGED <<processing, starts, subscribing, notifications>>
    BY <1>4 DEF Stop
  <2>4. controller \in 1..starts
    BY <1>4 DEF Stop
  <2>5. (1..starts') \ aborted' = {}
    BY <2>2, <2>3
  <2>6. aborted' \subseteq 1..starts' /\ cleanups' \subseteq 1..starts'
    BY <2>2, <2>3, <2>4
  <2>flags. FlagTypes'
    BY <2>1, <2>3, Zenon
  <2>7. ScalarTypes'
    BY <2>flags, <2>1, <2>3, <2>6
  <2>8. {controller'} \ {0} = {}
    BY <2>1
  <2>9. ControllerInvariant'
    BY <2>1, <2>5, <2>8
  <2> QED
    BY <2>7, <2>9
<1>5. ASSUME NEW s \in Starts, SubscribeSucceeds(s)
      PROVE  ControllerInvariant' /\ ScalarTypes'
  <2>1. UNCHANGED <<pending, processing, lifecycleVars, notifications>>
    BY <1>5 DEF SubscribeSucceeds, loopVars
  <2>2. s \in 1..starts /\ subscribing' \subseteq subscribing
    BY <1>5 DEF SubscribeSucceeds
  <2>3. unsubscribe' \in {0, s} /\ cleanups' \subseteq cleanups \cup {s}
    BY <1>5 DEF SubscribeSucceeds
  <2> QED
    BY <2>1, <2>2, <2>3 DEF lifecycleVars
<1>6. ASSUME NEW s \in Starts, SubscribeFails(s)
      PROVE  ControllerInvariant' /\ ScalarTypes'
  <2>1. started' = FALSE /\ controller' = 0 /\ aborted' = aborted \cup ({controller} \ {0})
    BY <1>6 DEF SubscribeFails
  <2>2. subscribing' \subseteq subscribing
    BY <1>6 DEF SubscribeFails
  <2>3. UNCHANGED <<pending, processing, starts, cleanups, unsubscribe, notifications>>
    BY <1>6 DEF SubscribeFails, loopVars
  <2>4. (1..starts') \ aborted' = {}
    BY <2>1, <2>3
  <2>5. aborted' \subseteq 1..starts' /\ subscribing' \subseteq 1..starts'
    BY <2>1, <2>2, <2>3
  <2>flags. FlagTypes'
    BY <2>1, <2>3, Zenon
  <2>6. ScalarTypes'
    BY <2>flags, <2>1, <2>3, <2>5
  <2>7. {controller'} \ {0} = {}
    BY <2>1
  <2>8. ControllerInvariant'
    BY <2>1, <2>4, <2>7
  <2> QED
    BY <2>6, <2>8
<1>7. ASSUME NEW c \in cycles, CycleReturns(c) \/ CycleThrows(c)
      PROVE  ControllerInvariant' /\ ScalarTypes'
  <2>1. UNCHANGED <<processing, started, starts, controller, aborted,
                    subscribing, cleanups, unsubscribe, notifications>>
    BY <1>7 DEF CycleReturns, CycleThrows, lifecycleVars, subscriptionVars
  <2>2. pending' \in BOOLEAN
    BY <1>7 DEF CycleReturns, CycleThrows
  <2> QED
    BY <2>1, <2>2
<1>8. CASE UNCHANGED processorVars
  BY <1>8 DEF processorVars, loopVars, lifecycleVars, subscriptionVars
<1> QED
  BY <1>1, <1>2, <1>3, <1>4, <1>5, <1>6, <1>7, <1>8 DEF Next

\* A step keeps cycles and loops in step with "processing".
LEMMA LoopStep ==
    ASSUME ProcessorInvariant, [Next]_processorVars
    PROVE  LoopInvariant'
<1> USE LifecycleBounds DEF ProcessorInvariant, ScalarTypes, FlagTypes, ControllerInvariant
<1>1. CASE Start
  <2>1. UNCHANGED <<processing, cycles, finishing>> /\ starts' = starts + 1
    BY <1>1 DEF Start, loopVars
  <2>2. (1..starts) \X Nat \subseteq (1..starts') \X Nat
    BY <2>1
  <2> QED
    BY <2>1, <2>2 DEF LoopInvariant
<1>2. CASE Notify
  BY <1>2, NotifiedKeepsLoop DEF Notify
<1>3. CASE Finally
  <2>1. cycles = {} /\ finishing = 1 /\ processing
    BY <1>3 DEF Finally, LoopInvariant
  <2>2. finishing' = 0 /\ starts' = starts
    BY <1>3, <2>1 DEF Finally, lifecycleVars
  <2>3. CASE LoopMustRestart
    <3>1. cycles' = {<<controller, 0>>} /\ processing'
      BY <1>3, <2>1, <2>3, FS_EmptySet DEF Finally, BeginLoop
    <3>2. <<controller, 0>> \in (1..starts') \X Nat
      BY <2>2, <2>3 DEF LoopMustRestart
    <3> QED
      BY <2>2, <3>1, <3>2 DEF LoopInvariant
  <2>4. CASE ~LoopMustRestart
    BY <1>3, <2>1, <2>2, <2>4 DEF Finally, LoopInvariant
  <2> QED
    BY <2>3, <2>4
<1>4. CASE Stop
  BY <1>4 DEF Stop, LoopInvariant
<1>5. ASSUME NEW s \in Starts, SubscribeSucceeds(s) \/ SubscribeFails(s)
      PROVE  LoopInvariant'
  BY <1>5 DEF SubscribeSucceeds, SubscribeFails, loopVars, lifecycleVars, LoopInvariant
<1>6. ASSUME NEW c \in cycles, CycleReturns(c) \/ CycleThrows(c)
      PROVE  LoopInvariant'
  <2>1. /\ cycles = {c} /\ c \in (1..starts) \X Nat /\ finishing = 0 /\ processing
        /\ processing' = processing /\ starts' = starts
    BY <1>6 DEF CycleReturns, CycleThrows, lifecycleVars, LoopInvariant
  <2>2. CASE CycleReturns(c) /\ started /\ pending
    <3>1. cycles' = {<<controller, c[2]>>} /\ finishing' = 0
      BY <2>1, <2>2 DEF CycleReturns
    <3>2. <<controller, c[2]>> \in (1..starts') \X Nat
      BY <2>1, <2>2
    <3> QED
      BY <2>1, <3>1, <3>2 DEF LoopInvariant
  <2>3. CASE CycleThrows(c) \/ ~(started /\ pending)
    <3>1. cycles' = {} /\ finishing' = 1
      BY <1>6, <2>1, <2>3 DEF CycleReturns, CycleThrows
    <3> QED
      BY <2>1, <3>1 DEF LoopInvariant
  <2> QED
    BY <1>6, <2>2, <2>3
<1>7. CASE UNCHANGED processorVars
  BY <1>7 DEF processorVars, loopVars, lifecycleVars, LoopInvariant
<1> QED
  BY <1>1, <1>2, <1>3, <1>4, <1>5, <1>6, <1>7 DEF Next

-------------------------------------------------------------------------------
\* The invariant gives the properties of the processor.
LEMMA InvariantSuffices ==
    ASSUME ProcessorInvariant
    PROVE  ProcessorTypeOK /\ OneCycle /\ StaleCyclesAborted /\ OneSubscription
<1> USE LifecycleBounds DEF ProcessorInvariant
<1>1. ProcessorTypeOK
  <2>1. 1..starts \subseteq Starts
    BY DEF ScalarTypes, Starts
  <2>2. cycles \subseteq Starts \X Nat /\ finishing \in {0, 1}
    BY <2>1 DEF LoopInvariant
  <2> QED
    BY <2>1, <2>2 DEF ProcessorTypeOK, ScalarTypes, FlagTypes, Starts
<1>2. OneCycle
  <2>1. ASSUME NEW c, cycles = {c}
        PROVE  Cardinality(cycles) = 1
    BY <2>1, FS_Singleton
  <2> QED
    BY <2>1, FS_EmptySet DEF OneCycle, LoopInvariant
<1>3. StaleCyclesAborted
  <2> SUFFICES ASSUME NEW c \in cycles
               PROVE  c[1] = controller \/ c[1] \in aborted
    BY DEF StaleCyclesAborted
  <2>1. c[1] \in 1..starts
    BY DEF LoopInvariant
  <2> QED
    BY <2>1 DEF ControllerInvariant
<1>4. OneSubscription
  <2>1. CASE controller = 0
    <3>1. (1..starts) \ aborted = {}
      BY <2>1 DEF ControllerInvariant
    <3> QED
      BY <3>1, FS_EmptySet DEF OneSubscription
  <2>2. CASE controller # 0
    <3>1. (1..starts) \ aborted = {controller}
      BY <2>2 DEF ControllerInvariant
    <3>2. Cardinality({controller}) = 1
      BY FS_Singleton
    <3> QED
      BY <3>1, <3>2 DEF OneSubscription
  <2> QED
    BY <2>1, <2>2
<1> QED
  BY <1>1, <1>2, <1>3, <1>4

(***************************************************************************)
(* However starts, stops, notifications, late subscriptions and failing    *)
(* cycles interleave, createDurableQueueProcessor runs one cycle at a      *)
(* time, a cycle of an ended run has an aborted signal, and at most one    *)
(* subscription is still wanted.                                           *)
(***************************************************************************)
THEOREM ProcessorSafe ==
    Spec => [](ProcessorTypeOK /\ OneCycle /\ StaleCyclesAborted /\ OneSubscription)
<1>1. Init => ProcessorInvariant
  <2> SUFFICES ASSUME Init PROVE ProcessorInvariant
    OBVIOUS
  <2>1. 1..starts = {}
    BY DEF Init
  <2>flags. FlagTypes
    BY DEF Init, FlagTypes
  <2>2. ScalarTypes /\ LoopInvariant
    BY <2>flags, LifecycleBounds DEF Init, ScalarTypes, LoopInvariant
  <2>3. (1..starts) \ aborted = {} /\ {controller} \ {0} = {}
    BY <2>1 DEF Init
  <2> QED
    BY <2>2, <2>3 DEF Init, ProcessorInvariant, ControllerInvariant
<1>2. ProcessorInvariant /\ [Next]_processorVars => ProcessorInvariant'
  BY LifecycleStep, LoopStep DEF ProcessorInvariant
<1>3. ProcessorInvariant => ProcessorTypeOK /\ OneCycle /\ StaleCyclesAborted /\ OneSubscription
  BY InvariantSuffices
<1> QED
  BY <1>1, <1>2, <1>3, PTL DEF Spec

\* What is left of a run that ended never acts for a newer one
\* (queue-processor.ts:26, queue-processor.ts:53).
THEOREM RunsStayApart == Spec => []RunsApart
<1>1. StaleCyclesAborted /\ OneSubscription => RunsApart
  BY DEF RunsApart
<1> QED
  BY <1>1, ProcessorSafe, PTL

--------------------------------------------------------------------------------
(***************************************************************************)
(* The worker.                                                             *)
(***************************************************************************)
\* Only a running worker owes a follow-up.
OwedWhileStarted == owed => started

WorkerTypes ==
    /\ stage \in {"none", "engine", "lane", "returning"}
    /\ lane \in 0..MaxLane /\ appends \in 0..MaxAppends
    /\ troubles \in 0..MaxTroubles

WorkerFlags ==
    /\ greeting \in BOOLEAN /\ retryTimer \in BOOLEAN /\ wakePending \in BOOLEAN
    /\ owed \in BOOLEAN /\ ownWake \in BOOLEAN

WorkerInvariant ==
    /\ ProcessorInvariant
    /\ WorkerTypes /\ WorkerFlags
    /\ OwedWhileStarted /\ FollowUpArranged

-------------------------------------------------------------------------------
(***************************************************************************)
(* The processor's invariant under the worker's steps, which notify        *)
(* without being asked to and leave "pending" behind from inside a cycle.  *)
(***************************************************************************)
LEMMA NotifiedKeepsProcessor ==
    ASSUME ProcessorInvariant, Notified, UNCHANGED notifications
    PROVE  ProcessorInvariant'
<1>1. /\ LoopInvariant' /\ pending' \in BOOLEAN /\ processing' \in BOOLEAN
  BY NotifiedKeepsLoop
<1>2. UNCHANGED <<started, starts, controller, aborted, subscribing, cleanups,
                  unsubscribe, notifications>>
  BY DEF Notified, lifecycleVars, subscriptionVars
<1>3. FlagTypes'
  BY <1>1, <1>2 DEF ProcessorInvariant, ScalarTypes, FlagTypes
<1>4. ScalarTypes' /\ ControllerInvariant'
  BY <1>2, <1>3 DEF ProcessorInvariant, ScalarTypes, ControllerInvariant
<1> QED
  BY <1>1, <1>4 DEF ProcessorInvariant

LEMMA PendingKeepsProcessor ==
    ASSUME ProcessorInvariant, pending' \in BOOLEAN,
           UNCHANGED <<processing, cycles, finishing, lifecycleVars,
                       subscriptionVars, notifications>>
    PROVE  ProcessorInvariant'
<1>1. UNCHANGED <<processing, cycles, finishing, started, starts, controller,
                  aborted, subscribing, cleanups, unsubscribe, notifications>>
  BY DEF lifecycleVars, subscriptionVars
<1>2. FlagTypes'
  BY <1>1 DEF ProcessorInvariant, ScalarTypes, FlagTypes
<1> QED
  BY <1>1, <1>2
  DEF ProcessorInvariant, ScalarTypes, ControllerInvariant, LoopInvariant

LEMMA ProcessorKept ==
    ASSUME ProcessorInvariant, [WorkerNext]_vars
    PROVE  ProcessorInvariant'
<1>1. CASE [Next]_processorVars
  BY <1>1, LifecycleStep, LoopStep DEF ProcessorInvariant
<1>2. CASE Greet \/ TimerFires
  BY <1>2, NotifiedKeepsProcessor DEF Greet, TimerFires
<1>3. CASE LaneFinishes \/ LaneRetries
  <2>1. pending' \in {pending, started \/ pending}
    BY <1>3 DEF LaneFinishes, LaneRetries, Settles, NoticeSettlement
  <2>2. pending' \in BOOLEAN
    BY <2>1 DEF ProcessorInvariant, ScalarTypes, FlagTypes
  <2> QED
    BY <1>3, <2>2, PendingKeepsProcessor DEF LaneFinishes, LaneRetries
<1>4. CASE \/ WorkerStart \/ StartResolves \/ StartRejects \/ WorkerNotify
           \/ WorkerStop \/ CycleEnds \/ CycleRejects \/ LoopEnds
  BY <1>1, <1>4
  DEF WorkerStart, StartResolves, StartRejects, WorkerNotify, WorkerStop,
      CycleEnds, CycleRejects, LoopEnds, Next
<1>5. CASE \/ EngineIdle \/ EngineCommits \/ EngineContended \/ LaneIdle
           \/ HostAppends \/ OthersWork \/ UNCHANGED vars
  BY <1>1, <1>5
  DEF EngineIdle, EngineCommits, EngineContended, LaneIdle, HostAppends,
      OthersWork, vars
<1> QED
  BY <1>2, <1>3, <1>4, <1>5 DEF WorkerNext, Cycle

-------------------------------------------------------------------------------
(***************************************************************************)
(* The worker's own variables.                                             *)
(***************************************************************************)
LEMMA TypesKept ==
    ASSUME WorkerTypes, [WorkerNext]_vars
    PROVE  WorkerTypes'
<1> USE WorkerBounds DEF WorkerTypes, runtimeVars
<1>1. stage' \in {"none", "engine", "lane", "returning"}
  BY DEF WorkerNext, Cycle, WorkerStart, StartResolves, StartRejects, Greet,
         WorkerNotify, TimerFires, WorkerStop, EngineIdle, EngineCommits,
         EngineContended, LaneIdle, LaneFinishes, LaneRetries, CycleEnds,
         CycleRejects, LoopEnds, HostAppends, OthersWork, StageAfter,
         workerVars, vars
<1>2. lane' \in 0..MaxLane
  BY DEF WorkerNext, Cycle, WorkerStart, StartResolves, StartRejects, Greet,
         WorkerNotify, TimerFires, WorkerStop, EngineIdle, EngineCommits,
         EngineContended, LaneIdle, LaneFinishes, LaneRetries, CycleEnds,
         CycleRejects, LoopEnds, HostAppends, OthersWork, workerVars, vars
<1>3. appends' \in 0..MaxAppends
  BY DEF WorkerNext, Cycle, WorkerStart, StartResolves, StartRejects, Greet,
         WorkerNotify, TimerFires, WorkerStop, EngineIdle, EngineCommits,
         EngineContended, LaneIdle, LaneFinishes, LaneRetries, CycleEnds,
         CycleRejects, LoopEnds, HostAppends, OthersWork, Settles, Appended,
         workerVars, vars
<1>4. troubles' \in 0..MaxTroubles
  BY DEF WorkerNext, Cycle, WorkerStart, StartResolves, StartRejects, Greet,
         WorkerNotify, TimerFires, WorkerStop, EngineIdle, EngineCommits,
         EngineContended, LaneIdle, LaneFinishes, LaneRetries, CycleEnds,
         CycleRejects, LoopEnds, HostAppends, OthersWork, Trouble, workerVars, vars
<1> QED
  BY <1>1, <1>2, <1>3, <1>4

LEMMA FlagsKept ==
    ASSUME WorkerFlags, started \in BOOLEAN, [WorkerNext]_vars
    PROVE  WorkerFlags'
<1> USE DEF WorkerFlags, runtimeVars, duties
<1>1. greeting' \in BOOLEAN /\ retryTimer' \in BOOLEAN
  BY DEF WorkerNext, Cycle, WorkerStart, StartResolves, StartRejects, Greet,
         WorkerNotify, TimerFires, WorkerStop, EngineIdle, EngineCommits,
         EngineContended, LaneIdle, LaneFinishes, LaneRetries, CycleEnds,
         CycleRejects, LoopEnds, HostAppends, OthersWork, ScheduleRetry,
         workerVars, vars
<1>2. wakePending' \in BOOLEAN /\ ownWake' \in BOOLEAN
  BY DEF WorkerNext, Cycle, WorkerStart, StartResolves, StartRejects, Greet,
         WorkerNotify, TimerFires, WorkerStop, EngineIdle, EngineCommits,
         EngineContended, LaneIdle, LaneFinishes, LaneRetries, CycleEnds,
         CycleRejects, LoopEnds, HostAppends, OthersWork, Settles, workerVars, vars
<1>3. owed' \in BOOLEAN
  BY DEF WorkerNext, Cycle, WorkerStart, StartResolves, StartRejects, Greet,
         WorkerNotify, TimerFires, WorkerStop, EngineIdle, EngineCommits,
         EngineContended, LaneIdle, LaneFinishes, LaneRetries, CycleEnds,
         CycleRejects, LoopEnds, HostAppends, OthersWork, OwedAfter, Settles,
         workerVars, vars
<1> QED
  BY <1>1, <1>2, <1>3

-------------------------------------------------------------------------------
(***************************************************************************)
(* What is owed.  A notification of a running worker begins a cycle, which *)
(* is the follow-up, or leaves "pending" behind.                           *)
(***************************************************************************)
LEMMA NotifiedServesOwed ==
    ASSUME WorkerInvariant, Notified, StageAfter, OwedAfter
    PROVE  (owed' => owed /\ pending') /\ started' = started
<1> USE DEF WorkerInvariant, ProcessorInvariant
<1>1. started' = started
  BY DEF Notified, lifecycleVars
<1>2. CASE ~started
  BY <1>1, <1>2 DEF OwedAfter, OwedWhileStarted
<1>3. CASE started /\ LoopMayBegin
  <2>1. cycles = {} /\ cycles' # cycles
    BY <1>3 DEF LoopMayBegin, LoopInvariant, Notified, BeginLoop
  <2> QED
    BY <1>1, <2>1 DEF StageAfter, OwedAfter
<1>4. CASE started /\ ~LoopMayBegin
  BY <1>1, <1>4 DEF Notified, OwedAfter
<1> QED
  BY <1>2, <1>3, <1>4

\* At every step what a running worker owes a follow-up is still arranged.
LEMMA OwedKept ==
    ASSUME WorkerInvariant, [WorkerNext]_vars
    PROVE  OwedWhileStarted' /\ FollowUpArranged'
<1> USE DEF WorkerInvariant, OwedWhileStarted, FollowUpArranged
<1>1. CASE WorkerStart
  BY <1>1 DEF WorkerStart, Start, workerVars, duties, loopVars
<1>2. CASE StartResolves
  BY <1>2 DEF StartResolves, SubscribeSucceeds, duties, loopVars, lifecycleVars
<1>3. CASE StartRejects \/ WorkerStop \/ CycleRejects
  BY <1>3 DEF StartRejects, WorkerStop, CycleRejects
<1>4. CASE Greet \/ WorkerNotify \/ TimerFires
  <2>1. Notified /\ StageAfter /\ OwedAfter
    BY <1>4 DEF Greet, WorkerNotify, Notify, TimerFires
  <2> QED
    BY <2>1, NotifiedServesOwed
<1>5. CASE EngineIdle \/ LaneIdle \/ HostAppends \/ UNCHANGED vars
  BY <1>5
  DEF EngineIdle, LaneIdle, HostAppends, vars, processorVars, workerVars, duties,
      loopVars, lifecycleVars
<1>6. CASE EngineCommits \/ OthersWork
  BY <1>6 DEF EngineCommits, OthersWork, processorVars, loopVars, lifecycleVars
<1>7. CASE EngineContended
  BY <1>7 DEF EngineContended, ScheduleRetry, processorVars, lifecycleVars
<1>8. CASE LaneFinishes
  <2>1. started' = started /\ retryTimer' = retryTimer
    BY <1>8 DEF LaneFinishes, lifecycleVars
  <2>2. CASE owed' = started /\ pending' = (started \/ pending)
    BY <2>1, <2>2, Zenon
  <2>3. CASE UNCHANGED <<pending, owed>>
    BY <2>1, <2>3
  <2> QED
    BY <1>8, <2>2, <2>3 DEF LaneFinishes, Settles, NoticeSettlement
<1>9. CASE LaneRetries
  <2>1. retryTimer' = TRUE /\ owed' = started /\ started' = started
    BY <1>9 DEF LaneRetries, ScheduleRetry, lifecycleVars
  <2> QED
    BY <2>1
<1>10. CASE CycleEnds
  <2>1. PICK c \in cycles : CycleReturns(c)
    BY <1>10 DEF CycleEnds
  <2>2. UNCHANGED <<started, retryTimer>> /\ (owed' => owed)
    BY <1>10, <2>1 DEF CycleEnds, CycleReturns, OwedAfter, lifecycleVars
  <2>3. CASE started /\ pending
    <3>1. cycles' # {}
      BY <2>1, <2>3 DEF CycleReturns
    <3> QED
      BY <1>10, <2>2, <3>1 DEF CycleEnds, OwedAfter
  <2>4. CASE ~(started /\ pending)
    BY <2>1, <2>2, <2>4 DEF CycleReturns
  <2> QED
    BY <2>3, <2>4
<1>11. CASE LoopEnds
  <2>1. Finally /\ StageAfter /\ OwedAfter /\ UNCHANGED <<started, retryTimer>>
    BY <1>11 DEF LoopEnds, Finally, lifecycleVars
  <2>2. CASE LoopMustRestart
    <3>1. cycles = {}
      BY <2>1 DEF Finally, ProcessorInvariant, LoopInvariant
    <3>2. cycles' = cycles \cup {<<controller, Cardinality(cycles)>>}
      BY <2>1, <2>2 DEF Finally, BeginLoop
    <3>3. cycles' # cycles
      BY <3>1, <3>2
    <3> QED
      BY <2>1, <3>3 DEF StageAfter, OwedAfter
  <2>3. CASE ~LoopMustRestart
    BY <2>1, <2>3 DEF Finally, OwedAfter
  <2> QED
    BY <2>2, <2>3
<1> QED
  BY <1>1, <1>2, <1>3, <1>4, <1>5, <1>6, <1>7, <1>8, <1>9, <1>10, <1>11
  DEF WorkerNext, Cycle

-------------------------------------------------------------------------------
\* The processor's invariant holds at the start, whoever drives it.
LEMMA ProcessorInit == Init => ProcessorInvariant
<1> SUFFICES ASSUME Init PROVE ProcessorInvariant
  OBVIOUS
<1>1. 1..starts = {}
  BY DEF Init
<1>2. FlagTypes
  BY DEF Init, FlagTypes
<1>3. ScalarTypes /\ LoopInvariant
  BY <1>2, LifecycleBounds DEF Init, ScalarTypes, LoopInvariant
<1>4. (1..starts) \ aborted = {} /\ {controller} \ {0} = {}
  BY <1>1 DEF Init
<1> QED
  BY <1>3, <1>4 DEF Init, ProcessorInvariant, ControllerInvariant

LEMMA WorkerInvariantInitial == WorkerInit => WorkerInvariant
<1> SUFFICES ASSUME WorkerInit PROVE WorkerInvariant
  OBVIOUS
<1>1. ProcessorInvariant
  BY ProcessorInit DEF WorkerInit
<1>2. WorkerTypes
  BY WorkerBounds DEF WorkerInit, WorkerTypes
<1>3. WorkerFlags /\ OwedWhileStarted /\ FollowUpArranged
  BY DEF WorkerInit, WorkerFlags, OwedWhileStarted, FollowUpArranged
<1> QED
  BY <1>1, <1>2, <1>3 DEF WorkerInvariant

LEMMA WorkerInvariantStep == WorkerInvariant /\ [WorkerNext]_vars => WorkerInvariant'
<1> SUFFICES ASSUME WorkerInvariant, [WorkerNext]_vars PROVE WorkerInvariant'
  OBVIOUS
<1>1. ProcessorInvariant'
  BY ProcessorKept DEF WorkerInvariant
<1>2. WorkerTypes'
  BY TypesKept DEF WorkerInvariant
<1>3. WorkerFlags'
  BY FlagsKept DEF WorkerInvariant, ProcessorInvariant, ScalarTypes, FlagTypes
<1> QED
  BY <1>1, <1>2, <1>3, OwedKept DEF WorkerInvariant

\* The invariant always holds.
LEMMA WorkerInvariance == WorkerSpec => []WorkerInvariant
BY WorkerInvariantInitial, WorkerInvariantStep, PTL DEF WorkerSpec

(***************************************************************************)
(* Contention, a retry and the worker's own settlement never leave a       *)
(* running worker without the cycle they ask for (worker.ts:72): the loop  *)
(* tests again or the timer is set, whatever notifies, stops or starts it  *)
(* meanwhile.                                                              *)
(***************************************************************************)
THEOREM FollowUpNeverLost == WorkerSpec => []FollowUpArranged
<1>1. WorkerInvariant => FollowUpArranged
  BY DEF WorkerInvariant
<1> QED
  BY <1>1, WorkerInvariance, PTL

(***************************************************************************)
(* Notifying itself from its timer and from inside its cycles, the worker  *)
(* still runs one cycle at a time, and its ended runs stay apart from the  *)
(* next one.                                                               *)
(***************************************************************************)
THEOREM WorkerOneCycle == WorkerSpec => [](WorkerTypeOK /\ OneCycle /\ RunsApart)
<1>1. WorkerInvariant => WorkerTypeOK /\ OneCycle /\ RunsApart
  BY InvariantSuffices
  DEF WorkerInvariant, WorkerTypes, WorkerFlags, WorkerTypeOK, RunsApart
<1> QED
  BY <1>1, WorkerInvariance, PTL
================================================================================
