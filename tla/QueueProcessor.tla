----------------------------- MODULE QueueProcessor -----------------------------
(***************************************************************************)
(* createDurableQueueProcessor: a host starts and stops it, a subscription *)
(* notifies it, and it runs processing cycles.  JavaScript runs one        *)
(* synchronous block at a time, so an action is the code between two       *)
(* awaits: start up to the await of subscribe, what follows when subscribe *)
(* settles, notify, stop, the return of processNext with the loop's next   *)
(* test, and the finally block of the loop.                                *)
(*                                                                         *)
(* Each start that is not ignored creates an AbortController; starts are   *)
(* numbered, and the number names its controller, its signal and its       *)
(* subscription.                                                           *)
(***************************************************************************)
EXTENDS Naturals, FiniteSets

CONSTANTS
    MaxStarts,        \* bound: starts that are not ignored
    MaxNotifications  \* bound: notifications that are not ignored

ASSUME LifecycleBounds == MaxStarts \in Nat /\ MaxNotifications \in Nat

VARIABLES
    started,      \* the variable of the same name
    pending,      \* the variable of the same name
    processing,   \* whether the promise "processing" is set
    cycles,       \* calls of processNext in flight: <<start whose signal the
                  \* call was given, a number that keeps two calls apart>>
    finishing,    \* loops that ended and have yet to run their finally block
    starts,       \* number of starts so far
    controller,   \* abortController, 0 for null
    aborted,      \* the controllers that were aborted
    subscribing,  \* the starts that await their subscribe call
    cleanups,     \* the subscriptions that returned a cleanup not called yet
    unsubscribe,  \* whose cleanup "unsubscribe" holds, 0 for undefined
    notifications \* notifications so far

loopVars == <<pending, processing, cycles, finishing>>
lifecycleVars == <<started, starts, controller, aborted>>
subscriptionVars == <<subscribing, cleanups, unsubscribe>>
processorVars == <<loopVars, lifecycleVars, subscriptionVars, notifications>>

Starts == 1..MaxStarts

Init ==
    /\ started = FALSE /\ pending = FALSE /\ processing = FALSE
    /\ cycles = {} /\ finishing = 0
    /\ starts = 0 /\ controller = 0 /\ aborted = {}
    /\ subscribing = {} /\ cleanups = {} /\ unsubscribe = 0
    /\ notifications = 0

-------------------------------------------------------------------------------
(***************************************************************************)
(* start and the settlement of its subscribe call.                         *)
(***************************************************************************)
\* Mutant: a repeated start is not ignored.
MayStartAgain == TRUE

MayStart == ~started

Start ==
    /\ MayStart
    /\ starts < MaxStarts
    /\ started' = TRUE
    /\ starts' = starts + 1
    /\ controller' = starts + 1
    /\ subscribing' = subscribing \cup {starts + 1}
    /\ UNCHANGED <<loopVars, aborted, cleanups, unsubscribe, notifications>>

\* Whatever cleanup the subscription returns replaces the one held; a
\* subscription without one leaves "undefined" behind.
SubscribeSucceeds(s) ==
    /\ s \in subscribing
    /\ subscribing' = subscribing \ {s}
    /\ \/ /\ cleanups' = cleanups \cup {s}
          /\ unsubscribe' = s
       \/ /\ unsubscribe' = 0
          /\ UNCHANGED cleanups
    /\ UNCHANGED <<loopVars, lifecycleVars, notifications>>

\* The catch block works on the processor as it is now, not as it was when
\* this start began; without a controller its abort() call throws again.
SubscribeFails(s) ==
    /\ s \in subscribing
    /\ subscribing' = subscribing \ {s}
    /\ started' = FALSE
    /\ aborted' = aborted \cup ({controller} \ {0})
    /\ controller' = 0
    /\ UNCHANGED <<loopVars, starts, cleanups, unsubscribe, notifications>>

-------------------------------------------------------------------------------
(***************************************************************************)
(* notify and the processing loop.                                         *)
(***************************************************************************)
\* Mutant: a loop is started whether or not one is running.
LoopMayBeginAnyway == TRUE

LoopMayBegin == ~processing

\* A loop that finds work calls processNext with the current signal.
BeginLoop ==
    /\ processing' = TRUE
    /\ pending' = FALSE
    /\ cycles' = cycles \cup {<<controller, Cardinality(cycles)>>}

\* What notify() does, whoever calls it.
Notified ==
    /\ IF ~started THEN UNCHANGED <<pending, processing, cycles>>
       ELSE IF LoopMayBegin THEN BeginLoop
       ELSE pending' = TRUE /\ UNCHANGED <<processing, cycles>>
    /\ UNCHANGED <<finishing, lifecycleVars, subscriptionVars>>

Notify ==
    /\ started
    /\ notifications < MaxNotifications
    /\ notifications' = notifications + 1
    /\ Notified

\* processNext resolved: the loop tests again.
CycleReturns(c) ==
    /\ c \in cycles
    /\ IF started /\ pending
       THEN /\ pending' = FALSE
            /\ cycles' = (cycles \ {c}) \cup {<<controller, c[2]>>}
            /\ UNCHANGED finishing
       ELSE /\ cycles' = cycles \ {c}
            /\ finishing' = finishing + 1
            /\ UNCHANGED pending
    /\ UNCHANGED <<processing, lifecycleVars, subscriptionVars, notifications>>

\* processNext rejected: the loop is left, whatever is pending.
CycleThrows(c) ==
    /\ c \in cycles
    /\ cycles' = cycles \ {c}
    /\ finishing' = finishing + 1
    /\ UNCHANGED <<pending, processing, lifecycleVars, subscriptionVars,
                   notifications>>

LoopMustRestart == started /\ pending

Finally ==
    /\ finishing > 0
    /\ finishing' = finishing - 1
    /\ IF LoopMustRestart
       THEN BeginLoop
       ELSE processing' = FALSE /\ UNCHANGED <<pending, cycles>>
    /\ UNCHANGED <<lifecycleVars, subscriptionVars, notifications>>

-------------------------------------------------------------------------------
AbortedByStop == aborted \cup {controller}

Stop ==
    /\ started
    /\ started' = FALSE
    /\ pending' = FALSE
    /\ aborted' = AbortedByStop
    /\ controller' = 0
    /\ cleanups' = cleanups \ {unsubscribe}
    /\ unsubscribe' = 0
    /\ UNCHANGED <<processing, cycles, finishing, starts, subscribing,
                   notifications>>

Next ==
    \/ Start \/ Notify \/ Finally \/ Stop
    \/ \E s \in Starts : SubscribeSucceeds(s) \/ SubscribeFails(s)
    \/ \E c \in cycles : CycleReturns(c) \/ CycleThrows(c)

Spec == Init /\ [][Next]_processorVars

-------------------------------------------------------------------------------
\* Every variable stays in its type; loops end one at a time.
ProcessorTypeOK ==
    /\ started \in BOOLEAN /\ pending \in BOOLEAN /\ processing \in BOOLEAN
    /\ cycles \subseteq (Starts \X Nat)
    /\ finishing \in {0, 1}
    /\ starts \in 0..MaxStarts
    /\ controller \in 0..MaxStarts /\ unsubscribe \in 0..MaxStarts
    /\ aborted \subseteq Starts
    /\ subscribing \subseteq Starts /\ cleanups \subseteq Starts
    /\ notifications \in 0..MaxNotifications

(***************************************************************************)
(* One processor runs at most one cycle at a time, across notifications    *)
(* that arrive while a cycle runs, while its loop ends, and after a stop   *)
(* and a new start that find the old cycle still running.                  *)
(***************************************************************************)
OneCycle == Cardinality(cycles) + finishing <= 1

(***************************************************************************)
(* A cycle is told to stop: a running cycle whose start is no longer the   *)
(* current one holds an aborted signal.                                    *)
(***************************************************************************)
StaleCyclesAborted == \A c \in cycles : c[1] = controller \/ c[1] \in aborted

(***************************************************************************)
(* "Starting subscribes once": of all subscriptions asked for, at most one *)
(* is not told to end.                                                     *)
(***************************************************************************)
OneSubscription == Cardinality((1..starts) \ aborted) <= 1

\* A run that ended disturbs the next one neither by a cycle nor by a subscription.
RunsApart == StaleCyclesAborted /\ OneSubscription

===============================================================================
