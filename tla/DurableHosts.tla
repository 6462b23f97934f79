----------------------------- MODULE DurableHosts -----------------------------
(***************************************************************************)
(* Several hosts, each with a Blueprint worker, drive the runtime of       *)
(* DurableRuntime.  What calls the runtime is only what the code has: a    *)
(* notification leaves "pending" behind, a cycle begins while it is set,   *)
(* and a cycle is one engine wake and then one queue item (worker.ts:      *)
(* 62-76).  Contention, a message given back and a lost acknowledgement    *)
(* set the worker's one retry timer; a settlement it appended notifies it  *)
(* again.  A cycle that is rejected gets nothing: the error is reported,   *)
(* and the next cycle waits for a notification (queue-processor.ts:28-38). *)
(* Starting and stopping a worker are in BlueprintWorker; here each worker *)
(* is started, and its host may vanish with all it had arranged.           *)
(***************************************************************************)
EXTENDS DurableRuntime

CONSTANT Called  \* the workers that get hints from outside

ASSUME CalledAssumption == Called \subseteq Workers

VARIABLES
    turn,      \* the await of processNext a worker is at: "rest" outside of it
    pending,   \* the queue processor's variable of the same name
    retry,     \* whether the worker's retry timer is set
    appended,  \* the lane's call has journalled an outcome
    emitted,   \* the host has appended an event and has yet to notify
    cutOff     \* the last cycle was rejected, or its host vanished

hostVars == <<turn, pending, retry, appended, emitted, cutOff>>
hostsVars == <<vars, hostVars>>

HostsInit ==
    /\ Init
    /\ turn = [w \in Workers |-> "rest"]
    /\ pending = [w \in Workers |-> FALSE]
    /\ retry = [w \in Workers |-> FALSE]
    /\ appended = [w \in Workers |-> FALSE]
    /\ emitted = [w \in Workers |-> FALSE]
    /\ cutOff = [w \in Workers |-> FALSE]

\* A worker that is going to read the wake again, whatever others do.
WillLook(w) == pending[w] \/ retry[w] \/ appended[w] \/ emitted[w]

-------------------------------------------------------------------------------
(***************************************************************************)
(* What calls a worker.  A host's controller notifies its own worker once  *)
(* its append has returned; hosts without a worker append as well, and     *)
(* nothing promises that anybody is told.                                  *)
(***************************************************************************)
EmitHere(w) ==
    /\ ~emitted[w]
    /\ HostAppend
    /\ emitted' = [emitted EXCEPT ![w] = TRUE]
    /\ UNCHANGED <<turn, pending, retry, appended, cutOff>>

EmitElsewhere == HostAppend /\ UNCHANGED hostVars

\* notify(): of several notifications one is kept.
Notify(w) ==
    /\ pending' = [pending EXCEPT ![w] = TRUE]
    /\ emitted' = [emitted EXCEPT ![w] = FALSE]
    /\ UNCHANGED <<vars, turn, retry, appended, cutOff>>

EmitReturns(w) == emitted[w] /\ Notify(w)

\* A hint from outside, or a start.
Hinted(w) == w \in Called /\ ~pending[w] /\ ~emitted[w] /\ Notify(w)

TimerFires(w) ==
    /\ retry[w]
    /\ retry' = [retry EXCEPT ![w] = FALSE]
    /\ pending' = [pending EXCEPT ![w] = TRUE]
    /\ UNCHANGED <<vars, turn, appended, emitted, cutOff>>

\* The loop finds "pending" set and calls processNext.
Begin(w) ==
    /\ turn[w] = "rest" /\ pending[w]
    /\ pending' = [pending EXCEPT ![w] = FALSE]
    /\ turn' = [turn EXCEPT ![w] = "engine"]
    /\ cutOff' = [cutOff EXCEPT ![w] = FALSE]
    /\ UNCHANGED <<vars, retry, appended, emitted>>

\* processNext returns; the worker notified itself if it appended something.
Ends(w) ==
    /\ turn' = [turn EXCEPT ![w] = "rest"]
    /\ pending' = [pending EXCEPT ![w] = @ \/ appended[w]]
    /\ appended' = [appended EXCEPT ![w] = FALSE]
    /\ UNCHANGED <<emitted, cutOff>>

\* Mutant: contention is left to the next notification.
NoRetry(w) == UNCHANGED retry

ScheduleRetry(w) == retry' = [retry EXCEPT ![w] = TRUE]

-------------------------------------------------------------------------------
(***************************************************************************)
(* First await: processEngineWake.                                         *)
(***************************************************************************)
GoesToLane(w) ==
    /\ turn' = [turn EXCEPT ![w] = "lane"]
    /\ UNCHANGED <<pending, retry, appended, emitted, cutOff>>

EngineIdle(w) ==
    /\ turn[w] = "engine" /\ pc[w] = "idle" /\ ~WakePending
    /\ GoesToLane(w)
    /\ UNCHANGED vars

EngineCalls(w) ==
    /\ turn[w] = "engine"
    /\ ReadWake(w) \/ Acquire(w) \/ AbortEmpty(w) \/ (Commit(w) /\ CommitAccepted(w))
    /\ UNCHANGED hostVars

EngineDone(w) == MarkProcessed(w) /\ GoesToLane(w)

\* "busy", "lease-lost" and "conflict".
EngineContended(w) ==
    /\ AcquireBusy(w) \/ (Commit(w) /\ ~CommitAccepted(w))
    /\ ScheduleRetry(w)
    /\ Ends(w)

-------------------------------------------------------------------------------
(***************************************************************************)
(* Second await: processQueueLaneItem.                                     *)
(***************************************************************************)
\* No message can be leased, though one may be in the hands of a host that
\* is gone: no timer waits for it.
LaneIdle(w) ==
    /\ turn[w] = "lane" /\ pc[w] = "idle"
    /\ \A id \in DOMAIN queue : ~Leasable(id)
    /\ Ends(w)
    /\ UNCHANGED <<vars, retry>>

LaneCalls(w) ==
    /\ turn[w] = "lane"
    /\ LeaseItem(w) \/ ReadSnapshot(w) \/ ExecuteEffect(w) \/ EffectThrows(w)
    /\ UNCHANGED hostVars

LaneAppends(w) ==
    /\ AppendSettlement(w) \/ ReportFailure(w)
    /\ appended' = [appended EXCEPT ![w] = Len(journal') > Len(journal)]
    /\ UNCHANGED <<turn, pending, retry, emitted, cutOff>>

\* Acknowledged or dead: nothing but an appended outcome asks for more.
LaneDone(w) ==
    /\ NackDead(w) \/ (Ack(w) /\ ItemHeld(w))
    /\ Ends(w)
    /\ UNCHANGED retry

\* Given back, or the acknowledgement came too late.
LaneRetries(w) ==
    /\ Nack(w) \/ (Ack(w) /\ ~ItemHeld(w))
    /\ ScheduleRetry(w)
    /\ Ends(w)

-------------------------------------------------------------------------------
(***************************************************************************)
(* Failures.                                                               *)
(***************************************************************************)
\* Errors the runtime catches: the cycle goes on to abort, retry or report.
Caught(w) ==
    /\ \/ TransitionThrows(w)
       \/ AppendThrows(w) /\ pc'[w] = AfterThrow(w)
       \/ ReportThrows(w)
    /\ UNCHANGED hostVars

\* What a cycle leaves of the call it was in.
CallLost(w) ==
    \/ Crash(w)
    \/ pc[w] = "idle" /\ Fault /\ UNCHANGED <<journal, wake, runtimeVars, queue, pc, localVars>>

CutOff(w) ==
    /\ turn' = [turn EXCEPT ![w] = "rest"]
    /\ appended' = [appended EXCEPT ![w] = FALSE]
    /\ cutOff' = [cutOff EXCEPT ![w] = TRUE]

\* processNext rejects: onError, and no follow-up.
Rejected(w) ==
    /\ turn[w] # "rest"
    /\ CallLost(w) \/ AbortAfterThrow(w)
    /\ CutOff(w)
    /\ UNCHANGED <<pending, retry, emitted>>

HostVanishes(w) ==
    /\ turn[w] # "rest" \/ WillLook(w)
    /\ CallLost(w)
    /\ CutOff(w)
    /\ pending' = [pending EXCEPT ![w] = FALSE]
    /\ retry' = [retry EXCEPT ![w] = FALSE]
    /\ emitted' = [emitted EXCEPT ![w] = FALSE]

-------------------------------------------------------------------------------
Runs(w) ==
    \/ Begin(w)
    \/ EngineIdle(w) \/ EngineCalls(w) \/ EngineDone(w) \/ EngineContended(w)
    \/ LaneIdle(w) \/ LaneCalls(w) \/ LaneAppends(w) \/ LaneDone(w) \/ LaneRetries(w)
    \/ Rejected(w) /\ AbortAfterThrow(w)

HostsNext ==
    \/ EmitElsewhere
    \/ \E w \in Workers :
         \/ EmitHere(w) \/ EmitReturns(w) \/ Hinted(w) \/ TimerFires(w)
         \/ Runs(w) \/ Caught(w) \/ Rejected(w) \/ HostVanishes(w)
    \/ Expiry /\ UNCHANGED hostVars

(***************************************************************************)
(* A cycle under way makes its next call, a loop that finds "pending" set  *)
(* begins one, a controller notifies after its append, a timer that is set *)
(* fires, and time passes for abandoned leases.  No host is called because *)
(* there is work for it, and no failure is required to happen or to stop;  *)
(* the budget bounds how many do.                                          *)
(***************************************************************************)
HostsFairness ==
    /\ \A w \in Workers :
         /\ WF_hostsVars(Runs(w))
         /\ WF_hostsVars(EmitReturns(w))
         /\ WF_hostsVars(TimerFires(w))
    /\ WF_hostsVars(AbandonedLeaseExpires /\ UNCHANGED hostVars)
    /\ WF_hostsVars(AbandonedItemExpires /\ UNCHANGED hostVars)

HostsSpec == HostsInit /\ [][HostsNext]_hostsVars /\ HostsFairness

-------------------------------------------------------------------------------
(***************************************************************************)
(* Every journalled entry is committed once a worker is notified, has its  *)
(* timer set or appended the entry itself, through contention, lost leases *)
(* and vanished holders.  The one way out is a cycle of that worker that   *)
(* is rejected, or a host that vanishes, with no further notification:     *)
(* "Thrown processNext errors call onError and allow later notification    *)
(* recovery" (durable-runtime.yaml:485).                                   *)
(***************************************************************************)
EntriesAreApplied ==
    \A w \in Workers : \A i \in 1..(2 * MaxEvents) :
       (i <= Len(journal) /\ WillLook(w))
          ~> (i <= checkpoint.cursor \/ (cutOff[w] /\ ~WillLook(w)))

EffectsFinished ==
    \A id \in DOMAIN queue :
       /\ queue[id].state \in {"done", "dead"}
       /\ Settling(journal, id) => id \in checkpoint.settled

(***************************************************************************)
(* While one worker is called again and again, every effect the commits    *)
(* emitted is acknowledged or dead in the end, whoever leased it first,    *)
(* and the outcome of one that settles is folded into the state.           *)
(* Notifications are hints a host supplies (durable-runtime.yaml:728), and *)
(* a cycle takes one message, so nothing less is promised.                 *)
(***************************************************************************)
EffectsFinish ==
    \A w \in Workers : []<>WillLook(w) => []<>EffectsFinished
===============================================================================
