----------------------------- MODULE ServiceHost -----------------------------
(* The service host behind QueueFace (services/service-host.ts,              *)
(* services/queueface.ts, services/service-kinds.ts).  A request is          *)
(* authorized and recorded, waits in the host's memory if it is queued, and  *)
(* is executed by an adapter that is materialized on first use.              *)
(* Authorization is asked at every checkpoint, a failed attempt is queued    *)
(* again, an answer the guardrails refuse is asked for again, and anybody    *)
(* may cancel a request or throw the kill switch at any moment.  A step is   *)
(* what happens between two awaits.                                          *)
(*                                                                           *)
(* The clock is one flag: svLate says that every deadline has passed.        *)
EXTENDS Integers, FiniteSets, Sequences

CONSTANTS SvRequests,       \* the requests submitted to the host
          SvMaxAttempts,    \* maxAttempts of the host
          SvCeiling,        \* min(onViolation.maxAttempts, maxGuardrailAttempts)
          SvScenarios       \* the hosts to look at, who submits to them, and what disturbs them

ASSUME SvAssumption == 
    /\ SvMaxAttempts \in Nat \ {0} /\ SvCeiling \in Nat \ {0}
    /\ \A scenario \in SvScenarios : scenario.requests \subseteq SvRequests

VARIABLES
    svHost,     \* the host's options
    svStore,    \* the request store
    svPending,  \* the queue of requests to run
    svAt,       \* where the call that works on a request stands
    svRec,      \* the record that call holds
    svCancel,   \* the status a cancel has read and not yet acted on
    svAdapter,  \* the registry's cached adapter and how many were created
    svTool,     \* what became of the one agent tool call of a request
    svWorld     \* the kill switch, the clock, and how many disturbances are left (a bound)

svVars == <<svHost, svStore, svPending, svAt, svRec, svCancel, svAdapter, svTool, svWorld>>

Trivial == [outcome |-> "authorized", until |-> "none"]
Refused == [outcome |-> "rejected", until |-> "none"]
NoRecord == [status |-> "none", mode |-> "none", attempts |-> 0, guardrail |-> 0,
             decision |-> Trivial, snapshot |-> "none", runs |-> 0, bound |-> FALSE, aborted |-> FALSE]
FinalStatus == {"completed", "failed", "cancelled", "dead-lettered", "rejected", "confirmation-required"}

SvOptions == {host \in [policy : BOOLEAN, snapshots : BOOLEAN, cached : BOOLEAN, retries : BOOLEAN] :
                 host.snapshots => host.policy}

SvInit == \E scenario \in SvScenarios :
          /\ svHost = scenario.host
          /\ svStore = [r \in SvRequests |-> NoRecord]
          /\ svPending = <<>>
          /\ svAt = [r \in SvRequests |-> IF r \in scenario.requests THEN "new" ELSE "absent"]
          /\ svRec = [r \in SvRequests |-> NoRecord]
          /\ svCancel = [r \in SvRequests |-> "none"]
          /\ svAdapter = [state |-> "none", created |-> 0]
          /\ svTool = [r \in SvRequests |-> [state |-> "none", attempt |-> 0]]
          /\ svWorld = [killed |-> FALSE, late |-> FALSE, left |-> scenario.disturbances]

Disturb(world) == svWorld.left > 0 /\ svWorld' = [world EXCEPT !.left = @ - 1]
Goto(r, label) == svAt' = [svAt EXCEPT ![r] = label]
Hold(r, record) == svRec' = [svRec EXCEPT ![r] = record]
Put(r, record) == svStore' = [svStore EXCEPT ![r] = record]

-----------------------------------------------------------------------------
(* Authorization.  A value is trusted by its shape only.                     *)

RequiredFields == {"issuedAt", "authorityProfileRevision", "policyRevision", "killSwitchEngaged", "authorityProfile"}
OptionalFields == {"expiresAt", "subject", "actorId", "grantRevision", "requiresIdempotencyKey",
                   "approvedTarget", "approvalRef", "budget", "detail"}
Shape(fields) == [field \in fields |-> "well-formed"]
BuiltSnapshots ==
    LET whole == Shape(RequiredFields \cup OptionalFields)
    IN  {whole, Shape(RequiredFields), Shape(RequiredFields \cup {"unknown"})}
        \cup {Shape(RequiredFields \ {field}) : field \in RequiredFields}
        \cup {[whole EXCEPT ![field] = "malformed"] : field \in DOMAIN whole}

IsAuthorizationSnapshot(s) ==
    /\ RequiredFields \subseteq DOMAIN s /\ DOMAIN s \subseteq RequiredFields \cup OptionalFields
    /\ \A field \in DOMAIN s : s[field] = "well-formed"

(* What a policy may answer: an outcome, with a field too many, without its
   reason, with a deadline, or with an intent of the wrong shape. *)
PolicyAnswers == [outcome : {"authorized", "rejected", "confirmation-required", "unknown"},
                  flaw : {"none", "extra-field", "no-reason", "bad-intent"},
                  until : {"none", "soon", "unparseable"}]

IsAuthorizationDecision(answer) ==
    /\ answer.flaw # "extra-field"
    /\ \/ answer.outcome = "authorized"
       \/ answer.outcome \in {"rejected", "confirmation-required"} /\ answer.flaw # "no-reason" /\ answer.until = "none"
    /\ answer.outcome = "confirmation-required" => answer.flaw # "bad-intent"

Stale(decision) == decision.until = "unparseable" \/ (decision.until = "soon" /\ svWorld.late)

AuthorizationDecision(answer) ==
    IF ~IsAuthorizationDecision(answer) THEN [outcome |-> "rejected", until |-> "none"]
    ELSE IF answer.outcome = "authorized" /\ Stale(answer) THEN [outcome |-> "rejected", until |-> "none"]
    ELSE [outcome |-> answer.outcome, until |-> answer.until]

(* A snapshot refuses once its deadline has passed, and a request without the
   idempotency key or with another target than it was approved for. *)
CheckSnapshot(record) == record.snapshot = "mismatched" \/ (record.snapshot = "expiring" /\ svWorld.late)

(* What is refused before the policy is asked. *)
RefusedAtOnce(record) == svWorld.killed \/ CheckSnapshot(record)

(* What the policy, if there is one, or its failure decides. *)
Decisions == IF svHost.policy
             THEN {AuthorizationDecision(answer) : answer \in PolicyAnswers} \cup {Refused}
             ELSE {Trivial}

StatusFor(decision, status) == IF decision.outcome = "authorized" THEN status ELSE decision.outcome

(* The live checks repeated just before an adapter runs. *)
StillAuthorized(record) ==
    /\ ~RefusedAtOnce(record)
    /\ svHost.policy => record.decision.outcome = "authorized" /\ ~Stale(record.decision)

-----------------------------------------------------------------------------
(* Submitting: the input is transformed and validated, then recorded.        *)

SvSubmit(r, mode) ==
    /\ svAt[r] = "new"
    /\ \E snapshot \in IF svHost.snapshots THEN {"lasting", "expiring", "mismatched"} ELSE {"none"},
          built \in IF svHost.snapshots THEN {IsAuthorizationSnapshot(s) : s \in BuiltSnapshots} ELSE {TRUE} :
          Hold(r, [NoRecord EXCEPT !.mode = mode, !.status = IF built THEN "accepted" ELSE "rejected",
                                   !.snapshot = IF built THEN snapshot ELSE "none"])
    /\ Goto(r, "creating")
    /\ UNCHANGED <<svHost, svStore, svPending, svCancel, svAdapter, svTool, svWorld>>

InputRefused(r) ==
    /\ svAt[r] = "new"
    /\ \E answer \in {"failure-settlement", "throws"} : Goto(r, answer)
    /\ UNCHANGED <<svHost, svStore, svPending, svRec, svCancel, svAdapter, svTool, svWorld>>

CreateRecord(r) ==
    /\ svAt[r] = "creating"
    /\ \E decision \in IF svRec[r].status = "rejected" \/ RefusedAtOnce(svRec[r]) THEN {Refused} ELSE Decisions :
          LET record == [svRec[r] EXCEPT !.status = StatusFor(decision, "accepted"), !.decision = decision]
              accepted == record.status = "accepted"
          IN  /\ Hold(r, record) /\ Put(r, record)
              /\ Goto(r, IF ~accepted THEN "ended" ELSE IF record.mode = "queued" THEN "queued" ELSE "executing")
              /\ svPending' = IF accepted /\ record.mode = "queued" THEN Append(svPending, r) ELSE svPending
    /\ UNCHANGED <<svHost, svCancel, svAdapter, svTool, svWorld>>

RunNext(r) ==
    /\ svPending # <<>> /\ r = Head(svPending)
    /\ svPending' = Tail(svPending)
    /\ Hold(r, [svStore[r] EXCEPT !.runs = svRec[r].runs, !.bound = svRec[r].bound])
    /\ Goto(r, IF svStore[r].status = "accepted" THEN "picked" ELSE "ended")
    /\ UNCHANGED <<svHost, svStore, svCancel, svAdapter, svTool, svWorld>>

Revalidate(r) ==
    /\ svAt[r] = "picked"
    /\ IF StillAuthorized(svRec[r])
       THEN Goto(r, "executing") /\ UNCHANGED <<svStore, svRec>>
       ELSE LET record == [svRec[r] EXCEPT !.status = "rejected"]
            IN  Hold(r, record) /\ Put(r, record) /\ Goto(r, "ended")
    /\ UNCHANGED <<svHost, svPending, svCancel, svAdapter, svTool, svWorld>>

-----------------------------------------------------------------------------
(* Executing.                                                                *)

Execute(r) ==
    /\ svAt[r] = "executing"
    /\ LET record == [svRec[r] EXCEPT !.status = "running", !.attempts = @ + 1, !.aborted = FALSE]
       IN  Hold(r, record) /\ Put(r, record)
    /\ Goto(r, IF svRec[r].bound THEN "adapted" ELSE "materializing")
    /\ UNCHANGED <<svHost, svPending, svCancel, svAdapter, svTool, svWorld>>

(* The catch block of execute. *)
Failed(r, record) ==
    LET retry == record.mode = "queued" /\ record.attempts < SvMaxAttempts
        failed == [record EXCEPT !.status = IF retry THEN "accepted"
                                            ELSE IF record.mode = "queued" THEN "dead-lettered" ELSE "failed"]
    IN  Hold(r, failed) /\ Put(r, failed) /\ Goto(r, IF retry THEN "requeue" ELSE "ended")

NotQueuedAgain(r) == svPending
QueuedAgain(r) == Append(svPending, r)

Requeue(r) ==
    /\ svAt[r] = "requeue"
    /\ svPending' = QueuedAgain(r)
    /\ Goto(r, "queued")
    /\ UNCHANGED <<svHost, svStore, svRec, svCancel, svAdapter, svTool, svWorld>>

(* The registry's validation refuses the declaration, or a cached adapter is
   shared and another one created: the promise is cached before it settles. *)
CacheMisses == svHost.cached => svAdapter.state = "none"
Materialize(r) ==
    /\ svAt[r] = "materializing"
    /\ \/ Failed(r, svRec[r]) /\ UNCHANGED svAdapter
       \/ /\ svAdapter' = IF CacheMisses
                          THEN [state |-> IF svHost.cached THEN "building" ELSE "none",
                                created |-> IF svHost.cached THEN svAdapter.created + 1 ELSE 0]
                          ELSE svAdapter
          /\ Goto(r, "building")
          /\ UNCHANGED <<svStore, svRec>>
    /\ UNCHANGED <<svHost, svPending, svCancel, svTool, svWorld>>

(* The factory's promise settles; a cached rejection stays cached. *)
AdapterBuilt ==
    /\ svAdapter.state = "building"
    /\ \E state \in {"ready", "failed"} : svAdapter' = [svAdapter EXCEPT !.state = state]
    /\ UNCHANGED <<svHost, svStore, svPending, svAt, svRec, svCancel, svTool, svWorld>>

Adapted(r) ==
    /\ svAt[r] = "building" /\ svAdapter.state # "building"
    /\ \E built \in IF svHost.cached THEN {svAdapter.state = "ready"} ELSE BOOLEAN :
          IF built THEN /\ Hold(r, [svRec[r] EXCEPT !.bound = TRUE]) /\ Goto(r, "adapted")
                        /\ UNCHANGED svStore
                   ELSE Failed(r, svRec[r])
    /\ UNCHANGED <<svHost, svPending, svCancel, svAdapter, svTool, svWorld>>

(* The checkpoint before execution, first time or guardrail retry. *)
Authorize(r) ==
    /\ svAt[r] \in {"adapted", "retrying"}
    /\ \E decision \in IF RefusedAtOnce(svRec[r]) THEN {Refused} ELSE Decisions :
          LET record == [svRec[r] EXCEPT !.status = StatusFor(decision, "running"), !.decision = decision]
          IN  /\ Hold(r, [record EXCEPT !.aborted = FALSE]) /\ Put(r, record)
              /\ Goto(r, IF record.status = "running" THEN "attempt" ELSE "ended")
    /\ UNCHANGED <<svHost, svPending, svCancel, svAdapter, svTool, svWorld>>

(* The tools are projected, the live checks repeated, the adapter called.  What
   the kill switch answers is taken as of the arrival of its answer: between that
   and the call there are only microtasks (service-host.ts:760). *)
AdapterStarts(r) ==
    /\ svAt[r] = "attempt"
    /\ IF StillAuthorized(svRec[r])
       THEN /\ Hold(r, [svRec[r] EXCEPT !.runs = @ + 1]) /\ Goto(r, "running")
            /\ UNCHANGED svStore
       ELSE LET record == [svRec[r] EXCEPT !.status = "rejected"]
            IN  Hold(r, record) /\ Put(r, record) /\ Goto(r, "ended")
    /\ UNCHANGED <<svHost, svPending, svCancel, svAdapter, svTool, svWorld>>

AdapterThrows(r) ==
    /\ svAt[r] \in {"running", "validating"}
    /\ Failed(r, svRec[r])
    /\ UNCHANGED <<svHost, svPending, svCancel, svAdapter, svTool, svWorld>>

AdapterAnswers(r) ==
    /\ svAt[r] = "running"
    /\ Goto(r, "validating")
    /\ UNCHANGED <<svHost, svStore, svPending, svRec, svCancel, svAdapter, svTool, svWorld>>

ResponseValid(r) ==
    /\ svAt[r] = "validating"
    /\ LET record == [svRec[r] EXCEPT !.status = "completed"]
       IN  Hold(r, record) /\ Put(r, record)
    /\ Goto(r, "ended")
    /\ UNCHANGED <<svHost, svPending, svCancel, svAdapter, svTool, svWorld>>

(* The count travels with the record, through failures and requeues too. *)
ForgetViolation(record) == record
CountViolation(record) == [record EXCEPT !.guardrail = @ + 1]

ResponseViolates(r) ==
    /\ svAt[r] = "validating"
    /\ LET counted == svRec[r].guardrail + 1
           failed == [svRec[r] EXCEPT !.status = "failed", !.guardrail = counted]
       IN  IF svHost.retries /\ counted < SvCeiling
           THEN /\ Hold(r, CountViolation(svRec[r])) /\ Goto(r, "retrying")
                /\ UNCHANGED svStore
           ELSE Hold(r, failed) /\ Put(r, failed) /\ Goto(r, "ended")
    /\ UNCHANGED <<svHost, svPending, svCancel, svAdapter, svTool, svWorld>>

(* What invoke returns for a request that has ended, or that it throws: a
   failure may be settled by the operation, or rethrown to the host. *)
Returned(record) ==
    IF record.mode = "queued" \/ record.status \in {"rejected", "confirmation-required"} THEN {"outcome"}
    ELSE IF record.status = "completed" THEN {"settlement", "throws"}
    ELSE {"failure-settlement", "throws"}

InvokeReturns(r) ==
    /\ svAt[r] = "ended"
    /\ \E answer \in Returned(svRec[r]) : Goto(r, answer)
    /\ UNCHANGED <<svHost, svStore, svPending, svRec, svCancel, svAdapter, svTool, svWorld>>

-----------------------------------------------------------------------------
(* Agent tools: an adapter may call one, also after its attempt ended.       *)

InvocationActive(r, attempt) == svAt[r] = "running" /\ attempt = svRec[r].runs /\ ~svRec[r].aborted

ToolCalled(r) ==
    /\ svTool[r].state = "none"
    /\ \E attempt \in 1..svRec[r].runs :
          svTool' = [svTool EXCEPT ![r] = [attempt |-> attempt,
              state |-> IF ~InvocationActive(r, attempt) \/ RefusedAtOnce(svRec[r]) THEN "refused" ELSE "asking"]]
    /\ Disturb(svWorld)
    /\ UNCHANGED <<svHost, svStore, svPending, svAt, svRec, svCancel, svAdapter>>

HandlerRunsAnyway(r, decision) == decision.outcome = "authorized"
HandlerRuns(r, decision) == decision.outcome = "authorized" /\ InvocationActive(r, svTool[r].attempt)

ToolDecided(r) ==
    /\ svTool[r].state = "asking"
    /\ \E decision \in Decisions :
          svTool' = [svTool EXCEPT ![r].state = IF HandlerRuns(r, decision) THEN "handled" ELSE "refused"]
    /\ UNCHANGED <<svHost, svStore, svPending, svAt, svRec, svCancel, svAdapter, svWorld>>

-----------------------------------------------------------------------------
(* Cancelling reads the record, and writes it back one await later; a        *)
(* cancelled record is never run, so only its status is of interest.         *)

CancelReads(r) ==
    /\ svStore[r].status \notin FinalStatus \cup {"none"}
    /\ svCancel[r] = "none"
    /\ svCancel' = [svCancel EXCEPT ![r] = "read"]
    /\ Disturb(svWorld)
    /\ UNCHANGED <<svHost, svStore, svPending, svAt, svRec, svAdapter, svTool>>

CancelWrites(r) ==
    /\ svCancel[r] = "read"
    /\ svCancel' = [svCancel EXCEPT ![r] = "written"]
    /\ Hold(r, [svRec[r] EXCEPT !.aborted = @ \/ svAt[r] \in {"attempt", "running"}])
    /\ Put(r, [svStore[r] EXCEPT !.status = "cancelled"])
    /\ UNCHANGED <<svHost, svPending, svAt, svAdapter, svTool, svWorld>>

KillSwitchThrown == /\ ~svWorld.killed
                    /\ Disturb([svWorld EXCEPT !.killed = TRUE])
                    /\ UNCHANGED <<svHost, svStore, svPending, svAt, svRec, svCancel, svAdapter, svTool>>
DeadlinesPass == /\ ~svWorld.late
                 /\ Disturb([svWorld EXCEPT !.late = TRUE])
                 /\ UNCHANGED <<svHost, svStore, svPending, svAt, svRec, svCancel, svAdapter, svTool>>

SvProgress(r) ==
    \/ CreateRecord(r) \/ RunNext(r) \/ Revalidate(r) \/ Execute(r) \/ Requeue(r) \/ Materialize(r)
    \/ Adapted(r) \/ Authorize(r) \/ AdapterStarts(r)
    \/ AdapterThrows(r) \/ AdapterAnswers(r) \/ ResponseValid(r) \/ ResponseViolates(r)
    \/ InvokeReturns(r)

SvNext ==
    \/ \E r \in SvRequests :
          \/ \E mode \in {"immediate", "queued"} : SvSubmit(r, mode)
          \/ InputRefused(r)
          \/ SvProgress(r)
          \/ ToolCalled(r) \/ ToolDecided(r)
          \/ CancelReads(r) \/ CancelWrites(r)
    \/ AdapterBuilt
    \/ KillSwitchThrown \/ DeadlinesPass

SvFair == WF_svVars(AdapterBuilt \/ \E r \in SvRequests : SvProgress(r))
SvSpec == SvInit /\ [][SvNext]_svVars /\ SvFair
=============================================================================
