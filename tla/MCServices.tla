----------------------------- MODULE MCServices -----------------------------
(* What serves others: the service host, with one request and any options or *)
(* with two that share an adapter and the queue, storages and runtimes       *)
(* behind HTTP, the faces of a kernel, and the host of proposals.  Each part *)
(* is looked at by itself, and the variables of the others rest.             *)
EXTENDS ServiceHost, StorageAccess, RemoteRuntime, FaceDrive, ProposalHost

CONSTANTS r1, r2, c1, c2, c3, Parts

VARIABLES part,
          subject  \* the call that is tried

Host(policy, snapshots, cached, retries) ==
    [policy |-> policy, snapshots |-> snapshots, cached |-> cached, retries |-> retries]
Scenarios == {[host |-> host, requests |-> {r1}, disturbances |-> 2] : host \in SvOptions}
             \cup {[host |-> Host(FALSE, FALSE, TRUE, TRUE), requests |-> {r1, r2}, disturbances |-> 1]}

(* Every method with every choice of what may be left out, through the remote
   client to either dispatcher, and as a list written by hand to that of the
   filesystem; and batches of three. *)
Value(name) == [is |-> name, coded |-> FALSE]
Given(kind, i) == {Value(<<"first", "second", "third">>[i])}
    \cup (IF kind \in {"maybe", "options"} THEN {Undefined} ELSE {})
    \cup (IF kind = "nullable" THEN {Null} ELSE {})
Arguments(kinds) ==
    {given \in [DOMAIN kinds -> UNION {Given(k, i) : k \in {"maybe", "nullable"}, i \in 1..3}] :
        \A i \in DOMAIN kinds : given[i] \in Given(kinds[i], i)}
StoragesAndMethods ==
    {<<RemoteStorage("kv"), KvMethods>>, <<RemoteStorage("json"), JsonMethods>>,
     <<RemoteStorage("blob"), BlobMethods>>, <<RemoteStorage("journal"), JournalMethods>>,
     <<RemoteQueueStorage("lane"), QueueMethods>>, <<RemoteStorage("scratch"), ScratchMethods>>,
     <<RemoteStorage("archive"), ArchiveMethods>>, <<RemoteArchiveStream("name"), JournalMethods>>,
     <<RemoteArchiveBlob("name"), BlobMethods>>}
SomeOperations == {[name |-> n, value |-> v] : n \in {"write", "read"}, v \in {"x", "y"}}
                  \cup {[name |-> "unknown", value |-> "x"]}
Trying(about, x, y) == [about |-> about, x |-> x, y |-> y]
IsCall ==
    \/ \E s \in StoragesAndMethods : \E operation \in DOMAIN s[2] : \E given \in Arguments(s[2][operation]) :
        subject = Trying("storage", RemoteCall("ref", s[1], operation, s[2][operation], given),
                         [kinds |-> s[2][operation], given |-> given])
    \/ \E n \in 0..3 : \E operations \in [1..n -> SomeOperations] : subject = Trying("batch", "x", operations)
NoCall == Trying("none", 0, 0)

(* Three operations of the controller while an invocation runs; two calls of
   the face with either. *)
Driven(operations, calls, ops, heeds, tasks, troubles) ==
    [operations |-> operations, calls |-> calls, ops |-> ops, heeds |-> heeds,
     tasks |-> tasks, troubles |-> troubles]
Drives == {Driven(2, {}, {}, FALSE, 2, 1),
           Driven(1, {c1}, {"emit", "whenIdle"}, FALSE, 1, 0),
           Driven(0, {c1, c2}, FaceOps \ {"reconfigure"}, TRUE, 1, 1),
           Driven(0, {c1, c2, c3}, {"reconfigure"}, FALSE, 0, 1)}

(* Proposals: four calls one after the other, of which two are interrupted, or
   two calls that overlap, one of them interrupted. *)
Proposing(durable, patient, calls, troubles) ==
    [durable |-> durable, patient |-> patient, calls |-> calls, troubles |-> troubles]
Proposals == {Proposing(TRUE, TRUE, 4, 2), Proposing(TRUE, FALSE, 2, 1), Proposing(FALSE, FALSE, 2, 0)}

Pinned(name, value, values) == part # name => value = CHOOSE v \in values : TRUE

PartsInit ==
    /\ part \in Parts
    /\ IF part = "calls" THEN IsCall ELSE subject = NoCall
    /\ SvInit /\ Pinned("host", [host |-> svHost, requests |-> {r \in SvRequests : svAt[r] = "new"},
                                 disturbances |-> svWorld.left], SvScenarios)
    /\ SaInit /\ Pinned("locks", saServer, SaServers)
    /\ RrInit
    /\ FdInit /\ Pinned("drives", fdLeft, FdScenarios)
    /\ PhInit /\ Pinned("proposals", phUsed.scenario, PhScenarios)

Rests(variables) == UNCHANGED <<part, subject, variables>>
PartsNext ==
    \/ part = "host" /\ SvNext /\ Rests(<<saVars, rrVars, fdVars, phVars>>)
    \/ part = "locks" /\ SaNext /\ Rests(<<svVars, rrVars, fdVars, phVars>>)
    \/ part = "runtime" /\ RrNext /\ Rests(<<svVars, saVars, fdVars, phVars>>)
    \/ part = "drives" /\ FdNext /\ Rests(<<svVars, saVars, rrVars, phVars>>)
    \/ part = "proposals" /\ PhNext /\ Rests(<<svVars, saVars, rrVars, fdVars>>)

partsVars == <<part, subject, svVars, saVars, rrVars, fdVars, phVars>>

(* Materializations and calls of the host end, and what a controller queued
   runs; only these parts go on by themselves, and what clients, networks and
   servers do need not happen. *)
GoesOn ==
    \/ part = "host" /\ (AdapterBuilt \/ \E r \in SvRequests : SvProgress(r)) /\ Rests(<<saVars, rrVars, fdVars, phVars>>)
    \/ part = "drives" /\ FdUnderway /\ Rests(<<svVars, saVars, rrVars, phVars>>)

PartsSpec == PartsInit /\ [][PartsNext]_partsVars /\ WF_partsVars(GoesOn)

-----------------------------------------------------------------------------
SvLive == {"materializing", "building", "adapted", "attempt", "running", "validating", "retrying"}
SvOver == {"ended", "outcome", "settlement", "failure-settlement", "throws"}

(* A queued request that the store calls accepted is in the host's queue or in
   the hands of the call that put it there or took it out: it is never
   forgotten, and never queued twice. *)
AcceptedIsArranged ==
    /\ \A r \in SvRequests : svStore[r].status = "accepted" =>
          \/ svAt[r] \in {"picked", "executing", "requeue"}
          \/ svAt[r] = "queued" /\ \E i \in DOMAIN svPending : svPending[i] = r
    /\ \A i, j \in DOMAIN svPending : svPending[i] = svPending[j] => i = j

(* A request the store calls running is being worked on. *)
RunningIsAlive == \A r \in SvRequests : svStore[r].status = "running" => svAt[r] \in SvLive

(* Retries after failures and retries after guardrail violations together run
   the adapter no more often than the two ceilings allow, although a request
   may alternate between them. *)
RunsAreBounded == \A r \in SvRequests : svRec[r].runs <= SvMaxAttempts + SvCeiling - 1

(* A cached kind is created once, however many requests materialize it. *)
OneAdapter == svAdapter.created <= 1

(* Requests are neither forgotten nor stuck nor run too often, and adapters are
   shared (service-host.ts:691, service-host.ts:785, service-kinds.ts:196); and a
   receipt tells one course of its proposal, with the decisions taken on it: what
   it calls applied was applied (blueprint-agent-host host.ts:54). *)
ServicesSafe == AcceptedIsArranged /\ RunningIsAlive /\ RunsAreBounded /\ OneAdapter /\ ProposalsSafe

(* An adapter is never called after the kill switch or past a deadline, however
   long it took to materialize it or to get there again. *)
StartsAuthorized == \A r \in SvRequests : svRec'[r].runs > svRec[r].runs =>
    /\ ~svWorld.killed
    /\ svWorld.late => svRec[r].snapshot # "expiring" /\ (svHost.policy => svRec[r].decision.until = "none")

(* A request the store calls final is never run again. *)
FinalNeverRuns == \A r \in SvRequests :
    svStore[r].status \in FinalStatus \ {"cancelled"} => svRec'[r].runs = svRec[r].runs

(* A tool's handler runs only while the attempt it was projected for does. *)
ToolsEndWithTheirAttempt == \A r \in SvRequests :
    (svTool[r].state # "handled" /\ svTool'[r].state = "handled") =>
        svAt[r] = "running" /\ svTool[r].attempt = svRec[r].runs /\ ~svRec[r].aborted

(* A request cancelled while nobody works on it stays cancelled and does not
   start (queueface.test.ts:1443). *)
CancelStands == \A r \in SvRequests :
    (svStore[r].status = "cancelled" /\ svAt[r] \in {"queued"} \cup SvOver) =>
        svStore'[r].status = "cancelled" /\ svAt'[r] \in {"queued"} \cup SvOver

(* What no step of the host, an adapter, a tool or a cancel does, nor of a host
   of proposals. *)
ServicesStep ==
    [][StartsAuthorized /\ FinalNeverRuns /\ ToolsEndWithTheirAttempt /\ CancelStands /\ HistoryKept]_<<svVars, phVars>>

(* Every request that was submitted ends, if adapters answer and the host goes
   on calling runNext; and every operation of a controller ends, whatever fails
   before it. *)
RequestsEnd ==
    []<>(/\ \A r \in SvRequests : svAt[r] \in {"absent", "new"} \cup SvOver
         /\ part = "drives" => fdController.queue = <<>>)
-----------------------------------------------------------------------------
(* A lock protects the work of its holder while its tenure lasts and can be
   released by it only; an answered append is not overlooked by the engine; no
   connection outlives its subscriber (dispatch.ts:195, http.ts:150,
   azure-function.ts:99); and who drives a kernel and listens to it sees its
   newest state and the program of its Blueprint. *)
AccessSafe ==
    /\ WorkIsExclusive /\ TokensAreOfLocks /\ LocksCanBeReleased
    /\ AnsweredIsArranged /\ NoConnectionLeft
    /\ AnswersAreShown /\ ProgramIsLowered /\ ListenersAreTold

(* A call through the remote client, JSON and the dispatcher written for it is
   the call on the storage itself, whatever is left out.  The filesystem's
   dispatcher hands the null that JSON makes of left out options to methods whose
   defaults stand in for undefined only (dispatch.ts:147, storage.ts:489): the
   client's call is the call exactly when no options are left out, a list
   written by hand may end before them.  A batch is its operations one after the
   other, each with its own result, whichever of them fail. *)
CallsExact ==
    /\ subject.about = "storage" =>
        LET kinds == subject.y.kinds
            given == subject.y.given
            optionsLeftOut == \E i \in DOMAIN given : kinds[i] = "options" /\ given[i] = Undefined
        IN  /\ CallArrives("cosmos", OnTheWire(subject.x), kinds, given)
            /\ CallArrives("filesystem", OnTheWire(subject.x), kinds, given) <=> ~optionsLeftOut
            /\ CallArrives("filesystem", OnTheWire(LeftOut(subject.x)), kinds, given)
            /\ \A result \in {Value("result"), Null} : ResultArrives(subject.x.operation, result)
    /\ subject.about = "batch" => \A i \in 0..Len(subject.y) :
        LET first == DispatchBatch(subject.x, SubSeq(subject.y, 1, i))
            second == DispatchBatch(first.kept, SubSeq(subject.y, i + 1, Len(subject.y)))
        IN  DispatchBatch(subject.x, subject.y) =
                [kept |-> second.kept, results |-> first.results \o second.results]
=============================================================================
