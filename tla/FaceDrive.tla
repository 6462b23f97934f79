------------------------------ MODULE FaceDrive ------------------------------
(* Who drives a kernel from the host's side: the controller behind a React   *)
(* binding (adapters/react/src/controller.ts), whose operations wait for one *)
(* another, and the ControlFace (face/src/live/controlface.ts), whose calls  *)
(* and notifications do not, but for what its broker queues.  They share the *)
(* kernel's queue of mutations and its detached invocations.  A state and a  *)
(* tree are known by a revision: a tree has in it at least what was there    *)
(* when reading it began.                                                    *)
EXTENDS Integers, Sequences

CONSTANTS FdCalls,      \* calls of the face
          FdPatches,    \* what a patch may change in a Blueprint
          FdMetadata,   \* those of them that no program shows
          FdScenarios   \* the bounds: operations of the controller, calls of the face and
                        \* what they do, whether a host listens, invocations, and failures

FaceOps == {"emit", "restore", "sync", "compensate", "whenIdle", "reconfigure"}
Controller == "controller"
Invocation == "invocation"

ASSUME FdAssumption ==
    /\ FdMetadata \subseteq FdPatches
    /\ FdScenarios \subseteq [operations : Nat, calls : SUBSET FdCalls, ops : SUBSET FaceOps, heeds : BOOLEAN,
                                tasks : Nat, troubles : Nat]
    /\ Controller \notin FdCalls /\ Invocation \notin FdCalls

VARIABLES fdKernel,      \* revision, mutation queue, program, outputs, invocations and their errors
          fdController,  \* GenUIController: operation queue, tree, lastPatch
          fdFace,        \* ControlFace: blueprint, listeners, what they were told
          fdDriver,      \* how far the controller's operation and the face's calls are
          fdLeft         \* how many of each are left

fdVars == <<fdKernel, fdController, fdFace, fdDriver, fdLeft>>

Nobody == [op |-> "none", at |-> "new", behind |-> 0, since |-> 0, candidate |-> {}, lone |-> TRUE]

FdInit ==
    /\ fdKernel = [rev |-> 0, queue |-> <<>>, program |-> {}, outputs |-> 0, running |-> {}, errors |-> 0]
    /\ fdLeft \in FdScenarios
    /\ fdController = [queue |-> IF fdLeft.operations > 0 THEN <<"start">> ELSE <<>>, tree |-> -1, patch |-> -1]
    /\ fdFace = [blueprint |-> {}, heeded |-> "not yet", reads |-> {}, told |-> -1,
                 signature |-> 0, heard |-> 0, missed |-> FALSE, torn |-> FALSE, poisoned |-> FALSE]
    /\ fdDriver = [d \in FdCalls \cup {Controller} |-> Nobody]

Spend(what) == fdLeft[what] > 0 /\ fdLeft' = [fdLeft EXCEPT ![what] = @ - 1]

-----------------------------------------------------------------------------
(* Mutations wait for one another, whoever asks for them. *)
NoEdit == [adds |-> {}, drops |-> {}]
Job(by, op, edit) == [by |-> by, op |-> op, edit |-> edit, task |-> 0]
Settling(task, op) == [Job(Invocation, op, NoEdit) EXCEPT !.task = task]
Queued(job) == fdKernel' = [fdKernel EXCEPT !.queue = Append(@, job)]

(* Whoever waits for the queue as it was is one mutation nearer, and who asked
   for this one goes on. *)
Advanced(job, driver) ==
    [d \in DOMAIN driver |->
        LET nearer == [driver[d] EXCEPT !.behind = IF @ > 0 THEN @ - 1 ELSE 0]
        IN  IF d = job.by THEN [nearer EXCEPT !.at = IF d = Controller /\ @ = "mutating" /\ job.op = "emit"
                                                    THEN "idling" ELSE "mutated"]
            ELSE nearer]

(* A listener of the outputs is told when they differ from what was told last,
   or from none before anybody listened. *)
OutputsTold(face, outputs) ==
    IF face.heeded # "yes" \/ face.signature = outputs THEN face
    ELSE [face EXCEPT !.signature = outputs, !.heard = outputs]

(* A notification about the tree begins with reading it. *)
TreeRead(face, rev) == IF face.heeded = "yes" THEN [face EXCEPT !.reads = @ \cup {rev}] ELSE face

Edited(program, edit) == (program \ edit.drops) \cup edit.adds

FdCommits ==
    /\ fdKernel.queue # <<>>
    /\ LET job == Head(fdKernel.queue)
       IN \E rev \in {fdKernel.rev + 1} \cup {fdKernel.rev : o \in {job.op} \cap {"sync"}},
             outputs \in IF fdLeft.heeds THEN 0..1 ELSE {0}, starts \in 0..1 :
          /\ rev = fdKernel.rev => outputs = fdKernel.outputs /\ starts = 0
          /\ starts <= fdLeft.tasks
          /\ fdLeft' = [fdLeft EXCEPT !.tasks = @ - starts]
          /\ fdKernel' = [fdKernel EXCEPT !.rev = rev, !.queue = Tail(@), !.outputs = outputs,
                             !.program = Edited(@, job.edit),
                             !.running = (@ \ {job.task}) \cup {rev : n \in 1..starts},
                             !.errors = @ + (IF job.op = "failure" THEN 1 ELSE 0)]
          /\ fdFace' = TreeRead(OutputsTold(fdFace, outputs), rev)
          /\ fdDriver' = Advanced(job, fdDriver)
          /\ fdController' = IF job.by = Controller THEN [fdController EXCEPT !.patch = rev] ELSE fdController

(* An operation of the controller is over, whether it succeeds or rejects; the
   first one is followed by a settle nobody waits for if it succeeded. *)
OperationOver(controller, then) == [controller EXCEPT !.queue = Tail(@) \o then]

(* A mutation throws: who asked for it is rejected and nothing is published; a
   patch may have been committed to the program before its graph threw. *)
FdThrows ==
    /\ fdKernel.queue # <<>> /\ Spend("troubles")
    /\ \E job \in {Head(fdKernel.queue)}, program \in {fdKernel.program, Edited(fdKernel.program, Head(fdKernel.queue).edit)} :
          /\ fdKernel' = [fdKernel EXCEPT !.queue = Tail(@), !.program = program,
                             !.running = @ \ {job.task},
                             !.errors = @ + (IF job.by = Invocation THEN 1 ELSE 0)]
          /\ fdDriver' = LET advanced == Advanced(job, fdDriver)
                         IN  CASE job.by = Controller -> [advanced EXCEPT ![Controller] = Nobody]
                               [] job.by \in FdCalls -> [advanced EXCEPT ![job.by].at = "over"]
                               [] OTHER -> advanced
          /\ fdController' = IF job.by = Controller THEN OperationOver(fdController, <<>>) ELSE fdController
          /\ fdFace' = [fdFace EXCEPT !.torn = @ \/ program # fdKernel.program,
                                      !.poisoned = @ \/ (job.by \in FdCalls /\ job.op = "emit")]

(* A detached invocation, known by the revision that started it, answers or
   rejects; either is folded by a mutation. *)
FdAnswers ==
    /\ \E task \in fdKernel.running :
          /\ \A i \in DOMAIN fdKernel.queue : fdKernel.queue[i].task # task
          /\ \/ Queued(Settling(task, "answer")) /\ UNCHANGED fdLeft
             \/ Queued(Settling(task, "failure")) /\ Spend("troubles")
    /\ UNCHANGED <<fdController, fdFace, fdDriver>>

-----------------------------------------------------------------------------
(* whenIdle: no invocation runs, and then the queue as it is has been worked
   off; the errors since anybody asked are thrown at whoever is first. *)
Emitting == \E c \in FdCalls : fdDriver[c].op = "emit" /\ fdDriver[c].at = "mutating"
FdIdle(d) ==
    /\ fdDriver[d].at = "idling" /\ fdKernel.running = {}
    /\ d \in FdCalls => ~Emitting /\ ~fdFace.poisoned
    /\ fdDriver' = [fdDriver EXCEPT ![d].at = "draining", ![d].behind = Len(fdKernel.queue)]
    /\ UNCHANGED <<fdKernel, fdController, fdFace, fdLeft>>

FdDrained(d) ==
    /\ fdDriver[d].at = "draining" /\ fdDriver[d].behind = 0
    /\ fdKernel' = [fdKernel EXCEPT !.errors = 0]
    /\ IF fdKernel.errors = 0
       THEN fdDriver' = [fdDriver EXCEPT ![d].at = "mutated"] /\ UNCHANGED fdController
       ELSE IF d = Controller
       THEN /\ fdDriver' = [fdDriver EXCEPT ![d] = Nobody]
            /\ fdController' = OperationOver(fdController, <<>>)
       ELSE fdDriver' = [fdDriver EXCEPT ![d].at = "over"] /\ UNCHANGED fdController
    /\ UNCHANGED <<fdFace, fdLeft>>

-----------------------------------------------------------------------------
(* The controller.                                                            *)

Operations == {"emit", "resync", "settle"}

FdEnqueue(op) ==
    /\ Spend("operations")
    /\ fdController' = [fdController EXCEPT !.queue = Append(@, op)]
    /\ UNCHANGED <<fdKernel, fdFace, fdDriver>>

(* An operation begins when the one before it has succeeded or failed. *)
MayBegin == fdController.queue # <<>> /\ fdDriver[Controller].at = "new"
Begun(op, at) == [fdDriver EXCEPT ![Controller] = [@ EXCEPT !.op = op, !.at = at]]

FdBegins ==
    /\ MayBegin
    /\ LET op == Head(fdController.queue)
       IN IF op = "settle"
          THEN fdDriver' = Begun(op, "idling") /\ UNCHANGED fdKernel
          ELSE /\ fdDriver' = Begun(op, "mutating")
               /\ Queued(Job(Controller, IF op = "emit" THEN "emit" ELSE "sync", NoEdit))
    /\ UNCHANGED <<fdController, fdFace, fdLeft>>

(* refresh: the store settles, the tree is read, and the listeners have it. *)
FdResolves ==
    /\ fdDriver[Controller].at = "mutated"
    /\ fdDriver' = [fdDriver EXCEPT ![Controller].at = "resolving", ![Controller].since = fdKernel.rev]
    /\ UNCHANGED <<fdKernel, fdController, fdFace, fdLeft>>

FdShows ==
    /\ fdDriver[Controller].at = "resolving"
    /\ fdController' = [OperationOver(fdController, IF fdDriver[Controller].op = "start" THEN <<"settle">> ELSE <<>>)
                           EXCEPT !.tree = fdDriver[Controller].since]
    /\ fdDriver' = [fdDriver EXCEPT ![Controller] = Nobody]
    /\ UNCHANGED <<fdKernel, fdFace, fdLeft>>

-----------------------------------------------------------------------------
(* The face.                                                                  *)

Reconfiguring == {c \in FdCalls : fdDriver[c].op = "reconfigure" /\ fdDriver[c].at \notin {"new", "over"}}
Calling(c, op, at, candidate) ==
    /\ c \in fdLeft.calls /\ op \in fdLeft.ops /\ fdDriver[c].at = "new"
    /\ fdDriver' = [d \in DOMAIN fdDriver |->
            IF d = c THEN [fdDriver[c] EXCEPT !.op = op, !.at = at, !.candidate = candidate,
                                              !.lone = op = "reconfigure" => Reconfiguring = {}]
            ELSE [fdDriver[d] EXCEPT !.lone = @ /\ op # "reconfigure"]]

(* emit, restore, syncExternal and compensate.  An event waits for the one
   before it in the broker. *)
FdDrive(c, op) ==
    /\ op = "emit" => ~Emitting /\ ~fdFace.poisoned
    /\ Calling(c, op, "mutating", {})
    /\ Queued(Job(c, op, NoEdit))
    /\ UNCHANGED <<fdController, fdFace, fdLeft>>

FdWhenIdle(c) ==
    /\ Calling(c, "whenIdle", "idling", {})
    /\ UNCHANGED <<fdKernel, fdController, fdFace, fdLeft>>

(* The broker's queue is a chain of promises: after an event that threw, every
   later one, and whoever waits for it, is rejected. *)
FdRefused(c) ==
    /\ fdFace.poisoned
    /\ \/ Calling(c, "emit", "over", {})
       \/ fdDriver[c].at = "idling" /\ fdDriver' = [fdDriver EXCEPT ![c].at = "over"]
    /\ UNCHANGED <<fdKernel, fdController, fdFace, fdLeft>>

(* A reconfiguration is computed from the Blueprint and the program as they are
   now; only what the program shows takes a mutation. *)
Lowered(blueprint) == blueprint \ FdMetadata
Difference(program, target) == [adds |-> target \ program, drops |-> program \ target]

FdReconfigure(c, change) ==
    LET candidate == fdFace.blueprint \cup {change}
        edit == Difference(fdKernel.program, Lowered(candidate))
    IN /\ change \notin fdFace.blueprint
       /\ Calling(c, "reconfigure", IF edit = NoEdit THEN "mutated" ELSE "mutating", candidate)
       /\ IF edit = NoEdit THEN UNCHANGED fdKernel ELSE Queued(Job(c, "reconfigure", edit))
       /\ fdFace' = [fdFace EXCEPT !.torn = @ \/ Reconfiguring # {}]
    /\ UNCHANGED <<fdController, fdLeft>>

(* The mutation is done: the Blueprint is the candidate, and the tree is told
   once more, but by compensate. *)
Adopted(face, call) ==
    IF call.op = "reconfigure" THEN [face EXCEPT !.blueprint = call.candidate, !.torn = @ /\ ~call.lone] ELSE face
FdReturns(c) ==
    /\ fdDriver[c].at = "mutated"
    /\ fdDriver' = [fdDriver EXCEPT ![c] = [Nobody EXCEPT !.at = "over"]]
    /\ fdFace' = LET face == Adopted(fdFace, fdDriver[c])
                 IN  IF fdDriver[c].op = "compensate" THEN face ELSE TreeRead(face, fdKernel.rev)
    /\ UNCHANGED <<fdKernel, fdController, fdLeft>>

(* A host reads the outputs and subscribes. *)
FdSubscribe ==
    /\ fdFace.heeded = "not yet" /\ fdLeft.heeds
    /\ fdFace' = [fdFace EXCEPT !.heeded = "yes", !.heard = fdKernel.outputs, !.told = fdKernel.rev,
                                !.missed = fdFace.signature # fdKernel.outputs]
    /\ UNCHANGED <<fdKernel, fdController, fdDriver, fdLeft>>

FdTells ==
    /\ \E from \in fdFace.reads :
          fdFace' = [fdFace EXCEPT !.reads = @ \ {from},
                                   !.told = IF fdFace.heeded = "yes" /\ from > @ THEN from ELSE @]
    /\ UNCHANGED <<fdKernel, fdController, fdDriver, fdLeft>>

FdStop ==
    /\ fdFace.heeded = "yes"
    /\ fdFace' = [fdFace EXCEPT !.heeded = "stopped"]
    /\ UNCHANGED <<fdKernel, fdController, fdDriver, fdLeft>>

-----------------------------------------------------------------------------
FdNext ==
    \/ FdCommits \/ FdThrows \/ FdAnswers
    \/ \E d \in FdCalls \cup {Controller} : FdIdle(d) \/ FdDrained(d)
    \/ \E op \in Operations : FdEnqueue(op)
    \/ FdBegins \/ FdResolves \/ FdShows
    \/ \E c \in FdCalls :
          \/ \E op \in {"emit", "restore", "sync", "compensate"} : FdDrive(c, op)
          \/ FdWhenIdle(c) \/ FdRefused(c)
          \/ \E change \in FdPatches : FdReconfigure(c, change)
          \/ FdReturns(c)
    \/ FdSubscribe \/ FdTells \/ FdStop

(* Mutations end, invocations answer, and whoever waits goes on. *)
FdUnderway ==
    \/ FdCommits \/ FdAnswers \/ FdBegins \/ FdResolves \/ FdShows
    \/ FdIdle(Controller) \/ FdDrained(Controller)

-----------------------------------------------------------------------------
(* The tree an emit shows has in it what the invocations its event started have
   answered. *)
AnswersAreShown ==
    (fdDriver[Controller].at = "resolving" /\ fdDriver[Controller].op = "emit") =>
        \A task \in fdKernel.running : task > fdController.patch

(* The program is what the Blueprint of the face lowers to, unless
   reconfigurations overlapped or one failed half-way; and then again after the
   next one that succeeds alone. *)
ProgramIsLowered == (Reconfiguring = {} /\ ~fdFace.torn) => fdKernel.program = Lowered(fdFace.blueprint)

(* Whoever listens has been told the newest revision when no notification is
   under way, and has the newest outputs unless they had changed unheeded. *)
ListenersAreTold ==
    fdFace.heeded = "yes" =>
        /\ fdFace.reads = {} => fdFace.told = fdKernel.rev
        /\ ~fdFace.missed => fdFace.heard = fdKernel.outputs
==============================================================================
