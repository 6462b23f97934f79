----------------------------- MODULE MCKernelParts -----------------------------
(***************************************************************************)
(* Instances of the kernel's broker, its graph, its mutations, its source  *)
(* invocations and its pure algorithms for TLC: each part is looked at by  *)
(* itself, and the variables of the others rest.                           *)
(***************************************************************************)
EXTENDS KernelTransport, ContinuousGraph, KernelProgram, KernelInvocations, ProgramPatches, TLC

CONSTANTS Parts, c1, c2, busy, sibling, Backlog

VARIABLES part,
          subject  \* what the algorithms are tried on

(* One source with a backlog of requests, and a sibling with one. *)
TwoSources == {busy, sibling}
TheirTokens == busy :> Backlog @@ sibling :> 1

(* A renderer with two revisions: connected once while host and direct callers
   mix, connected twice with something rare or with both callers.  Two
   renderers that dispatch one; the log overflowing without anything rare. *)
Both == {"host", "direct"}
Renderers ==
    {[clients |-> {c1}, by |-> Both, revs |-> 2, conns |-> 1, rare |-> 1],
     [clients |-> {c1}, by |-> {"host"}, revs |-> 2, conns |-> 2, rare |-> 1],
     [clients |-> {c1}, by |-> Both, revs |-> 2, conns |-> 2, rare |-> 0],
     [clients |-> {c1, c2}, by |-> {"host"}, revs |-> 1, conns |-> 2, rare |-> 1],
     [clients |-> {c1}, by |-> {"host"}, revs |-> 3, conns |-> 2, rare |-> 0]}
Reconnects == {[clients |-> {c1}, by |-> {"host"}, revs |-> 1, conns |-> 1, rare |-> 0]}

(* A decision before a computation, an invocation on a signal with a node that
   takes what is there, a stream that an invocation feeds, a loop that signals
   itself for ever, and actions that trigger an invocation and themselves. *)
Graph(nodes, required, optional, outputs, kind, trigger, mode, inputs) ==
    [nodes |-> nodes, required |-> required, optional |-> optional, outputs |-> outputs,
     kind |-> kind, trigger |-> trigger, mode |-> mode, inputs |-> inputs]
Modes == [x |-> "value", s |-> "signal", y |-> "value", z |-> "value"]
Deciding == Graph({1, 2}, <<{"x"}, {"y"}, {"z"}>>, <<{}, {}, {}>>, <<{"y"}, {"z"}, {"y"}>>,
                  <<"decision", "compute", "compute">>, <<"startup", "none", "none">>, Modes, {"x"})
Signalled == Graph({1, 2, 3}, <<{"x", "s"}, {"y"}, {"x"}>>, <<{}, {"s"}, {"z"}>>, <<{"y"}, {"z"}, {}>>,
                   <<"invoke", "compute", "compute">>, <<"event", "startup", "event">>, Modes, {"x", "s"})
Streamed == Graph({1, 2}, <<{"x"}, {"x", "y"}, {"y"}>>, <<{}, {}, {}>>, <<{"y"}, {"z"}, {"z"}>>,
                  <<"invoke", "compute", "compute">>, <<"event", "none", "event">>,
                  [Modes EXCEPT !.y = "stream"], {"x"})
Looping == Graph({1, 2}, <<{"s"}, {"z"}, {"x"}>>, <<{}, {}, {}>>, <<{"z"}, {"s"}, {}>>,
                 <<"compute", "compute", "compute">>, <<"none", "none", "event">>,
                 [Modes EXCEPT !.z = "signal"], {"s"})
Acting == Graph({1, 2, 3}, <<{"x"}, {"y"}, {"x"}>>, <<{}, {}, {}>>, <<{}, {"z"}, {"y"}>>,
                <<"actions", "compute", "invoke">>, <<"none", "event", "event">>, Modes, {"x"})
ActingOnItself == [Acting EXCEPT !.nodes = {1, 2}, !.trigger[1] = "event"]
Graphs == {[graph |-> g, transitions |-> 3] : g \in {Deciding, Signalled, Streamed}}
    \cup {[graph |-> g, transitions |-> 2] : g \in {Looping, Acting, ActingOnItself}}

(* A machine that emits, requests and returns; an assignment before an event
   that invokes; answers that assign and go on.  The derivations of the first
   program stand in a line, those of the second leave one behind. *)
MM == <<"m">>
XX == <<"x">>
YY == <<"y">>
DT == <<"d", "t">>
DU == <<"d", "u">>
DW == <<"w">>
Doing(do, target, from, event, guard) ==
    [do |-> do, target |-> target, from |-> from, event |-> event, guard |-> guard, value |-> 0]
Emitting(event) == Doing("emit", <<>>, <<>>, event, <<>>)
Requesting(guard) == Doing("request", <<>>, <<>>, "", guard)
Increasing(leaf) == Doing("assign", leaf, leaf, "", <<>>)
Handling == "go" :> <<Increasing(XX), Emitting("next"), Requesting(<<>>)>>
         @@ "next" :> <<Doing("invoke", <<>>, <<>>, "", XX)>>
         @@ "answered" :> <<Requesting(YY), Increasing(YY)>>
         @@ "compensated" :> <<Requesting(<<>>)>>
Moving(from, on, to, guard, actions) ==
    [from |-> from, on |-> on, to |-> to, guard |-> guard, actions |-> actions]
Machine == [context |-> MM, transitions |->
    <<Moving(0, "go", 1, <<>>, <<Emitting("next")>>), Moving(1, "next", 2, <<>>, <<Requesting(<<>>)>>),
      Moving(2, "go", 0, XX, <<>>)>>]
Derive(target, dependencies) == [target |-> target, dependencies |-> dependencies]
Program(derivations) ==
    [handlers |-> Handling, machines |-> <<Machine>>, derivations |-> derivations,
     state |-> [leaf \in {MM, XX, YY, DT, DU, DW} |-> 0],
     events |-> {"go", "next"}, external |-> {YY},
     answers |-> {[ops |-> <<>>, events |-> <<>>],
                  [ops |-> <<Assignment(YY, 1)>>, events |-> <<"answered">>]}]
Lined == <<Derive(DW, {<<"d">>}), Derive(DT, {XX}), Derive(DU, {YY, MM})>>
Uneven == <<Derive(DT, {XX}), Derive(DU, {DT}), Derive(DW, {XX, DU})>>
Programs == {[doc |-> Program(Lined), mutations |-> 3, failures |-> 1],
             [doc |-> Program(Uneven), mutations |-> 2, failures |-> 0]}
UnevenOnce == {[doc |-> Program(Uneven), mutations |-> 1, failures |-> 0]}

(* Programs of up to two handlers in either order, changes to a graph, graphs
   of three nodes, and operations on every tree of six paths. *)
SomeItems == {<<>>} \cup {<<Item(1, v)>> : v \in 1..2} \cup {<<Item(i, v), Item(3 - i, 1)>> : i \in 1..2, v \in 1..2}
SomePrograms == [graph : 0..1, root : 0..1, handlers : SomeItems, machines : {<<>>, <<Item(1, 1)>>}, derivations : {<<>>}]
SomePaths == {<<"a">>, <<"a", "b">>, <<"a", "b", "c">>, <<"a", "c">>, <<"b">>, <<"b", "c">>}
SomeTrees == {tree \in UNION {[paths -> {"object", "array", "leaf"}] : paths \in SUBSET SomePaths} : IsTree(tree)}
SomeOps == {[op |-> o, path |-> p, key |-> "k", value |-> v] :
                o \in {"set", "remove", "merge"}, p \in SomePaths, v \in {"leaf", "object"}}
SomeMutations == [op : {"addNode"}, node : {Item(1, 2), Item(2, 1)}] \cup [op : {"removeNode"}, nodeId : 1..2]
    \cup [op : {"replaceNode"}, nodeId : 1..2, node : {Item(1, 2), Item(2, 1), Item(3, 1)}]
About(about, x, y) == [about |-> about, x |-> x, y |-> y]
IsSubject ==
    \/ \E a, b \in SomePrograms : subject = About("programs", a, b)
    \/ \E nodes \in SomeItems, mutations \in SeqOf(SomeMutations, 3) : subject = About("mutations", nodes, mutations)
    \/ \E edges \in SUBSET ((1..3) \X (1..3)) : subject = About("graphs", 3, edges)
    \/ \E tree \in SomeTrees, op \in SomeOps : subject = About("stores", tree, op)

(* A part with several initial states takes one of them when it is not looked at. *)
Pinned(name, value, values) == part # name => value = CHOOSE v \in values : TRUE
NoSubject == About("none", 0, 0)

PartsInit ==
    /\ part \in Parts
    /\ \/ part = "algorithms" /\ IsSubject
       \/ part # "algorithms" /\ subject = NoSubject
    /\ TrInit /\ Pinned("transport", left, TrScenarios)
    /\ GrInit /\ Pinned("graph", [graph |-> graph, transitions |-> grLeft], GrScenarios)
    /\ KpInit /\ Pinned("program", [doc |-> doc, mutations |-> counters.mutations, failures |-> counters.failures],
                         KpScenarios)
    /\ Init

PartsNext ==
    \/ part = "transport" /\ TrNext /\ UNCHANGED <<grVars, kpVars, vars, part, subject>>
    \/ part = "graph" /\ GrNext /\ UNCHANGED <<trVars, kpVars, vars, part, subject>>
    \/ part = "program" /\ KpNext /\ UNCHANGED <<trVars, grVars, vars, part, subject>>
    \/ part = "invocations" /\ Next /\ UNCHANGED <<trVars, grVars, kpVars, part, subject>>

(* Whatever is under way in the part that is looked at goes on: calls return
   and promises settle.  Nobody has to request, emit, cancel or dispatch. *)
PartsVars == <<trVars, grVars, kpVars, vars, part, subject>>
Underway ==
    \/ part = "transport" /\ TrUnderway /\ UNCHANGED <<grVars, kpVars, vars, part, subject>>
    \/ part = "graph" /\ Traverse /\ UNCHANGED <<trVars, kpVars, vars, part, subject>>
    \/ part = "invocations" /\ (Begin \/ Fold \/ Commit) /\ UNCHANGED <<trVars, grVars, kpVars, part, subject>>

PartsSpec == PartsInit /\ [][PartsNext]_PartsVars /\ WF_PartsVars(Underway)

(***************************************************************************)
(* A patch tells of all its mutation wrote, effects are told apart by      *)
(* their place in the log, and settling every derivation makes it hold.    *)
(***************************************************************************)
ProgramSafe == part = "program" => PatchesTellAll /\ IdsAreLogPlaces /\ IdsDiffer /\ SyncMakesThemHold

(***************************************************************************)
(* What the kernel's pure algorithms do: the patch between two programs    *)
(* leads from one to the other's items, in the other's order where no item *)
(* moved; mutations of a graph leave alone the nodes they do not name, and *)
(* ids clash only through a replacement under another id; the feedback     *)
(* components are the cycles; a store operation is seen on overlapping     *)
(* paths only; shared contexts are shared.                                 *)
(***************************************************************************)
AlgorithmsExact ==
    LET x == subject.x
        y == subject.y
    IN CASE subject.about = "none" -> TRUE
         [] subject.about = "programs" -> DiffReaches(x, y)
         [] subject.about = "mutations" -> MutationsAreLocal(x, y)
         [] subject.about = "graphs" -> FeedbackIsFound(x, y)
         [] subject.about = "stores" -> OpsTouchOverlaps(x, y, SomePaths) /\ SharedIsShared(x, {"a"}, y, SomePaths)

(***************************************************************************)
(* What program-patch.ts:131 says of diffProgram, and it does not do: the  *)
(* program its patch leads to is equal to the target, the order of its     *)
(* items included.                                                         *)
(***************************************************************************)
DiffRebuildsTarget ==
    subject.about = "programs" => ApplyProgramPatch(subject.x, DiffProgram(subject.x, subject.y)) = subject.y

(***************************************************************************)
(* A replica's revision never goes back, and a machine moves along its     *)
(* declared transitions only.                                              *)
(***************************************************************************)
PartsStep ==
    [][/\ part = "transport" => ReplicaForward
       /\ part = "program" => MachinesMoveAsDeclared]_PartsVars

(***************************************************************************)
(* Again and again nothing is left to do: renderers that stay linked have  *)
(* caught up; the traversal has ended, whatever loops the graph has,       *)
(* because its executions are counted; and a request whose invocation      *)
(* emitted or was cancelled is completed, unless a mutation threw.         *)
(***************************************************************************)
PartsProceed ==
    []<>(/\ part = "transport" => RenderersCaughtUp
         /\ part = "graph" => ~run.on
         /\ part = "invocations" => EndedAreCompleted)
================================================================================
