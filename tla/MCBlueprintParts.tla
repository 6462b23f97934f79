---------------------------- MODULE MCBlueprintParts ----------------------------
(***************************************************************************)
(* Instances for TLC of what runs a Blueprint outside of the kernel: the   *)
(* worker, the snapshot subscription, the rendered session, the hosted     *)
(* children, their projection, and the algorithms that lower a Blueprint   *)
(* and materialize its program.  Each part is looked at by itself, and the *)
(* variables of the others rest.                                           *)
(***************************************************************************)
EXTENDS BlueprintHosting, BlueprintLowering, BlueprintProgram, TLC

CONSTANT Parts

VARIABLE subject  \* what the algorithms are tried on

(* Trees over two paths; a path may change its props. *)
SomeTrees == {[p \in paths |-> 1] : paths \in SUBSET {"a", "b"}} \cup {"a" :> 2, "a" :> 2 @@ "b" :> 1}

(* Axes over three tiers. *)
TiersOf(ids) == [i \in DOMAIN ids |-> [id |-> ids[i]]]
RecipesOf(ends) == [i \in DOMAIN ends |-> [id |-> i, from |-> ends[i][1], to |-> ends[i][2]]]
RecipeEnds == {"t1", "t2", "t3"} \X {"t1", "t2", "t3", "unknown"}

(* Blueprints. *)
LowView(capability, region) == [capability |-> <<capability>>, regions |-> {region}, before |-> <<>>, after |-> <<>>, wrap |-> <<>>]
LowSlot(id, region) == [id |-> id, region |-> region]
Skeleton(slots) == [slots |-> slots, root |-> "root", layout |-> {}, exported |-> <<>>, allowed |-> {}]
ByTier(id) == [by |-> "tier", tier |-> id]
ByCapability(c) == [by |-> "capability", capability |-> c]
Asking(service, operation) == [id |-> "s", service |-> service, operation |-> operation]
Offering(by, c1, c2) == [by |-> by, contracts |-> [read |-> c1, fetch |-> c2]]
LowCell(inputs, hosts, sources, views) == [inputs |-> inputs, hosts |-> hosts, events |-> {"e"}, handles |-> {"e"},
    compute |-> "authored", sources |-> sources, views |-> views]
LowChild(required) == [ref |-> FALSE, required |-> required]
SomeCells == [a |-> LowCell({}, <<>>, <<Asking("svc", "read")>>, [main |-> LowView("hi", "root")]),
              b |-> LowCell({"y"}, <<LowChild({"y"})>>, <<>>, [side |-> LowView("lo", "left")])]

Substitute(id, cells, services) == [id |-> id, when |-> {"here"}, cells |-> cells, services |-> services]
Overriding(sources, handles) == [cell |-> "a", sources |-> sources, compute |-> <<"selected">>, handles |-> handles]
MovedSource == Overriding(<<<<Asking("svc", "fetch")>>>>, <<{}>>)
Substitutes == {Substitute("p", <<MovedSource>>, <<>>),
             Substitute("p", <<>>, <<[service |-> "svc", declaration |-> Offering("other", "c", "c")]>>),
             Substitute("p", <<Overriding(<<>>, <<{"e", "undeclared"}>>)>>, <<>>),
             Substitute("p", <<Overriding(<<<<>>>>, <<>>)>>, <<[service |-> "svc", declaration |-> Offering("other", "c", "d")]>>)}
ServiceRecipe(from, to, program) == [id |-> to, from |-> from, to |-> to, programs |-> <<program>>, fallback |-> "p"]
ServiceChains == {<<>>} \cup {<<ServiceRecipe("s1", "s2", p)>> : p \in Substitutes}
    \cup {<<ServiceRecipe("s2", "s3", p), ServiceRecipe("s1", "s2", Substitute("p", <<MovedSource>>, <<>>))>> : p \in Substitutes}

Representing(id, when, extends, remove, views, decorators) ==
    [id |-> id, when |-> when, extends |-> extends, remove |-> remove, views |-> views, decorators |-> decorators,
     presentation |-> <<>>, append |-> <<>>]
Decorator(select, before, after) == [select |-> select, before |-> before, after |-> after]
NoViews == [c \in {} |-> 0]
ViewOf(cell, name, offered) == cell :> (name :> offered)
Representations(capability) ==
    {<<Representing("r", {}, <<>>, {}, ViewOf("a", "main", LowView(capability, "root")), <<>>)>>,
     <<Representing("r", {}, <<>>, {<<"a", "main">>}, NoViews, <<>>),
       Representing("q", {"here"}, <<"r">>, {}, ViewOf("a", "alt", LowView(capability, "root")),
           <<Decorator(<<{"a", "b"}>>, <<capability>>, <<>>)>>)>>,
     <<Representing("r", {}, <<>>, {}, ViewOf("a", "main", LowView("lo", "root")), <<Decorator(<<{"a"}>>, <<>>, <<"extra">>)>>)>>,
     <<[Representing("r", {}, <<>>, {}, ViewOf("a", "main", LowView(capability, "more")), <<>>) EXCEPT
            !.presentation = <<Skeleton(<<LowSlot("root", <<>>), LowSlot("left", <<"root">>)>>)>>, !.append = <<LowSlot("more", <<"root">>)>>]>>,
     <<Representing("r", {}, <<"q">>, {}, NoViews, <<>>), Representing("q", {"here"}, <<"r">>, {}, NoViews, <<>>)>>,
     <<Representing("r", {}, <<>>, {}, NoViews, <<Decorator(<<{"a"}>>, <<"bare">>, <<>>)>>)>>}
ProjectionRecipe(from, to, representations) ==
    [id |-> to, from |-> from, to |-> to, representations |-> representations, fallback |-> "r"]
ProjectionChains ==
    {<<>>} \cup {<<ProjectionRecipe("p1", "p2", r)>> : r \in Representations("mid")}
    \cup {<<ProjectionRecipe("p1", "p2", r), ProjectionRecipe("p2", "p3", q)>> :
             r \in Representations("mid"), q \in Representations("low")}
ByName == {ByCapability(c) : c \in {"hi", "mid", "low", "lo", "extra"}}
SomeAllowed == {{ByTier("p1"), ByTier("p2"), ByTier("p3"), ByCapability("lo"), ByCapability("extra")},
                {ByTier("p1"), ByCapability("mid"), ByTier("p3"), ByCapability("lo")},
                ByName, {ByTier("p1"), ByTier("p2")}}
ServiceTiers(recipes) == TiersOf([i \in 1..(Len(recipes) + 1) |-> <<"s1", "s2", "s3">>[i]])
Vocabulary == <<[id |-> "p1", capabilities |-> {"hi"}], [id |-> "p2", capabilities |-> {"mid"}],
                [id |-> "p3", capabilities |-> {"low"}]>>
LowBlueprint(service, projection, allowed) ==
    [identity |-> "blueprint", mode |-> "fixed", policy |-> {}, cells |-> SomeCells, externals |-> {}, state |-> "seed",
     services |-> [svc |-> Offering("authored", "c", "c")],
     serviceTiers |-> ServiceTiers(service), serviceRecipes |-> service,
     projectionTiers |-> IF projection = <<>> THEN <<[id |-> "p1", capabilities |-> {"hi", "low"}]>> ELSE Vocabulary,
     projectionRecipes |-> projection,
     presentation |-> <<[Skeleton(<<LowSlot("root", <<>>), LowSlot("left", <<"root">>)>>) EXCEPT !.allowed = allowed]>>]

(* Documents that host each other by Cells that supply an input or not; inline
   documents are later ones. *)
HostedAs(kind, documents) == [kind : {kind}, document : documents, supplied : {{}, {"r"}}]
BoundLater == [kind |-> "bound", document |-> 0, supplied |-> {}]
SomeHosts(own) ==
    {<<>>} \cup {<<h>> : h \in HostedAs("ref", 1..4)}
    \cup {<<BoundLater, h>> : h \in HostedAs("inline", (own + 1)..3)}
    \cup {<<g, h>> : g \in HostedAs("ref", 1..3), h \in HostedAs("inline", (own + 1)..3)}
LowDocument(id, valid, required, hosts) == [id |-> id, valid |-> valid, required |-> required, hosts |-> hosts]

(* Patches. *)
PatchOps == {[op |-> "addCell", cell |-> c, definition |-> LowCell({}, h, <<>>, NoViews)] : c \in {"a", "c"}, h \in {<<>>, <<LowChild({})>>}}
  \cup {[op |-> "replaceCell", cell |-> c, definition |-> LowCell({}, <<>>, s, NoViews)] : c \in {"b", "c"}, s \in {<<>>, <<Asking("svc", "none")>>}}
  \cup {[op |-> "removeCell", cell |-> c] : c \in {"a", "b"}}
  \cup {[op |-> "setPresentation", presentation |->
         [Skeleton(<<LowSlot("root", <<>>)>> \o s) EXCEPT !.allowed = {ByCapability("hi"), ByCapability("lo")}]] :
              s \in {<<>>, <<LowSlot("left", <<"root">>)>>}}
PatchModes == [mode : {"fixed", "reconfigurable"}, policy : {{}}]
   \cup [mode : {"adaptive"}, policy : SUBSET {"addCell", "replaceCell", "removeCell", "setPresentation"}]

(* Programs: two Cells on a skeleton of three slots, of which the second may
   host a Blueprint and then declares the event of its outputs; states and seeds as sets
   of paths; patterns, edges and choices. *)
PView(capability, regions, decorated) ==
    [name |-> "main", capability |-> capability, regions |-> regions,
     before |-> IF decorated THEN <<"deco">> ELSE <<>>, after |-> <<>>, wrap |-> IF decorated THEN <<"deco">> ELSE <<>>]
PCell(id, inputs, outputs, sources, compute, handles, views, hosts) ==
    [id |-> id, inputs |-> inputs, outputs |-> outputs, sources |-> sources, compute |-> compute,
     events |-> IF hosts = "none" THEN {"e"} ELSE {"e", HostedOutputEvent},
     handles |-> handles, views |-> views, hosts |-> hosts]
Reading(token, required) == [token |-> token, required |-> required]
Writing(token, from) == [token |-> token, from |-> from]
TokenX == <<"x">>
TokenXY == <<"x", "y">>
LoadedSource == [id |-> "load", service |-> "svc", operation |-> "read"]

SomeViews == {<<>>} \cup {<<PView(<<"card">>, r, d)>> : r \in {<<"root">>, <<"side", "root">>, <<"loose">>, <<>>}, d \in BOOLEAN}
             \cup {<<PView(<<>>, <<"side">>, FALSE)>>}
FirstCells == {PCell("a", i, o, s, c, h, v, "none") :
              i \in {<<>>, <<Reading(TokenX, TRUE)>>}, o \in {<<>>, <<Writing(TokenXY, <<>>)>>},
              s \in {<<>>, <<LoadedSource>>}, c \in {<<>>, <<TokenXY>>}, h \in {{}, {"e"}}, v \in SomeViews}
SecondCells == {PCell("b", <<Reading(TokenXY, TRUE), Reading(TokenX, FALSE)>>, o, <<>>, <<>>, {"e"}, v, h) :
              o \in {<<>>, <<Writing(TokenX, <<>>)>>}, v \in {<<>>, <<PView(<<>>, <<"root">>, FALSE)>>, <<PView(<<"card">>, <<"side">>, TRUE)>>}, h \in {"none", "ref"}}
SlotTrees == {<<[id |-> "root", region |-> <<>>], [id |-> "side", region |-> s], [id |-> "loose", region |-> l]>> :
             s \in {<<>>, <<"root">>}, l \in {<<>>, <<"loose">>}}
SomePresentations == {<<>>} \cup {<<[slots |-> s, root |-> "root"]>> : s \in SlotTrees}
LeafAt(path) == [path |-> path, kind |-> "leaf"]
Branch(path) == [path |-> path, kind |-> "object"]
SomeStates == {{}, {LeafAt(<<TokenX>>)}, {LeafAt(<<TokenXY>>)}, {Branch(<<TokenX>>), LeafAt(<<TokenX, <<"y">>>>)}, {Branch(<<TokenX>>)}}
SomeSeeds == {{}, {Branch(<<TokenX>>), LeafAt(<<TokenX, <<"y">>>>)}, {LeafAt(<<TokenX>>)}, {LeafAt(<<<<"blueprintRunState">>>>)},
          {Branch(<<<<"blueprintRunState">>>>), LeafAt(<<<<"blueprintRunState">>, <<"cells">>>>)}}
SomeEvents == {[node |-> n, name |-> e] : n \in {<<"a">>, <<"a", "main", "root">>}, e \in {"e", "f"}}
PatternParts == [text : {<<1>>, <<2>>, <<2, 1>>}, parameter : {FALSE}] \cup {[parameter |-> TRUE]}
ChoiceOf(requires, opt1, opt2) == [requires |-> requires, options |-> [o1 |-> opt1, o2 |-> opt2]]
SomeTransitions == [events : SeqOf(SomeEvents, 2), sources : SeqOf({"s1", "s2"}, 2), requests : SeqOf({"r"}, 1),
   services : SeqOf({[events |-> e] : e \in SeqOf(SomeEvents, 1)}, 1), sync : {<<>>, <<TRUE>>, <<FALSE>>}]
PlainCell == PCell("a", <<>>, <<>>, <<>>, <<>>, {"e"}, <<PView(<<"card">>, <<"root">>, FALSE)>>, "none")
SomeNodes == SUBSET {"n", "c", "d"}

About(about, x, y) == [about |-> about, x |-> x, y |-> y]
IsLowering ==
    \/ \E ends \in SeqOf(RecipeEnds, 3), n \in 1..3 :
          subject = About("axes", TiersOf([i \in 1..n |-> <<"t1", "t2", "t3">>[i]]), RecipesOf(ends))
    \/ \E s \in ServiceChains, p \in ProjectionChains, allowed \in SomeAllowed, context \in {"here", "there"} :
          subject = About("lowerings", LowBlueprint(s, p, allowed), context)
    \/ \E h1 \in SomeHosts(1), h2 \in SomeHosts(2), h3 \in SomeHosts(3), id \in 2..3,
         last \in {<<FALSE, {}>>, <<TRUE, {}>>, <<TRUE, {"r"}>>} :
          subject = About("documents", <<LowDocument(1, TRUE, {}, h1), LowDocument(2, TRUE, {}, h2),
                                         LowDocument(id, last[1], last[2], h3)>>, 1)
    \/ \E m \in PatchModes, patch \in SeqOf(PatchOps, 2), origin \in {"runtime", "authorized"} :
          subject = About("patches", [LowBlueprint(<<>>, <<>>, ByName) EXCEPT !.mode = m.mode, !.policy = m.policy],
                          [origin |-> origin, patch |-> patch])

IsProgram ==
    \/ \E a \in FirstCells, b \in SecondCells, p \in SomePresentations :
          \/ subject = About("programs", <<<<a, b>>, p>>, <<{}, {}>>)
          \/ a.sources # <<>> /\ a.handles = {} /\ p = <<>> /\ a.views = <<>>
             /\ \E s \in SomeStates, d \in SomeSeeds : subject = About("programs", <<<<a, b>>, p>>, <<s, d>>)
    \/ \E p \in SomePresentations, input \in SomeTransitions :
          subject = About("transitions", Prepare(<<PlainCell>>, p, {}, {}, <<>>)[1], input)
    \/ \E parts \in SeqOf(PatternParts, 3), token \in SeqOf({1, 2}, 4) :
          parts # <<>> /\ subject = About("tokens", parts, token)
    \/ \E edges \in SUBSET ((1..3) \X (1..3)), roots \in SUBSET (1..3) : subject = About("impacts", edges, roots)
    \/ \E n, q, o1, o2, done \in SomeNodes, chosen \in {<<>>, "c" :> "o1", "d" :> "o1", [c |-> "o2", d |-> "o1"]} :
          subject = About("explorations",
             [nodes |-> [n |-> n], choices |-> [c |-> ChoiceOf(q, o1, o2), d |-> ChoiceOf(o1, {"n"}, q)]],
             <<done, chosen>>)

(* HostingInit, but a part with several initial states takes one of them when it
   is not looked at. *)
Pinned(name, value, values) == part # name => value = CHOOSE v \in values : TRUE
NoSubject == About("none", 0, 0)

PartsInit ==
    /\ part \in Parts
    /\ \/ part = "lowering" /\ IsLowering
       \/ part = "program" /\ IsProgram
       \/ part \notin {"lowering", "program"} /\ subject = NoSubject
    /\ WorkerInit
    /\ SubInit /\ Pinned("subscription", <<current, revision, attach>>, {<<1, 1, "absent">>})
    /\ SeInit /\ Pinned("session", hosting, SeHostings)
    /\ HbInit /\ Pinned("children", updates, BOOLEAN)
    /\ PjInit /\ Pinned("projection", props, Declarations)

PartsNext == HostingNext /\ UNCHANGED subject

(* Promises settle, microtasks run and timers fire.  Nobody has to mount,
   notify, append, invalidate or reconcile. *)
PartsVars == <<HostingVars, subject>>
Underway ==
    \/ /\ part = "worker" /\ (Cycle \/ LoopEnds \/ Greet \/ TimerFires)
       /\ UNCHANGED <<subVars, seVars, hbVars, pjVars, part, subject>>
    \/ /\ part = "subscription" /\ (Microtask \/ DrainFinally \/ \E c \in calls : CallStep(c))
       /\ UNCHANGED <<vars, seVars, hbVars, pjVars, part, subject>>
    \/ part = "session" /\ SeUnderway /\ UNCHANGED <<vars, subVars, hbVars, pjVars, part, subject>>
Polls == part = "subscription" /\ PollFires /\ UNCHANGED <<vars, seVars, hbVars, pjVars, part, subject>>

PartsSpec == PartsInit /\ [][PartsNext]_PartsVars /\ WF_PartsVars(Underway) /\ WF_PartsVars(Polls)

(***************************************************************************)
(* What the algorithms promise.  A lowering axis is one walk of its tiers; *)
(* the terminal Blueprint keeps the Cells and contracts of the authored    *)
(* one and uses what was authorized; fragments and hosted documents come   *)
(* together completely or not at all; a patch of the running program stays *)
(* within the policy.  The program has a node per attachment, owned by its *)
(* Cell; a transition delivers everything once and in order; a match       *)
(* spells its token; impact and exploration reach exactly what they should.*)
(***************************************************************************)
BlueprintsExact ==
    LET x == subject.x
        y == subject.y
    IN CASE subject.about = "none" -> TRUE
         [] subject.about = "axes" -> AxisIsOneWalk(x, y)
         [] subject.about = "lowerings" -> LoweringHolds(x, y) /\ FragmentsComeTogether(x)
         [] subject.about = "documents" -> AssemblyIsComplete(x, y)
         [] subject.about = "patches" -> PatchStaysWithinPolicy(x, y)
         [] subject.about = "programs" -> ProgramsHold(x[1], x[2], y[1], y[2])
         [] subject.about = "transitions" -> TransitionIsOrdered(x, y)
         [] subject.about = "tokens" -> MatchesSpell(x, y)
         [] subject.about = "impacts" -> ImpactIsStaged(x, y)
         [] subject.about = "explorations" -> FrontierIsLeast(x, y[1], y[2])

(***************************************************************************)
(* ADR-0043 says of the output bridge of hosted Blueprints that it works   *)
(* unchanged on presented Cells ("both already keyed on the bare Cell id").*)
(***************************************************************************)
OutputsOfHostedArrive ==
    subject.about = "programs" =>
        LET m == Prepare(subject.x[1], subject.x[2], subject.y[1], subject.y[2], <<>>)
        IN m # Failed => HostedOutputsArrive(subject.x[1], m[1])

(***************************************************************************)
(* Again and again nothing is left to do: no notification waits in a       *)
(* running processor and the worker's own settlement is committed; a       *)
(* subscriber has seen the newest commit; and what was appended is shown.  *)
(***************************************************************************)
BlueprintsProceed ==
    []<>(/\ ~(pending /\ processing /\ started) /\ ~ownWake
         /\ part = "subscription" => view = current \/ stopped
         /\ Shown)
=================================================================================
