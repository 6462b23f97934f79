--------------------------- MODULE BlueprintProgram ---------------------------
(***************************************************************************)
(* From a terminal Blueprint to the program the kernel runs: the document  *)
(* tree and the consequence graph of its Cells, who owns an event, what is *)
(* seeded, and what one transition does with the kernel; with the          *)
(* analyses of Cell topologies and explorations (src/blueprint/src).       *)
(*                                                                         *)
(* Cells are a sequence in declaration order.  A path is the sequence of   *)
(* its segments.  The id of a view's instance is the triple of its Cell,   *)
(* view and slot, which the code formats as <cell>--<view>--in-<slot>; the *)
(* id of a decoration extends it; a slot or a Cell is named by itself.     *)
(***************************************************************************)
EXTENDS BlueprintLowering

Collect(items, Compile(_)) ==
    TryEach(items, <<>>, LAMBDA done, item : Try(Compile(item), LAMBDA node : Done(Append(done, node))))
FlatMap(items, Many(_)) == FlattenSeq([i \in DOMAIN items |-> Many(items[i])])

-----------------------------------------------------------------------------
(* The document tree.  A view is compiled once for each slot it attaches to. *)

Fragment == "fragment"
BlueprintCapability == "blueprint"
Plain(name) == <<name>>
Node(capability, id, on, children) == [capability |-> capability, id |-> id, on |-> on, children |-> children]

CellEvents(cell) == Require(cell.handles \subseteq cell.events, cell.handles)
Decoration(id, place, i, capability) == Node(capability, id \o <<place, i>>, {}, <<>>)
Wrapped(view, id, node) ==
    FoldRight(LAMBDA i, inner : [Decoration(id, "wrap", i, view.wrap[i]) EXCEPT !.children = <<inner>>],
              [i \in DOMAIN view.wrap |-> i], node)

ToProgramNode(cell, view, id) ==
    Try(CellEvents(cell), LAMBDA on :
        LET node == Node(IF cell.hosts = "none" THEN view.capability[1] ELSE BlueprintCapability, id, on, <<>>)
            wrapped == Wrapped(view, id, node)
            flanks(place, capabilities) == [i \in DOMAIN capabilities |-> Decoration(id, place, i, capabilities[i])]
        IN Done(IF view.before \o view.after = <<>> THEN wrapped
                ELSE Node(Fragment, Append(id, "decorated"), {},
                          flanks("before", view.before) \o <<wrapped>> \o flanks("after", view.after))))

CompileInstance(instance) ==
    LET cell == instance.cell
        view == instance.view
    IN IF cell.hosts = "none" /\ view.capability = <<>> THEN Failed
       ELSE ToProgramNode(cell, view, <<cell.id, view.name, instance.slot>>)

(* Every attachment, in the order of Cells, views and slots. *)
Attachments(cells) ==
    FlatMap(cells, LAMBDA cell : FlatMap(cell.views, LAMBDA view :
        [i \in DOMAIN view.regions |-> [cell |-> cell, view |-> view, slot |-> view.regions[i]]]))
PresentedCellIds(cells) == {a.cell.id : a \in ToSet(Attachments(cells))}

(* Nested slots come before Cells. *)
RECURSIVE CompileSlot(_, _, _, _)
CompileSlot(p, cells, slot, ancestors) ==
    IF slot \in ancestors THEN Failed
    ELSE Try(Collect(SelectSeq(p.slots, LAMBDA s : s.region = <<slot>>),
                     LAMBDA s : CompileSlot(p, cells, s.id, ancestors \cup {slot})), LAMBDA slots :
             Try(Collect(SelectSeq(Attachments(cells), LAMBDA a : a.slot = slot), CompileInstance), LAMBDA instances :
                 Done(Node(Fragment, Plain(slot), {}, slots \o instances))))

HeadlessInstance(cell) == Node(BlueprintCapability, Plain(cell.id), {}, <<>>)
HeadlessRoot == "gik-headless-hosted-cells"

(* Handlers of the Cells that are not presented. *)
Handlers(cells) ==
    Try(Collect(cells, CellEvents), LAMBDA events :
        Done({[id |-> Plain(cells[i].id), on |-> events[i]] : i \in {i \in DOMAIN cells : events[i] # {}}}))

Background(cells) == SelectSeq(cells, LAMBDA cell : cell.id \notin PresentedCellIds(cells))
Hosting(cells) == SelectSeq(cells, LAMBDA cell : cell.hosts # "none")
Headless(cells) == LET hosted == Hosting(cells) IN [i \in DOMAIN hosted |-> HeadlessInstance(hosted[i])]

Unpresented(cells) ==
    LET hosted == Headless(cells)
    IN Try(Handlers(cells), LAMBDA handlers :
        Done([root |-> IF Len(hosted) < 2 THEN hosted ELSE <<Node(Fragment, Plain(HeadlessRoot), {}, hosted)>>,
              handlers |-> handlers]))

PresentedProgram(cells, p) ==
    IF ~ /\ IdsApart(p.slots) /\ p.root \in SlotIds(p)
         /\ \A s \in ToSet(p.slots) : ToSet(s.region) \subseteq SlotIds(p)
         /\ \A a \in ToSet(Attachments(cells)) : a.slot \in SlotIds(p)
    THEN Failed
    ELSE Try(CompileSlot(p, cells, p.root, {}), LAMBDA root :
         Try(Handlers(Background(cells)), LAMBDA handlers :
            LET headless == Headless(Background(cells))
            IN Done([root |-> <<IF headless = <<>> THEN root
                                ELSE Node(Fragment, Plain(HeadlessRoot), {}, <<root>> \o headless)>>,
                     handlers |-> handlers])))

ComposeDocument(cells, presentation) ==
    IF presentation = <<>> THEN Unpresented(cells) ELSE PresentedProgram(cells, presentation[1])

(* Who owns the event of a node: a Cell without an attachment owns its own id. *)
OwnersOfAttachments(cells) == {[node |-> <<a.cell.id, a.view.name, a.slot>>, cell |-> Plain(a.cell.id)] : a \in ToSet(Attachments(cells))}
EventOwners(cells, presentation) ==
    IF presentation = <<>> THEN {[node |-> Plain(cell.id), cell |-> Plain(cell.id)] : cell \in ToSet(cells)}
    ELSE OwnersOfAttachments(cells)
         \cup {[node |-> Plain(cell.id), cell |-> Plain(cell.id)] : cell \in ToSet(Background(cells))}
OwnerOf(owners, node) ==
    LET known == {o \in owners : o.node = node} IN IF known = {} THEN node ELSE (CHOOSE o \in known : TRUE).cell

-----------------------------------------------------------------------------
(* The graph.  An output that reads a path of the state which its Cell does  *)
(* not compute is an input too, so that the Cell is evaluated when it changes. *)

CellScopedRoots == {"computed", "inputs", "sources", "systemInputs"}
PathOf(output) == Given(output.from, output.token)
IsStateBacked(cell, output) == PathOf(output)[1] \notin CellScopedRoots /\ PathOf(output) \notin ToSet(cell.compute)
SourceValuesOf(cell) == <<"blueprintRunState", "cells", cell.id, "sourceValues">>
Evaluates(cell) == cell.compute # <<>> \/ cell.sources # <<>> \/ (cell.hosts = "none" /\ cell.outputs # <<>>)

EvaluatorNode(cell) ==
    [id |-> <<cell.id, "evaluate">>, trigger |-> <<>>,
     required |-> {i.token : i \in {i \in ToSet(cell.inputs) : i.required}}
                  \cup {PathOf(o) : o \in {o \in ToSet(cell.outputs) : IsStateBacked(cell, o)}},
     optional |-> {i.token : i \in {i \in ToSet(cell.inputs) : ~i.required}}
                  \cup {SourceValuesOf(cell) : s \in ToSet(cell.sources)},
     outputs |-> {o.token : o \in ToSet(cell.outputs)}]

HostedOutputEvent == "gik-hosted-blueprint-output"
HostedOutputNode(cell) ==
    [id |-> <<cell.id, "hosted-output">>, trigger |-> <<[event |-> HostedOutputEvent, node |-> Plain(cell.id)]>>,
     required |-> {}, optional |-> {}, outputs |-> {o.token : o \in ToSet(cell.outputs)}]

CellGraph(cells) ==
    FlatMap(cells, LAMBDA cell : (IF Evaluates(cell) THEN <<EvaluatorNode(cell)>> ELSE <<>>)
        \o (IF cell.hosts # "none" /\ cell.outputs # <<>> THEN <<HostedOutputNode(cell)>> ELSE <<>>))

ProvidersOf(cells, token) == {cell.id : cell \in {c \in ToSet(cells) : \E o \in ToSet(c.outputs) : o.token = token}}
ExternalInputs(cells) ==
    {t \in UNION {{i.token : i \in ToSet(cell.inputs)} : cell \in ToSet(cells)} : ProvidersOf(cells, t) = {}}
GraphInputs(cells) ==
    ExternalInputs(cells)
    \cup UNION {{PathOf(o) : o \in ToSet(c.outputs)} : c \in {c \in ToSet(cells) : c.compute = <<>> /\ c.sources = <<>> /\ c.hosts = "none"}}
    \cup {SourceValuesOf(c) : c \in {c \in ToSet(cells) : c.sources # <<>>}}

-----------------------------------------------------------------------------
(* What is prepared: the vocabulary and the initial state.  A state is the   *)
(* set of its paths with what is there; a key of it is a sequence of         *)
(* segments, because it may have dots.                                       *)

Paths(tree) == {entry.path : entry \in tree}
AtPath(tree, path) == (CHOOSE entry \in tree : entry.path = path).kind
Above(path) == {SubSeq(path, 1, n) : n \in 1..Len(path)}

(* Objects are merged, everything else is replaced with all below it. *)
MergeRecords(base, overlay) ==
    overlay \cup {entry \in base : /\ entry.path \notin Paths(overlay)
                                   /\ \A p \in Above(entry.path) \cap Paths(overlay) :
                                         AtPath(base, p) = "object" /\ AtPath(overlay, p) = "object"}
RunStateSeed(cells) ==
    {[path |-> <<<<"blueprintRunState">>>>, kind |-> "object"], [path |-> <<<<"blueprintRunState">>, <<"cells">>>>, kind |-> "object"]}
    \cup UNION {LET at == <<<<"blueprintRunState">>, <<"cells">>, <<cell.id>>>>
                IN {[path |-> at, kind |-> "object"], [path |-> Append(at, <<"sources">>), kind |-> "idle"]}
                   \cup {[path |-> Append(at, <<"sourceValues">>), kind |-> "object"] : s \in ToSet(cell.sources)} :
                    cell \in ToSet(cells)}
InitialState(cells, state, seed) == MergeRecords(MergeRecords(state, seed), RunStateSeed(cells))
Keys(tree) == {path[1] : path \in Paths(tree)}
DeriveNamespaces(state, seed) == Keys(state) \cup Keys(seed) \cup {<<"blueprintRunState">>}

DeriveCapabilities(cells, catalog) ==
    LET used == UNION {UNION {ViewUses(view) : view \in ToSet(cell.views)} : cell \in ToSet(cells)}
    IN Require(catalog # <<>> => \A c \in used : c \in catalog[1] \cup {Fragment, BlueprintCapability}, used)

Reserved == {<<"externalContext">>, <<"blueprintRunState">>, <<"cellRunState">>}
Prepare(cells, presentation, state, seed, catalog) ==
    Try(DeriveCapabilities(cells, catalog), LAMBDA capabilities :
        Try(ComposeDocument(cells, presentation), LAMBDA document :
            Done([cells |-> cells, document |-> document, graph |-> CellGraph(cells), capabilities |-> capabilities,
                  namespaces |-> DeriveNamespaces(state, seed), state |-> InitialState(cells, state, seed),
                  owners |-> EventOwners(cells, presentation)])))
Materialize(cells, presentation, state, catalog) ==
    IF Keys(state) \cap Reserved # {} THEN Failed ELSE Prepare(cells, presentation, state, {}, catalog)

(* A token of the graph is the text of a path; the preflight of a Cell reads
   it as one key, or else segment by segment. *)
FlattenState(tree) == {FlattenSeq(path) : path \in Paths(tree)}
ResolveStateToken(tree, token) ==
    <<token>> \in Paths(tree) \/ [i \in DOMAIN token |-> <<token[i]>>] \in Paths(tree)
MissingInputs(cell, tree) == {i.token : i \in {i \in ToSet(cell.inputs) : i.required /\ ~ResolveStateToken(tree, i.token)}}
Preflight(cell, tree) == IF MissingInputs(cell, tree) = {} THEN "evaluated" ELSE "blocked"

-----------------------------------------------------------------------------
(* One transition: what it asks of a kernel that starts from the state, or   *)
(* nothing at all if an event is not declared.                               *)

DeliverEvent(m, event) ==
    LET owner == {c \in ToSet(m.cells) : Plain(c.id) = OwnerOf(m.owners, event.node)}
    IN Require(\A cell \in owner : event.name \in cell.events,
               {n.id : n \in {n \in ToSet(m.graph) : \E t \in ToSet(n.trigger) : t.event = event.name /\ t.node = event.node}})

TransitionCalls(m, input) ==
    LET nothing == input.events = <<>> /\ input.sources = <<>> /\ input.requests = <<>> /\ input.services = <<>>
        sync == <<[call |-> "sync", of |-> <<>>]>>
        calls(call, items) == [i \in DOMAIN items |-> [call |-> call, of |-> items[i]]]
        events == input.events \o FlatMap(input.services, LAMBDA s : s.events)
    IN Require(\A i \in DOMAIN events : DeliverEvent(m, events[i]) # Failed,
         calls("apply", input.services)
         \o (IF Given(input.sync, nothing) \/ input.services # <<>> THEN sync ELSE <<[call |-> "hydrate", of |-> <<>>]>>)
         \o calls("source", input.sources)
         \o (IF input.sources # <<>> THEN sync ELSE <<>>)
         \o calls("request", input.requests)
         \o calls("event", events))

-----------------------------------------------------------------------------
(* Token patterns: literals and parameters; a parameter takes what stands    *)
(* before the next literal, the last one the rest.                           *)

Find(word, token, from) ==
    LET places == {i \in from..(Len(token) + 1) : /\ i + Len(word) - 1 <= Len(token)
                                                  /\ SubSeq(token, i, i + Len(word) - 1) = word}
    IN IF places = {} THEN 0 ELSE CHOOSE i \in places : \A j \in places : i <= j

RECURSIVE MatchParts(_, _, _)
MatchParts(parts, token, from) ==
    IF parts = <<>> THEN Require(from = Len(token) + 1, <<>>)
    ELSE IF ~parts[1].parameter
    THEN LET end == from + Len(parts[1].text)
         IN IF end - 1 <= Len(token) /\ SubSeq(token, from, end - 1) = parts[1].text
            THEN MatchParts(Tail(parts), token, end) ELSE Failed
    ELSE LET next == SelectInSeq(Tail(parts), LAMBDA p : ~p.parameter)
             end == IF next = 0 THEN Len(token) + 1 ELSE Find(parts[next + 1].text, token, from)
         IN IF end = 0 \/ end = from THEN Failed
            ELSE Try(MatchParts(Tail(parts), token, end), LAMBDA bound : Done(<<SubSeq(token, from, end - 1)>> \o bound))
MatchToken(parts, token) == MatchParts(parts, token, 1)

-----------------------------------------------------------------------------
(* What a change of Cells affects, in the order it can be worked on.         *)

RECURSIVE ReachableCells(_, _)
ReachableCells(edges, seen) ==
    LET next == {e[2] : e \in {e \in edges : e[1] \in seen}} \ seen
    IN IF next = {} THEN seen ELSE ReachableCells(edges, seen \cup next)
AffectedCells(edges, roots) == ReachableCells(edges, roots) \ roots
DependenciesOf(edges, cell) == {e[1] : e \in {e \in edges : e[2] = cell}}

RECURSIVE StagesFrom(_, _, _)
StagesFrom(edges, waiting, available) ==
    LET ready == {c \in waiting : DependenciesOf(edges, c) \subseteq available}
    IN IF ready = {} THEN <<>> ELSE <<ready>> \o StagesFrom(edges, waiting \ ready, available \cup ready)
CellImpact(edges, roots) ==
    LET affected == AffectedCells(edges, roots)
        stages == StagesFrom(edges, affected, roots)
        scheduled == UNION ToSet(stages)
    IN [stages |-> stages,
        blockers |-> [c \in affected \ scheduled |-> DependenciesOf(edges, c) \ (roots \cup scheduled)]]

-----------------------------------------------------------------------------
(* Explorations: what completed participants and selected options unlock.    *)

RECURSIVE Unlocked(_, _, _)
Unlocked(definition, selections, unlocked) ==
    LET met == {c \in DOMAIN selections : definition.choices[c].requires \subseteq unlocked}
        next == unlocked \cup UNION {definition.nodes[n] : n \in unlocked \cap DOMAIN definition.nodes}
                \cup met \cup UNION {definition.choices[c].options[selections[c]] : c \in met}
    IN IF next = unlocked THEN unlocked ELSE Unlocked(definition, selections, next)
AnalyzeExploration(definition, completed, selections) ==
    LET unlocked == Unlocked(definition, selections, completed)
    IN Require(\A c \in DOMAIN selections : definition.choices[c].requires \subseteq unlocked,
               [unlocked |-> unlocked,
                choices |-> {c \in DOMAIN definition.choices : definition.choices[c].requires \subseteq unlocked}])

-----------------------------------------------------------------------------
(* What they promise. *)

RECURSIVE NodesOf(_)
NodesOf(node) == {node} \cup UNION {NodesOf(node.children[i]) : i \in DOMAIN node.children}
RECURSIVE IdsInTree(_)
IdsInTree(node) == <<node.id>> \o FlatMap(node.children, IdsInTree)
Tree(m) == UNION {NodesOf(root) : root \in ToSet(m.document.root)}
ReachableSlots(p) == {s \in SlotIds(p) : p.root \in Ancestry(p, s)}

(* A view is in the tree once for each slot it attaches to that hangs on the
   root, and dormant elsewhere; whatever handles an event is owned by the Cell
   whose event it is; and what the tree needs is in the vocabulary. *)
ProgramIsExact(cells, presentation, m) ==
    LET ids == FlatMap(m.document.root, IdsInTree)
    IN /\ IsInjective(ids)
       /\ \A p \in ToSet(presentation) : \A a \in ToSet(Attachments(cells)) :
             <<a.cell.id, a.view.name, a.slot>> \in ToSet(ids) <=> a.slot \in ReachableSlots(p)
       /\ \A n \in Tree(m) \cup m.document.handlers : n.on # {} =>
             \E cell \in ToSet(cells) : Plain(cell.id) = OwnerOf(m.owners, n.id) /\ n.on = cell.handles
       /\ \A o \in m.owners : o.node \in ToSet(ids) =>
             \E cell \in ToSet(cells) : Plain(cell.id) = o.cell /\ \A n \in Tree(m) : n.id = o.node => n.on \in {cell.handles, {}}
       /\ \A n \in Tree(m) : n.capability \in m.capabilities \cup {Fragment, BlueprintCapability}

(* Every token a node waits for comes from a node, from outside, or from the
   state; the declared namespaces are those of the initial state; and the
   sources of every Cell start idle, whatever was seeded. *)
GraphIsFed(cells, m) ==
    \A n \in ToSet(m.graph) : \A t \in n.required \cup n.optional :
        \/ \E other \in ToSet(m.graph) : t \in other.outputs
        \/ t \in GraphInputs(cells)
        \/ \E cell \in ToSet(cells) : \E o \in ToSet(cell.outputs) : IsStateBacked(cell, o) /\ PathOf(o) = t
SeedIsDeclared(cells, m) ==
    /\ m.namespaces = Keys(m.state)
    /\ \A cell \in ToSet(cells) :
          [path |-> <<<<"blueprintRunState">>, <<"cells">>, <<cell.id>>, <<"sources">>>>, kind |-> "idle"] \in m.state
    /\ \A path \in Paths(m.state) : \A p \in Above(path) : p # path => AtPath(m.state, p) = "object"

(* The preflight of a Cell and the graph agree on what is missing, as long as
   dots are in the keys of the top only. *)
PreflightAgrees(cell, tree) ==
    (\A path \in Paths(tree) : \A i \in 2..Len(path) : Len(path[i]) = 1) =>
        (Preflight(cell, tree) = "evaluated" <=>
            {i.token : i \in {i \in ToSet(cell.inputs) : i.required}} \subseteq FlattenState(tree))

ProgramsHold(cells, presentation, state, seed) ==
    LET m == Prepare(cells, presentation, state, seed, <<>>)
    IN m # Failed => /\ ProgramIsExact(cells, presentation, m[1]) /\ GraphIsFed(cells, m[1])
                     /\ SeedIsDeclared(cells, m[1])
                     /\ \A cell \in ToSet(cells) : PreflightAgrees(cell, m[1].state)

(* In a transition everything is handed over once and in order, settlements
   before events, and no event sees a graph older than the settlements. *)
TransitionIsOrdered(m, input) ==
    LET calls == TransitionCalls(m, input)
        at(call) == {i \in DOMAIN calls[1] : calls[1][i].call = call}
        of(call) == [i \in 1..Cardinality(at(call)) |->
                        calls[1][CHOOSE j \in at(call) : Cardinality({k \in at(call) : k <= j}) = i].of]
    IN calls # Failed =>
        /\ of("source") = input.sources /\ of("request") = input.requests /\ of("apply") = input.services
        /\ \E started \in at("sync") \cup at("hydrate") :
              /\ \A i \in at("apply") : i < started
              /\ \A i \in at("source") \cup at("request") \cup at("event") : started < i
        /\ \A e \in at("event") : \A s \in at("source") : \E again \in at("sync") : s < again /\ again < e
        /\ \A e \in at("event") : \A cell \in ToSet(m.cells) : Plain(cell.id) = OwnerOf(m.owners, calls[1][e].of.node) => calls[1][e].of.name \in cell.events

(* A match spells the token; a pattern without parameters matches itself only. *)
Spelled(parts, bound) ==
    LET place(i) == Cardinality({j \in 1..i : parts[j].parameter})
    IN FlattenSeq([i \in DOMAIN parts |-> IF parts[i].parameter THEN bound[place(i)] ELSE parts[i].text])
MatchesSpell(parts, token) ==
    LET bound == MatchToken(parts, token)
        literal == \A i \in DOMAIN parts : ~parts[i].parameter
    IN /\ bound # Failed => Spelled(parts, bound[1]) = token
       /\ literal => (bound # Failed <=> FlattenSeq([i \in DOMAIN parts |-> parts[i].text]) = token)

(* The stages hold every affected Cell after all it depends on; those left are
   the ones a cycle or a dependency that nobody touched keeps waiting. *)
ImpactIsStaged(edges, roots) ==
    LET impact == CellImpact(edges, roots)
        staged == UNION ToSet(impact.stages)
    IN /\ staged \cup DOMAIN impact.blockers = AffectedCells(edges, roots) /\ staged \cap DOMAIN impact.blockers = {}
       /\ \A i \in DOMAIN impact.stages : \A c \in impact.stages[i] :
             DependenciesOf(edges, c) \subseteq roots \cup UNION {impact.stages[j] : j \in 1..(i - 1)}
       /\ \A c \in DOMAIN impact.blockers : impact.blockers[c] # {}
       /\ \A c \in DOMAIN impact.blockers :
             \E blamed \in ReachableCells({<<e[2], e[1]>> : e \in edges}, {c}) :
                blamed \notin AffectedCells(edges, roots) \cup roots
                \/ \E d \in DependenciesOf(edges, blamed) : blamed \in ReachableCells({<<e[2], e[1]>> : e \in edges}, {d})

(* The frontier is the least set that is closed under what it unlocks. *)
FrontierIsLeast(definition, completed, selections) ==
    LET frontier == AnalyzeExploration(definition, completed, selections)
        closed(s) == /\ completed \subseteq s
                     /\ \A n \in s \cap DOMAIN definition.nodes : definition.nodes[n] \subseteq s
                     /\ \A c \in DOMAIN selections : definition.choices[c].requires \subseteq s =>
                           {c} \cup definition.choices[c].options[selections[c]] \subseteq s
        all == DOMAIN definition.nodes \cup DOMAIN definition.choices
    IN frontier # Failed =>
        /\ closed(frontier[1].unlocked)
        /\ \A s \in SUBSET all : closed(s) => frontier[1].unlocked \subseteq s
        /\ DOMAIN selections \subseteq frontier[1].choices

(* The outputs of a hosted Blueprint arrive at its Cell: the event that the
   node of the child emits triggers the node of the graph for it. *)
HostedOutputsArrive(cells, m) ==
    \A cell \in ToSet(Hosting(cells)) : cell.outputs # <<>> =>
        \A n \in Tree(m) : (n.capability = BlueprintCapability /\ OwnerOf(m.owners, n.id) = Plain(cell.id)) =>
            LET delivered == DeliverEvent(m, [node |-> n.id, name |-> HostedOutputEvent])
            IN delivered # Failed /\ <<cell.id, "hosted-output">> \in delivered[1]
===============================================================================
