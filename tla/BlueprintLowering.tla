--------------------------- MODULE BlueprintLowering ---------------------------
(***************************************************************************)
(* The Blueprint artifact: what a valid one is, how it is assembled from   *)
(* fragments and references, how its service and projection axes are       *)
(* resolved and lowered to the terminal Blueprint, and how its structure   *)
(* is patched (src/blueprint/src).                                         *)
(*                                                                         *)
(* A call that throws yields Failed, one that returns x yields Done(x).    *)
(* An optional field is a sequence of at most one element.  An expression  *)
(* over the external context is the set of contexts in which it is true;   *)
(* a decorator's selection is the set of Cells it names, or Failed when it *)
(* names none properly.  Identities are complete and messages left out.    *)
(***************************************************************************)
EXTENDS Integers, SequencesExt

Failed == <<>>
Done(x) == <<x>>
Try(result, Step(_)) == IF result = Failed THEN Failed ELSE Step(result[1])
TryEach(items, start, Step(_, _)) ==
    FoldLeft(LAMBDA result, item : IF result = Failed THEN Failed ELSE Step(result[1], item), Done(start), items)
Require(condition, x) == IF condition THEN Done(x) ELSE Failed

(* The value in a sequence of at most one, or the one given instead. *)
Given(option, otherwise) == IF option = <<>> THEN otherwise ELSE option[1]
IdsOf(seq) == {seq[i].id : i \in DOMAIN seq}
IdsApart(seq) == \A i, j \in DOMAIN seq : seq[i].id = seq[j].id => i = j

-----------------------------------------------------------------------------
(* Resolving an axis: its recipes are one chain from a source to a terminal. *)

RECURSIVE WalkChain(_, _)
WalkChain(recipes, tier) ==
    LET outgoing == {i \in DOMAIN recipes : recipes[i].from = tier}
    IN IF outgoing = {} THEN <<>>
       ELSE LET i == CHOOSE i \in outgoing : TRUE
            IN <<recipes[i]>> \o WalkChain(RemoveAt(recipes, i), recipes[i].to)

ResolvedAxis(stages, terminal) == [stages |-> stages, terminal |-> terminal]

ResolveChain(tiers, recipes) ==
    LET sources == {i \in DOMAIN tiers : /\ \E j \in DOMAIN recipes : recipes[j].from = tiers[i].id
                                         /\ \A j \in DOMAIN recipes : recipes[j].to # tiers[i].id}
    IN IF sources = {} THEN Failed
       ELSE LET stages == WalkChain(recipes, tiers[CHOOSE i \in sources : \A j \in sources : i <= j].id)
            IN Require(Len(stages) = Len(recipes), ResolvedAxis(stages, Last(stages).to))

ResolveAxis(tiers, recipes) ==
    IF ~ (/\ tiers # <<>> /\ IdsApart(tiers) /\ IdsApart(recipes)
          /\ \A i \in DOMAIN recipes : {recipes[i].from, recipes[i].to} \subseteq IdsOf(tiers)
          /\ \A i, j \in DOMAIN recipes : recipes[i].from = recipes[j].from \/ recipes[i].to = recipes[j].to => i = j)
    THEN Failed
    ELSE IF recipes = <<>> THEN Require(Len(tiers) = 1, ResolvedAxis(<<>>, tiers[1].id))
    ELSE ResolveChain(tiers, recipes)

ServiceAxis(b) == ResolveAxis(b.serviceTiers, b.serviceRecipes)
ProjectionAxis(b) == ResolveAxis(b.projectionTiers, b.projectionRecipes)

-----------------------------------------------------------------------------
(* The projection vocabulary: which capabilities are used, which authorized. *)

ViewUses(view) == ToSet(view.capability \o view.before \o view.after \o view.wrap)
ViewsUses(views) == UNION {ViewUses(views[name]) : name \in DOMAIN views}
CellUses(cells) == UNION {ViewsUses(cells[c].views) : c \in DOMAIN cells}
RepresentationUses(r) ==
    UNION {ViewsUses(r.views[c]) : c \in DOMAIN r.views}
    \cup UNION {ToSet(r.decorators[i].before \o r.decorators[i].after) : i \in DOMAIN r.decorators}
RecipeUses(b) == UNION {UNION {RepresentationUses(recipe.representations[i]) : i \in DOMAIN recipe.representations} :
                            recipe \in ToSet(b.projectionRecipes)}

(* An allowed entry names a capability, or a tier and with it all of the tier's. *)
ExplicitIn(allowed) == {e.capability : e \in {e \in allowed : e.by = "capability"}}
TiersIn(allowed) == {e.tier : e \in {e \in allowed : e.by = "tier"}}
CapabilitiesOf(tiers, ids) == UNION {t.capabilities : t \in {t \in ToSet(tiers) : t.id \in ids}}
Authorized(tiers, allowed) == ExplicitIn(allowed) \cup CapabilitiesOf(tiers, TiersIn(allowed))

(* At a tier the referenced tiers before it in the chain are gone. *)
AllowedAtTier(tiers, chain, target, allowed) ==
    LET below == {chain[i] : i \in {i \in DOMAIN chain : \E j \in 1..i : chain[j] = target}}
    IN ExplicitIn(allowed) \cup CapabilitiesOf(tiers, below \cap TiersIn(allowed))

-----------------------------------------------------------------------------
(* A valid Blueprint. *)

SlotIds(p) == IdsOf(p.slots)

(* A slot and its ancestors; the first declaration of a slot counts. *)
ParentOf(p, slot) == p.slots[CHOOSE i \in DOMAIN p.slots : p.slots[i].id = slot
                                 /\ \A j \in DOMAIN p.slots : p.slots[j].id = slot => i <= j].region
RECURSIVE AncestryFrom(_, _, _)
AncestryFrom(p, slot, seen) ==
    IF slot \in seen \/ slot \notin SlotIds(p) THEN seen \cup {slot}
    ELSE IF ParentOf(p, slot) = <<>> THEN seen \cup {slot}
    ELSE AncestryFrom(p, ParentOf(p, slot)[1], seen \cup {slot})
Ancestry(p, slot) == AncestryFrom(p, slot, {})

(* An exported region is a slot under the root, and no two have one slot in common. *)
RegionsExportable(p) ==
    \A i \in DOMAIN p.exported :
        /\ p.exported[i].slot \in SlotIds(p)
        /\ p.root \in Ancestry(p, p.exported[i].slot)
        /\ \A j \in 1..(i - 1) :
              /\ p.exported[j].name # p.exported[i].name
              /\ p.exported[i].slot \notin Ancestry(p, p.exported[j].slot)
              /\ p.exported[j].slot \notin Ancestry(p, p.exported[i].slot)

PresentationHolds(p) ==
    /\ p.root \in SlotIds(p)
    /\ \A slot \in ToSet(p.slots) : ToSet(slot.region) \subseteq SlotIds(p)
    /\ p.layout \subseteq SlotIds(p)
    /\ RegionsExportable(p)

ReferencesHold(p, cells) ==
    \A c \in DOMAIN cells : \A name \in DOMAIN cells[c].views : cells[c].views[name].regions \subseteq SlotIds(p)

(* Each capability belongs to one projection tier. *)
OneOwner(tiers) == \A i, j \in DOMAIN tiers : tiers[i].capabilities \cap tiers[j].capabilities # {} => i = j

(* A hosted child's required inputs are inputs of its Cell. *)
HostingHolds(cell) == \A child \in ToSet(cell.hosts) : child.ref \/ child.required \subseteq cell.inputs

SourceResolves(services, source) ==
    source.service \in DOMAIN services /\ source.operation \in DOMAIN services[source.service].contracts

VocabularyHolds(b, p) ==
    /\ TiersIn(p.allowed) \subseteq IdsOf(b.projectionTiers)
    /\ CellUses(b.cells) \cup RecipeUses(b) \subseteq Authorized(b.projectionTiers, p.allowed)
    /\ \A recipe \in ToSet(b.projectionRecipes) : \A r \in ToSet(recipe.representations) :
          DOMAIN r.views \cup {view[1] : view \in r.remove} \subseteq DOMAIN b.cells

ValidBlueprint(b) ==
    /\ ServiceAxis(b) # Failed
    /\ OneOwner(b.projectionTiers) /\ ProjectionAxis(b) # Failed
    /\ b.presentation = <<>> => CellUses(b.cells) \cup RecipeUses(b) = {}
    /\ \A p \in ToSet(b.presentation) : PresentationHolds(p) /\ ReferencesHold(p, b.cells) /\ VocabularyHolds(b, p)
    /\ \A c \in DOMAIN b.cells : /\ HostingHolds(b.cells[c])
                                 /\ \A s \in ToSet(b.cells[c].sources) : SourceResolves(b.services, s)

(* What an author is told. *)
AuthoringStatus(b) ==
    IF ~ValidBlueprint(b) THEN "invalid"
    ELSE IF b.serviceRecipes # <<>> \/ b.projectionRecipes # <<>> THEN "lowering-required" ELSE "runtime-ready"

-----------------------------------------------------------------------------
(* One stage of the service axis: it selects implementations. *)

(* The first alternative whose condition holds, or the (last) one named as fallback. *)
Selected(alternatives, fallback, context) ==
    LET first == SelectInSeq(alternatives, LAMBDA a : context \in a.when)
        named == SelectLastInSeq(alternatives, LAMBDA a : a.id = fallback)
    IN IF first # 0 THEN Done(alternatives[first])
       ELSE IF named # 0 THEN Done(alternatives[named]) ELSE Failed

ContractsOf(services, sources) ==
    [id \in IdsOf(sources) |->
        LET s == sources[SelectLastInSeq(sources, LAMBDA x : x.id = id)]
        IN services[s.service].contracts[s.operation]]

StableSources(b, cell, sources) ==
    /\ \A s \in ToSet(cell.sources) \cup ToSet(sources) : SourceResolves(b.services, s)
    /\ ContractsOf(b.services, cell.sources) = ContractsOf(b.services, sources)

OverrideCell(b, override) ==
    IF override.cell \notin DOMAIN b.cells THEN Failed
    ELSE LET cell == b.cells[override.cell]
         IN Require(/\ override.sources # <<>> => StableSources(b, cell, override.sources[1])
                    /\ \A handled \in ToSet(override.handles) : handled \subseteq cell.events,
                    [b EXCEPT !.cells[override.cell] =
                        [cell EXCEPT !.sources = Given(override.sources, @),
                                     !.compute = Given(override.compute, @),
                                     !.handles = Given(override.handles, @)]])

OverrideService(b, override) ==
    IF override.service \notin DOMAIN b.services THEN Failed
    ELSE Require(b.services[override.service].contracts = override.declaration.contracts,
                 [b EXCEPT !.services[override.service] = override.declaration])

ApplyServiceRecipe(b, recipe, context) ==
    Try(Selected(recipe.programs, recipe.fallback, context),
        LAMBDA program : Try(TryEach(program.cells, b, OverrideCell),
                             LAMBDA overridden : TryEach(program.services, overridden, OverrideService)))

-----------------------------------------------------------------------------
(* One stage of the projection axis: it selects views and the presentation. *)

(* A representation after those it extends, the most general first. *)
RECURSIVE LineageOf(_, _, _)
LineageOf(representations, r, seen) ==
    IF r.id \in seen THEN Failed
    ELSE IF r.extends = <<>> THEN Done(<<r>>)
    ELSE LET parent == SelectLastInSeq(representations, LAMBDA x : x.id = r.extends[1])
         IN IF parent = 0 THEN Failed
            ELSE Try(LineageOf(representations, representations[parent], seen \cup {r.id}),
                     LAMBDA lineage : Done(Append(lineage, r)))

Without(views, names) == [name \in DOMAIN views \ names |-> views[name]]
Upserted(views, given) ==
    [name \in DOMAIN views \cup DOMAIN given |-> IF name \in DOMAIN given THEN given[name] ELSE views[name]]

RemoveViews(b, remove) ==
    Require(\A view \in remove : view[1] \in DOMAIN b.cells /\ view[2] \in DOMAIN b.cells[view[1]].views,
            [b EXCEPT !.cells = [c \in DOMAIN b.cells |->
                [b.cells[c] EXCEPT !.views = Without(@, {view[2] : view \in {v \in remove : v[1] = c}})]]])

UpsertViews(b, views) ==
    Require(DOMAIN views \subseteq DOMAIN b.cells,
            [b EXCEPT !.cells = [c \in DOMAIN b.cells |->
                IF c \in DOMAIN views THEN [b.cells[c] EXCEPT !.views = Upserted(@, views[c])] ELSE b.cells[c]]])

(* A representation's presentation keeps the authored authority. *)
Replaced(b, skeleton) ==
    IF skeleton = <<>> THEN Done(b)
    ELSE IF b.presentation = <<>> THEN Failed
    ELSE Done([b EXCEPT !.presentation = <<[skeleton[1] EXCEPT !.allowed = b.presentation[1].allowed]>>])

SlotsAppended(b, slots) ==
    IF slots = <<>> THEN Done(b)
    ELSE IF b.presentation = <<>> THEN Failed
    ELSE Done([b EXCEPT !.presentation[1].slots = @ \o slots])

Represent(b, r) ==
    Try(RemoveViews(b, r.remove), LAMBDA removed :
        Try(UpsertViews(removed, r.views), LAMBDA upserted :
            Try(Replaced(upserted, r.presentation), LAMBDA replaced : SlotsAppended(replaced, r.append))))

(* A decoration's capability is declared to the host before it is used. *)
Qualified(capability) == capability # "bare"
Decorate(b, decorator) ==
    LET added == ToSet(decorator.before \o decorator.after)
        selected == Given(decorator.select, {})
    IN Require(/\ \A capability \in added : Qualified(capability)
               /\ decorator.select # Failed
               /\ \A c \in selected : c \in DOMAIN b.cells /\ DOMAIN b.cells[c].views # {},
               [b EXCEPT !.externals = @ \cup added,
                         !.cells = [c \in DOMAIN b.cells |->
                    IF c \notin selected THEN b.cells[c]
                    ELSE [b.cells[c] EXCEPT !.views = [name \in DOMAIN @ |->
                            [@[name] EXCEPT !.before = @ \o decorator.before, !.after = @ \o decorator.after]]]]])

ApplyProjectionRecipe(b, recipe, context) ==
    Try(Selected(recipe.representations, recipe.fallback, context), LAMBDA chosen :
        Try(LineageOf(recipe.representations, chosen, {}), LAMBDA lineage :
            Try(TryEach(lineage, b, Represent), LAMBDA represented :
                Try(TryEach(FlattenSeq([i \in DOMAIN lineage |-> lineage[i].decorators]), represented, Decorate),
                    LAMBDA decorated : Require(decorated.presentation # <<>>, decorated)))))

(* What is left at a stage is valid at its target tier or below. *)
StageIgnored(b, chain, target, authority) == TRUE
StageHolds(b, chain, target, authority) ==
    \A p \in ToSet(authority) : CellUses(b.cells) \subseteq AllowedAtTier(b.projectionTiers, chain, target, p.allowed)

-----------------------------------------------------------------------------
(* The fixed lowering: the service chain, the projection chain, the terminal. *)

TierChain(axis) ==
    IF axis.stages = <<>> THEN <<axis.terminal>>
    ELSE <<axis.stages[1].from>> \o [i \in DOMAIN axis.stages |-> axis.stages[i].to]

ApplyChains(b, service, projection, context) ==
    Try(TryEach(service.stages, b, LAMBDA stage, recipe : ApplyServiceRecipe(stage, recipe, context)),
        LAMBDA implemented :
            TryEach(projection.stages, implemented, LAMBDA stage, recipe :
                Try(ApplyProjectionRecipe(stage, recipe, context), LAMBDA projected :
                    Require(StageHolds(projected, TierChain(projection), recipe.to, implemented.presentation),
                            projected))))

Terminal(b, service, projection) ==
    LET allowed == {[by |-> "capability", capability |-> c] : c \in CellUses(b.cells)}
    IN [b EXCEPT !.presentation = IF @ = <<>> THEN @ ELSE <<[@[1] EXCEPT !.allowed = allowed]>>,
                 !.serviceTiers = SelectSeq(@, LAMBDA tier : tier.id = service.terminal),
                 !.serviceRecipes = <<>>,
                 !.projectionTiers = SelectSeq(@, LAMBDA tier : tier.id = projection.terminal),
                 !.projectionRecipes = <<>>]

EmitBlueprint(b, service, projection) ==
    LET terminal == Terminal(b, service, projection) IN Require(ValidBlueprint(terminal), terminal)

LowerResolved(b, service, projection, context) ==
    IF service.stages = <<>> /\ projection.stages = <<>> THEN Done(b)
    ELSE Try(ApplyChains(b, service, projection, context), LAMBDA applied : EmitBlueprint(applied, service, projection))

Lower(b, context) ==
    Try(ServiceAxis(b), LAMBDA service :
        Try(ProjectionAxis(b), LAMBDA projection : LowerResolved(b, service, projection, context)))

-----------------------------------------------------------------------------
(* Assembly from fragments, which have one identity, and of hosted children. *)

FragmentsHold(bundle) ==
    /\ \A fragment \in ToSet(bundle.presentation) : /\ fragment.projectionTiers # <<>> /\ OneOwner(fragment.projectionTiers)
                                                    /\ PresentationHolds(fragment.presentation)
    /\ \A fragment \in ToSet(bundle.implementationPrograms) :
          ResolveAxis(fragment.serviceTiers, fragment.serviceRecipes) # Failed
    /\ \A fragment \in UNION {ToSet(bundle.presentation), ToSet(bundle.presentationPrograms),
                               ToSet(bundle.implementationPrograms), ToSet(bundle.runtimeState)} :
          fragment.identity = bundle.blueprint.identity

AssembleFragments(bundle) ==
    LET Take(fragment, Part(_), otherwise) == IF fragment = <<>> THEN otherwise ELSE Part(fragment[1])
        assembled == [bundle.blueprint EXCEPT
            !.projectionTiers = Take(bundle.presentation, LAMBDA f : f.projectionTiers, <<>>),
            !.presentation = Take(bundle.presentation, LAMBDA f : <<f.presentation>>, <<>>),
            !.projectionRecipes = Take(bundle.presentationPrograms, LAMBDA f : f.projectionRecipes, <<>>),
            !.serviceTiers = Take(bundle.implementationPrograms, LAMBDA f : f.serviceTiers, <<>>),
            !.serviceRecipes = Take(bundle.implementationPrograms, LAMBDA f : f.serviceRecipes, <<>>),
            !.services = Take(bundle.implementationPrograms, LAMBDA f : f.services, @),
            !.state = Take(bundle.runtimeState, LAMBDA f : f.state, @)]
    IN Require(FragmentsHold(bundle) /\ ValidBlueprint(assembled), assembled)

(* Documents host each other: inline, by a reference that the resolver knows or
   not, or by one bound at run time, which stays.  A document is validated as it
   comes and again once its children are inline: an inline child's required
   inputs are supplied by the Cell that hosts it.  The assembled document is a
   tree; an id under itself is a cycle, an id beside itself is not. *)
RequiredSupplied(documents, name, kinds) ==
    \A child \in ToSet(documents[name].hosts) :
        child.kind \in kinds => documents[child.document].required \subseteq child.supplied
RECURSIVE AssembleHosted(_, _, _)
AssembleHosted(documents, name, active) ==
    IF name \notin DOMAIN documents THEN Failed
    ELSE LET document == documents[name]
             Host(tree, child) ==
                IF child.kind = "bound" THEN Done([tree EXCEPT !.bound = @ + 1])
                ELSE Try(AssembleHosted(documents, child.document, active \cup {document.id}),
                         LAMBDA assembled : Done([tree EXCEPT !.children = Append(@, assembled)]))
         IN IF ~document.valid \/ ~RequiredSupplied(documents, name, {"inline"}) \/ document.id \in active THEN Failed
            ELSE Try(TryEach(document.hosts, [name |-> name, children |-> <<>>, bound |-> 0], Host),
                     LAMBDA tree : Require(RequiredSupplied(documents, name, {"inline", "ref"}), tree))

-----------------------------------------------------------------------------
(* Patches of the structure. *)

OpsOf(patch) == {patch[i].op : i \in DOMAIN patch}

AdmitBlueprintPatch(b, request) ==
    CASE b.mode = "fixed" -> Failed
      [] b.mode = "reconfigurable" -> Require(request.origin = "authorized", request.patch)
      [] b.mode = "adaptive" -> Require(OpsOf(request.patch) \subseteq b.policy, request.patch)

AppliedPatchOperation(b, operation) ==
    CASE operation.op = "addCell" ->
            Require(operation.cell \notin DOMAIN b.cells,
                    [b EXCEPT !.cells = Upserted(@, operation.cell :> operation.definition)])
      [] operation.op = "replaceCell" ->
            Require(operation.cell \in DOMAIN b.cells, [b EXCEPT !.cells[operation.cell] = operation.definition])
      [] operation.op = "removeCell" -> Done([b EXCEPT !.cells = Without(@, {operation.cell})])
      [] operation.op = "setPresentation" -> Done([b EXCEPT !.presentation = <<operation.presentation>>])

PatchesChild(patch) ==
    \E i \in DOMAIN patch : patch[i].op \in {"addCell", "replaceCell"} /\ patch[i].definition.hosts # <<>>

ApplyBlueprintPatch(b, patch) ==
    IF ~ValidBlueprint(b) \/ patch = <<>> \/ PatchesChild(patch) THEN Failed
    ELSE Try(TryEach(patch, b, AppliedPatchOperation), LAMBDA next : Require(ValidBlueprint(next), next))

(* What a host does with a request (applied when admitted). *)
PatchOn(b, request) == Try(AdmitBlueprintPatch(b, request), LAMBDA patch : ApplyBlueprintPatch(b, patch))

-----------------------------------------------------------------------------
(* What they promise. *)

(* A resolved axis is a walk along every recipe, once, through different tiers;
   and every set of recipes that can be walked like that is resolved. *)
Walks(recipes) == {walk \in SetToSeqs(ToSet(recipes)) : \A i \in 1..(Len(walk) - 1) : walk[i].to = walk[i + 1].from}
TiersWalked(walk) == <<walk[1].from>> \o [i \in DOMAIN walk |-> walk[i].to]
AxisIsOneWalk(tiers, recipes) ==
    LET axis == ResolveAxis(tiers, recipes)
        walks == {walk \in Walks(recipes) : IsInjective(TiersWalked(walk)) /\ ToSet(TiersWalked(walk)) \subseteq IdsOf(tiers)}
    IN (recipes # <<>> /\ IdsApart(tiers) /\ IdsApart(recipes)) =>
        /\ axis # Failed <=> walks # {}
        /\ axis # Failed => axis[1].stages \in walks /\ axis[1].terminal = Last(TiersWalked(axis[1].stages))

(* Lowering keeps every Cell, its ports, its events and its child, and the
   contract behind every source; no handler is for an undeclared event. *)
LoweringKeepsCells(b, t) ==
    /\ DOMAIN t.cells = DOMAIN b.cells
    /\ \A c \in DOMAIN b.cells :
          /\ t.cells[c].inputs = b.cells[c].inputs /\ t.cells[c].events = b.cells[c].events
          /\ t.cells[c].hosts = b.cells[c].hosts
          /\ ContractsOf(t.services, t.cells[c].sources) = ContractsOf(b.services, b.cells[c].sources)
          /\ b.cells[c].handles \subseteq b.cells[c].events => t.cells[c].handles \subseteq t.cells[c].events

(* What implements a Cell is the same with and without the projection axis. *)
Implementation(b) == <<b.services, [c \in DOMAIN b.cells |->
                          <<b.cells[c].sources, b.cells[c].compute, b.cells[c].handles>>]>>
AxesStayApart(b, t, context) ==
    LET alone == TryEach(ServiceAxis(b)[1].stages, b, LAMBDA stage, recipe : ApplyServiceRecipe(stage, recipe, context))
    IN alone # Failed /\ Implementation(t) = Implementation(alone[1])

ViewsOffered(b) == UNION {UNION {UNION {ViewsUses(r.views[c]) : c \in DOMAIN r.views} : r \in ToSet(recipe.representations)} :
                              recipe \in ToSet(b.projectionRecipes)}

(* The terminal Blueprint is valid and needs no lowering; what it uses was
   authorized by name or by its terminal tier, and its decorations are declared. *)
TerminalIsClosed(b, t) ==
    /\ AuthoringStatus(t) = "runtime-ready"
    /\ \A p \in ToSet(b.presentation) :
          CellUses(t.cells) \subseteq ExplicitIn(p.allowed)
              \cup CapabilitiesOf(t.projectionTiers, TiersIn(p.allowed) \cap IdsOf(t.projectionTiers))
    /\ CellUses(t.cells) \subseteq CellUses(b.cells) \cup ViewsOffered(b) \cup t.externals

LoweringHolds(b, context) ==
    (AuthoringStatus(b) = "lowering-required" /\ Lower(b, context) # Failed) =>
        LET t == Lower(b, context)[1]
        IN LoweringKeepsCells(b, t) /\ AxesStayApart(b, t, context) /\ TerminalIsClosed(b, t)

(* Fragments of a valid Blueprint assemble to it; a stranger among them is refused. *)
SplitBlueprint(b, identity) ==
    [blueprint |-> [b EXCEPT !.projectionTiers = <<>>, !.presentation = <<>>, !.projectionRecipes = <<>>,
                             !.serviceTiers = <<>>, !.serviceRecipes = <<>>, !.services = <<>>, !.state = <<>>],
     presentation |-> [i \in DOMAIN b.presentation |->
        [identity |-> b.identity, projectionTiers |-> b.projectionTiers, presentation |-> b.presentation[i]]],
     presentationPrograms |-> <<[identity |-> identity, projectionRecipes |-> b.projectionRecipes]>>,
     implementationPrograms |-> <<[identity |-> b.identity, serviceTiers |-> b.serviceTiers,
                                   serviceRecipes |-> b.serviceRecipes, services |-> b.services]>>,
     runtimeState |-> <<[identity |-> b.identity, state |-> b.state]>>]
FragmentsComeTogether(b) ==
    (ValidBlueprint(b) /\ b.presentation # <<>>) =>
        /\ AssembleFragments(SplitBlueprint(b, b.identity)) = Done(b)
        /\ AssembleFragments(SplitBlueprint(b, "stranger")) = Failed

(* Assembly succeeds when what is hosted, directly or not, is known and valid
   and given what it requires, and no document is under one with its id; then
   nothing is left out. *)
Hosted(documents, name) ==
    {documents[name].hosts[i].document : i \in {i \in DOMAIN documents[name].hosts : documents[name].hosts[i].kind # "bound"}}
RECURSIVE HostingPaths(_, _, _)
HostingPaths(documents, paths, length) ==
    IF length = 0 THEN paths
    ELSE HostingPaths(documents, paths \cup
            UNION {{Append(path, next) : next \in IF Last(path) \in DOMAIN documents THEN Hosted(documents, Last(path)) ELSE {}} :
                       path \in paths}, length - 1)
RECURSIVE NamesIn(_)
NamesIn(tree) == {tree.name} \cup UNION {NamesIn(tree.children[i]) : i \in DOMAIN tree.children}
AssemblyIsComplete(documents, name) ==
    LET paths == HostingPaths(documents, {<<name>>}, Cardinality(DOMAIN documents))
        reached == UNION {ToSet(path) : path \in paths}
        assembled == AssembleHosted(documents, name, {})
    IN /\ assembled # Failed <=>
            /\ reached \subseteq DOMAIN documents
            /\ \A d \in reached : documents[d].valid /\ RequiredSupplied(documents, d, {"inline", "ref"})
            /\ \A path \in paths : \A i, j \in DOMAIN path : documents[path[i]].id = documents[path[j]].id => i = j
       /\ assembled # Failed => NamesIn(assembled[1]) = reached

(* A patch by the running program changes what the adaptive policy names and
   nothing else; nobody patches a child into a Blueprint. *)
PatchStaysWithinPolicy(b, request) ==
    LET next == PatchOn(b, request)
    IN next # Failed =>
        /\ ValidBlueprint(next[1])
        /\ (request.origin = "runtime") =>
              /\ b.mode = "adaptive"
              /\ "addCell" \notin b.policy => DOMAIN next[1].cells \subseteq DOMAIN b.cells
              /\ "removeCell" \notin b.policy => DOMAIN b.cells \subseteq DOMAIN next[1].cells
              /\ b.policy \cap {"addCell", "replaceCell"} = {} =>
                    \A c \in DOMAIN b.cells \cap DOMAIN next[1].cells : next[1].cells[c] = b.cells[c]
              /\ "setPresentation" \notin b.policy => next[1].presentation = b.presentation
        /\ \A c \in DOMAIN next[1].cells : next[1].cells[c].hosts # <<>> =>
              c \in DOMAIN b.cells /\ next[1].cells[c].hosts = b.cells[c].hosts
===============================================================================
