---------------------------- MODULE ProgramPatches ----------------------------
(* The kernel's algorithms on programs, graphs and stores, as operators:     *)
(* program-patch.ts (diff and apply), graph-runtime.ts (feedback components) *)
(* and providers.ts (paths of the store).  A program keeps its graph and its *)
(* root, and sequences of handlers, machines and derivations by id; 0 stands *)
(* for an absent graph or root.                                              *)
EXTENDS Integers, Sequences, SequencesExt, FiniteSets, Functions

------------------------------------------------------------------------------
(* Items by id, and programs.                                                  *)

Lists == {"handlers", "machines", "derivations"}
Item(id, body) == [id |-> id, body |-> body]
IdsOf(items) == {items[i].id : i \in DOMAIN items}
Differs(items, item) == ~\E i \in DOMAIN items : items[i] = item

UpsertById(items, item) ==
    IF item.id \in IdsOf(items)
    THEN LET first == SelectInSeq(items, LAMBDA other : other.id = item.id)
         IN [items EXCEPT ![first] = item]
    ELSE Append(items, item)
RemoveById(items, id) == SelectSeq(items, LAMBDA item : item.id # id)

AppliedOperation(program, operation) ==
    CASE operation.op = "setGraph" -> [program EXCEPT !.graph = operation.value]
      [] operation.op = "setRoot" -> [program EXCEPT !.root = operation.value]
      [] operation.op = "upsert" -> [program EXCEPT ![operation.list] = UpsertById(@, operation.value)]
      [] operation.op = "remove" -> [program EXCEPT ![operation.list] = RemoveById(@, operation.value.id)]
ApplyProgramPatch(program, patch) == FoldLeft(AppliedOperation, program, patch)

Operations(op, list, items) == [i \in DOMAIN items |-> [op |-> op, list |-> list, value |-> items[i]]]
DiffByIdOfNew(list, current, target) ==
    Operations("remove", list, SelectSeq(current, LAMBDA item : item.id \notin IdsOf(target)))
    \o Operations("upsert", list, SelectSeq(target, LAMBDA item : item.id \notin IdsOf(current)))
DiffById(list, current, target) ==
    Operations("remove", list, SelectSeq(current, LAMBDA item : item.id \notin IdsOf(target)))
    \o Operations("upsert", list, SelectSeq(target, LAMBDA item : Differs(current, item)))
DiffPart(op, current, target) ==
    IF current = target THEN <<>> ELSE <<[op |-> op, list |-> "", value |-> target]>>
DiffProgram(current, target) ==
    DiffPart("setGraph", current.graph, target.graph) \o DiffPart("setRoot", current.root, target.root)
    \o DiffById("handlers", current.handlers, target.handlers)
    \o DiffById("machines", current.machines, target.machines)
    \o DiffById("derivations", current.derivations, target.derivations)

(* Equal but for the order of items: diffProgram does not see that. *)
SameProgram(a, b) ==
    /\ a.graph = b.graph /\ a.root = b.root
    /\ \A list \in Lists : Range(a[list]) = Range(b[list])

(* Items that both programs have stand in the same order, and new ones last. *)
KeepsOrder(current, target) ==
    LET order == SelectSeq([i \in DOMAIN current |-> current[i].id], LAMBDA id : id \in IdsOf(target))
    IN IsPrefix(order, [i \in DOMAIN target |-> target[i].id])

(* The patch between two programs turns one into the other's items, and into
   the other itself where no item moved: nothing in a patch moves an item. *)
DiffReaches(a, b) ==
    LET reached == ApplyProgramPatch(a, DiffProgram(a, b)) IN
    /\ SameProgram(reached, b)
    /\ (\A list \in Lists : KeepsOrder(a[list], b[list])) => reached = b
    /\ DiffProgram(a, a) = <<>>

------------------------------------------------------------------------------
(* applyGraphMutations: nodes in order; it throws on a node that is there
   already or not at all.  A replacement is put in the place of the node the
   mutation names, and brings an id of its own.                                *)

Refused == <<Item(0, 0)>>
Mutated(nodes, mutation) ==
    CASE nodes = Refused -> Refused
      [] mutation.op = "addNode" ->
            IF mutation.node.id \in IdsOf(nodes) THEN Refused ELSE Append(nodes, mutation.node)
      [] mutation.op = "removeNode" -> RemoveById(nodes, mutation.nodeId)
      [] mutation.op = "replaceNode" ->
            IF mutation.nodeId \in IdsOf(nodes)
            THEN [nodes EXCEPT ![SelectInSeq(nodes, LAMBDA node : node.id = mutation.nodeId)] = mutation.node]
            ELSE Refused
ApplyGraphMutations(nodes, mutations) == FoldLeft(Mutated, nodes, mutations)

(* Nodes of one id: reindex throws when it meets them (graph-runtime.ts). *)
Clashing(nodes) == Cardinality(IdsOf(nodes)) # Len(nodes)
Named(mutation) == CASE mutation.op = "addNode" -> {mutation.node.id}
                     [] mutation.op = "removeNode" -> {mutation.nodeId}
                     [] mutation.op = "replaceNode" -> {mutation.nodeId, mutation.node.id}

(* Node ids clash only through a replacement under another id, which takes the
   id of a node that was there or came; nodes that nothing names stay as they
   are, in their order. *)
MutationsAreLocal(nodes, mutations) ==
    LET result == ApplyGraphMutations(nodes, mutations)
        named == UNION {Named(mutations[i]) : i \in DOMAIN mutations}
        Others(items) == SelectSeq(items, LAMBDA item : item.id \notin named)
    IN result # Refused =>
        /\ Clashing(result) => \E i \in DOMAIN mutations :
                /\ mutations[i].op = "replaceNode" /\ mutations[i].node.id # mutations[i].nodeId
                /\ Len(SelectSeq(result, LAMBDA item : item.id = mutations[i].node.id)) > 1
        /\ Others(result) = Others(nodes)

------------------------------------------------------------------------------
(* feedbackComponents: nodes 1..n, an edge for every token one produces and the
   other reads.                                                                *)

(* reachable: a breadth-first search; a node reaches itself only through
   others. *)
RECURSIVE ReachedFrom(_, _)
ReachedFrom(edges, nodes) ==
    LET more == nodes \cup {edge[2] : edge \in {e \in edges : e[1] \in nodes}}
    IN IF more = nodes THEN nodes ELSE ReachedFrom(edges, more)
Reachable(edges, from, to) == from # to /\ to \in ReachedFrom(edges, {from})

Joined(components, a, b) ==
    LET holds == SelectInSeq(components, LAMBDA c : a \in c \/ b \in c)
    IN IF holds = 0 THEN Append(components, {a, b}) ELSE [components EXCEPT ![holds] = @ \cup {a, b}]
Pairs(n) == FlattenSeq([a \in 1..n |-> [i \in 1..(n - a) |-> <<a, a + i>>]])
FeedbackComponents(n, edges) ==
    FoldLeft(LAMBDA components, pair :
                 IF Reachable(edges, pair[1], pair[2]) /\ Reachable(edges, pair[2], pair[1])
                 THEN Joined(components, pair[1], pair[2]) ELSE components,
             SelectSeq([a \in 1..n |-> {a}], LAMBDA c : \A a \in c : <<a, a>> \in edges), Pairs(n))

(* The components cover exactly the nodes on cycles, and each is on one. *)
OnCycle(edges, a, b) ==
    (a = b /\ <<a, a>> \in edges) \/ (b \in ReachedFrom(edges, {a}) /\ a \in ReachedFrom(edges, {b}) /\ a # b)
FeedbackIsFound(n, edges) ==
    LET components == FeedbackComponents(n, edges) IN
    /\ UNION Range(components) = {a \in 1..n : \E b \in 1..n : OnCycle(edges, a, b)}
    /\ \A c \in Range(components) : \A a, b \in c : a = b \/ OnCycle(edges, a, b)

------------------------------------------------------------------------------
(* Stores.  A store is a tree: what is at every path that is there, a leaf, an
   array or an object; whatever is at a path lies in objects or arrays.        *)

ProperPrefixes(path) == {SubSeq(path, 1, i) : i \in 1..(Len(path) - 1)}
Below(tree, path) == {q \in DOMAIN tree : IsPrefix(path, q)}
At(tree, path) == IF path \in DOMAIN tree THEN tree[path] ELSE "null"
Without(tree, paths) == [q \in DOMAIN tree \ paths |-> tree[q]]
IsTree(tree) == \A q \in DOMAIN tree : \A p \in ProperPrefixes(q) : At(tree, p) \in {"object", "array"}

(* getPath goes through objects only. *)
GetPath(tree, path) ==
    IF \A p \in ProperPrefixes(path) : At(tree, p) = "object" THEN At(tree, path) ELSE "null"

(* setPath makes an object of whatever is in its way. *)
SetPath(tree, path, value) ==
    LET blocked == {p \in ProperPrefixes(path) : At(tree, p) # "object"}
        kept == Without(tree, UNION {Below(tree, p) : p \in blocked \cup {path}})
    IN [q \in DOMAIN kept \cup ProperPrefixes(path) \cup {path} |->
        IF q = path THEN value ELSE IF q \in ProperPrefixes(path) THEN "object" ELSE kept[q]]

(* removePath goes through arrays, too. *)
RemovePath(tree, path) ==
    IF \A p \in ProperPrefixes(path) : At(tree, p) \in {"object", "array"}
    THEN Without(tree, Below(tree, path)) ELSE tree

(* merge: keys are set below the path, which becomes an object. *)
MergePath(tree, path, key, value) ==
    SetPath(IF GetPath(tree, path) = "object" THEN tree ELSE SetPath(tree, path, "object"),
            Append(path, key), value)

ApplyStoreOp(tree, op) ==
    CASE op.op = "remove" -> RemovePath(tree, op.path)
      [] op.op = "merge" -> MergePath(tree, op.path, op.key, op.value)
      [] op.op = "set" -> SetPath(tree, op.path, op.value)

Overlapping(p, q) == IsPrefix(p, q) \/ IsPrefix(q, p)

(* What is read at a path changes only through operations on paths that overlap
   it, which is what the derivation scheduler counts on; and a store stays a
   tree. *)
OpsTouchOverlaps(tree, op, paths) ==
    /\ IsTree(ApplyStoreOp(tree, op))
    /\ \A q \in paths : ~Overlapping(op.path, q) => GetPath(ApplyStoreOp(tree, op), q) = GetPath(tree, q)
    /\ op.op = "set" => GetPath(ApplyStoreOp(tree, op), op.path) = op.value
    /\ op.op = "remove" => GetPath(ApplyStoreOp(tree, op), op.path) = "null"

(* CompositeStateModel: the head of a path names the store that owns it; what
   is written through one kernel is read through another that shares it. *)
StoreFor(contexts, path) == IF Head(path) \in contexts THEN "shared" ELSE "local"
CompositeApply(stores, contexts, op) ==
    [stores EXCEPT ![StoreFor(contexts, op.path)] = ApplyStoreOp(@, op)]
CompositeGet(stores, contexts, path) == GetPath(stores[StoreFor(contexts, path)], path)
CompositeSnapshot(stores, contexts) ==
    [q \in {p \in DOMAIN stores.local : Head(p) \notin contexts} \cup {p \in DOMAIN stores.shared : Head(p) \in contexts}
        |-> stores[StoreFor(contexts, q)][q]]
SharedIsShared(local, contexts, op, paths) ==
    LET mine == CompositeApply([local |-> local, shared |-> local], contexts, op)
        theirs == [mine EXCEPT !.local = local]
    IN \A q \in paths :
        /\ GetPath(CompositeSnapshot(mine, contexts), q) = CompositeGet(mine, contexts, q)
        /\ Head(q) \in contexts => CompositeGet(theirs, contexts, q) = CompositeGet(mine, contexts, q)
==============================================================================
