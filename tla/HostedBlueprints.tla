---------------------------- MODULE HostedBlueprints ----------------------------
(***************************************************************************)
(* The children of a running Blueprint: the HostedBlueprintReconciler that *)
(* a headless host drives with each resolved tree, and the projection with *)
(* which React mounts one hosted Cell.                                     *)
(*                                                                         *)
(* A tree is the function from the paths of its hosted nodes to the        *)
(* signature of their props.  Of the order in which a Map gives its        *)
(* entries nothing is assumed.  An action ends where an await settles.     *)
(***************************************************************************)
EXTENDS Naturals, FiniteSets, Sequences

CONSTANTS
    HbTrees,        \* trees that may be reconciled
    MaxRequests,    \* bound: calls of reconcile and stop
    MaxTrips,       \* bound: calls of the lifecycle or the registry that reject
    Declarations,   \* what a node may declare: references, inline objects,
                    \* "empty" and "invalid"
    MaxRenders      \* bound: renders of the projection with other props

ASSUME HostedBounds == MaxRequests \in Nat /\ MaxTrips \in Nat /\ MaxRenders \in Nat
\* A tree has the paths of its hosted nodes and their signatures, nothing else.
ASSUME TreesAreFunctions == \A tree \in HbTrees : tree = [p \in DOMAIN tree |-> tree[p]]

VARIABLES
    updates,    \* whether the lifecycle has update
    children,   \* mounted: path to its instance and signature
    live,       \* instances the lifecycle has mounted and not unmounted
    chain,      \* trees (or "stop") whose operation has not begun
    turn,       \* the operation under way: [tree, done (paths), at (what is awaited), path]
    wanted,     \* the tree of the last operation that ended
    hbUsed      \* [requests, trips, instances] so far

hbVars == <<updates, children, live, chain, turn, wanted, hbUsed>>

NoTree == [p \in {} |-> 0]
Resting == [tree |-> NoTree, done |-> {}, at |-> "rest", path |-> ""]
Child(path, n) == [path |-> path, n |-> n]

HbInit ==
    /\ updates \in BOOLEAN
    /\ children = [p \in {} |-> 0] /\ live = {} /\ chain = <<>>
    /\ turn = Resting /\ wanted = NoTree
    /\ hbUsed = [requests |-> 0, trips |-> 0, instances |-> 0]

-----------------------------------------------------------------------------
(* reconcile and stop enqueue; operations follow each other, whether the one *)
(* before succeeded or not.                                                  *)

Request(what) ==
    /\ hbUsed.requests < MaxRequests
    /\ hbUsed' = [hbUsed EXCEPT !.requests = @ + 1]
    /\ chain' = Append(chain, what)
    /\ UNCHANGED <<updates, children, live, turn, wanted>>
Reconcile == \E tree \in HbTrees : Request([stop |-> FALSE, tree |-> tree])
StopChildren == Request([stop |-> TRUE, tree |-> NoTree])

MayBegin == turn.at = "rest" /\ chain # <<>>

BeginTurn ==
    /\ MayBegin
    /\ chain' = Tail(chain)
    /\ turn' = [tree |-> chain[1].tree, done |-> {}, at |-> IF chain[1].stop THEN "stopping" ELSE "removing", path |-> ""]
    /\ UNCHANGED <<updates, children, live, wanted, hbUsed>>

Forget(paths) == [p \in DOMAIN children \ paths |-> children[p]]
Kept(path, n) == [p \in DOMAIN children \cup {path} |->
                    IF p = path THEN [instance |-> Child(path, n), signature |-> turn.tree[path]] ELSE children[p]]

\* One that is no longer in the tree.
RemoveChild ==
    /\ turn.at = "removing"
    /\ \E p \in DOMAIN children \ DOMAIN turn.tree :
          live' = live \ {children[p].instance} /\ children' = Forget({p})
    /\ UNCHANGED <<updates, chain, turn, wanted, hbUsed>>

RemovalEnds ==
    /\ turn.at = "removing" /\ DOMAIN children \subseteq DOMAIN turn.tree
    /\ turn' = [turn EXCEPT !.at = "choosing"]
    /\ UNCHANGED <<updates, children, live, chain, wanted, hbUsed>>

\* The next path: nothing is done if its signature is the one mounted.
ChooseChild ==
    /\ turn.at = "choosing"
    /\ \E p \in DOMAIN turn.tree \ turn.done :
          LET same == p \in DOMAIN children /\ children[p].signature = turn.tree[p]
          IN turn' = [turn EXCEPT !.done = @ \cup {p}, !.path = p, !.at = IF same THEN "choosing" ELSE "resolving"]
    /\ UNCHANGED <<updates, children, live, chain, wanted, hbUsed>>

ResolveChild ==
    /\ turn.at = "resolving"
    /\ turn' = [turn EXCEPT !.at = IF turn.path \notin DOMAIN children THEN "mounting"
                                   ELSE IF updates THEN "updating" ELSE "replacing"]
    /\ UNCHANGED <<updates, children, live, chain, wanted, hbUsed>>

\* update keeps the instance or returns another one in its place.
UpdateChild ==
    /\ turn.at = "updating"
    /\ LET old == children[turn.path].instance
       IN \/ children' = Kept(turn.path, old.n) /\ UNCHANGED <<live, hbUsed>>
          \/ /\ children' = Kept(turn.path, hbUsed.instances + 1)
             /\ live' = (live \ {old}) \cup {Child(turn.path, hbUsed.instances + 1)}
             /\ hbUsed' = [hbUsed EXCEPT !.instances = @ + 1]
    /\ turn' = [turn EXCEPT !.at = "choosing"]
    /\ UNCHANGED <<updates, chain, wanted>>

UnmountedInPlace == live \ {children[turn.path].instance}

ReplaceChild ==
    /\ turn.at = "replacing"
    /\ live' = UnmountedInPlace
    /\ turn' = [turn EXCEPT !.at = "mounting"]
    /\ UNCHANGED <<updates, children, chain, wanted, hbUsed>>

MountChild ==
    /\ turn.at = "mounting"
    /\ children' = Kept(turn.path, hbUsed.instances + 1)
    /\ live' = live \cup {Child(turn.path, hbUsed.instances + 1)}
    /\ hbUsed' = [hbUsed EXCEPT !.instances = @ + 1]
    /\ turn' = [turn EXCEPT !.at = "choosing"]
    /\ UNCHANGED <<updates, chain, wanted>>

\* stop unmounts everything, and forgets it when all is unmounted.
StopChild ==
    /\ turn.at = "stopping"
    /\ \E p \in DOMAIN children \ turn.done :
          live' = live \ {children[p].instance} /\ turn' = [turn EXCEPT !.done = @ \cup {p}]
    /\ UNCHANGED <<updates, children, chain, wanted, hbUsed>>

TurnEnds ==
    /\ \/ turn.at = "choosing" /\ turn.done = DOMAIN turn.tree /\ UNCHANGED children
       \/ turn.at = "stopping" /\ turn.done = DOMAIN children /\ children' = Forget(DOMAIN children)
    /\ turn' = Resting /\ wanted' = turn.tree
    /\ UNCHANGED <<updates, live, chain, hbUsed>>

\* A declaration is invalid, or a call rejects, which may have unmounted.
TurnRejects ==
    /\ hbUsed.trips < MaxTrips
    /\ \/ turn.at \in {"removing", "resolving", "updating", "replacing", "mounting"} /\ UNCHANGED live
       \/ turn.at = "removing" /\ \E p \in DOMAIN children \ DOMAIN turn.tree : live' = live \ {children[p].instance}
       \/ turn.at = "stopping" /\ \E p \in DOMAIN children \ turn.done : live' \in {live, live \ {children[p].instance}}
    /\ hbUsed' = [hbUsed EXCEPT !.trips = @ + 1]
    /\ turn' = Resting
    /\ UNCHANGED <<updates, children, chain, wanted>>

HbNext ==
    \/ Reconcile \/ StopChildren \/ BeginTurn
    \/ RemoveChild \/ RemovalEnds \/ ChooseChild \/ ResolveChild
    \/ UpdateChild \/ ReplaceChild \/ MountChild \/ StopChild
    \/ TurnEnds \/ TurnRejects

-----------------------------------------------------------------------------
(* The projection of one hosted Cell.  React renders, commits, and runs the  *)
(* effects some time later.                                                  *)

VARIABLES
    props,       \* what the node declares, as last rendered
    effect,      \* what it declared when the effects ran last
    resolution,  \* what the definition that is rendered was resolved from
    error,       \* whether the error is rendered
    resolving,   \* resolutions under way: <<declaration, whether still active>>
    loading,     \* "hidden", "waiting" for its timer, or "shown"
    pjUsed       \* [renders] so far

pjVars == <<props, effect, resolution, error, resolving, loading, pjUsed>>

Nothing == "nothing"

\* What stands for no definition (null in the code) is never declared.
ASSUME NothingIsNoDeclaration == Nothing \notin Declarations
Valid(declaration) == declaration \notin {"empty", "invalid"}

PjInit ==
    /\ props \in Declarations /\ effect = Nothing
    /\ resolution = Nothing /\ error = FALSE /\ resolving = {} /\ loading = "hidden"
    /\ pjUsed = [renders |-> 0]

RenderChild ==
    /\ pjUsed.renders < MaxRenders
    /\ props' \in Declarations \ {props}
    /\ pjUsed' = [pjUsed EXCEPT !.renders = @ + 1]
    /\ UNCHANGED <<effect, resolution, error, resolving, loading>>

Deactivated == {<<r[1], FALSE>> : r \in resolving}

\* The effect of the loading view runs whenever what it depends on changed.
LoadingFor(declared, resolved, failed) ==
    IF declared = "empty" \/ resolved # Nothing \/ failed THEN "hidden" ELSE "waiting"

RunEffects ==
    /\ props # effect
    /\ effect' = props
    /\ resolution' = Nothing
    /\ error' = (props = "invalid")
    /\ resolving' = Deactivated \cup (IF Valid(props) THEN {<<props, TRUE>>} ELSE {})
    /\ loading' = LoadingFor(props, Nothing, props = "invalid")
    /\ UNCHANGED <<props, pjUsed>>

ResolutionSettles ==
    /\ \E r \in resolving :
          /\ resolving' = resolving \ {r}
          /\ \/ r[2] /\ resolution' = r[1] /\ UNCHANGED error
             \/ r[2] /\ error' = TRUE /\ UNCHANGED resolution
             \/ ~r[2] /\ UNCHANGED <<resolution, error>>
    /\ loading' = IF resolution' # resolution \/ error' # error THEN LoadingFor(effect, resolution', error') ELSE loading
    /\ UNCHANGED <<props, effect, pjUsed>>

LoadingTimerFires ==
    /\ loading = "waiting"
    /\ loading' = "shown"
    /\ UNCHANGED <<props, effect, resolution, error, resolving, pjUsed>>

PjNext == RenderChild \/ RunEffects \/ ResolutionSettles \/ LoadingTimerFires

-----------------------------------------------------------------------------
(***************************************************************************)
(* A path never has two children at once, and none is lost: whatever is    *)
(* mounted is in the map, even if calls reject; and when nothing rejected  *)
(* the children are those of the last tree, alive and with its props.      *)
(***************************************************************************)
OneChildPerPath == \A a, b \in live : a.path = b.path => a = b
NoChildIsLost == \A child \in live : child.path \in DOMAIN children /\ children[child.path].instance = child
ChildrenOfTheTree ==
    turn.at = "rest" /\ hbUsed.trips = 0 =>
        /\ live = {children[p].instance : p \in DOMAIN children}
        /\ [p \in DOMAIN children |-> children[p].signature] = wanted
ChildrenHold == OneChildPerPath /\ NoChildIsLost /\ ChildrenOfTheTree

(***************************************************************************)
(* Once the effects have run, what is rendered was resolved from what the  *)
(* node declares now, however late an earlier resolution settled; there is *)
(* one of definition, error and loading, and no loading view is left over. *)
(***************************************************************************)
ProjectionHolds ==
    /\ props = effect /\ resolution # Nothing => resolution = props
    /\ ~(error /\ resolution # Nothing)
    /\ loading # "hidden" => resolution = Nothing /\ ~error /\ \E r \in resolving : r = <<effect, TRUE>>
=============================================================================
