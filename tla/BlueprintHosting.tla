---------------------------- MODULE BlueprintHosting ----------------------------
(***************************************************************************)
(* What runs a Blueprint outside of the kernel: the worker, the snapshot   *)
(* subscription, the rendered session, the hosted children and their       *)
(* projection.  They meet only where one is the environment of the other,  *)
(* so each is looked at by itself, with the variables of the others at     *)
(* rest.                                                                   *)
(***************************************************************************)
EXTENDS BlueprintWorker, SnapshotSubscription, BlueprintSession, HostedBlueprints

VARIABLE part  \* which of them goes on

HostingInit == WorkerInit /\ SubInit /\ SeInit /\ HbInit /\ PjInit

HostingNext ==
    \/ part = "worker" /\ WorkerNext /\ UNCHANGED <<subVars, seVars, hbVars, pjVars, part>>
    \/ part = "subscription" /\ SubNext /\ UNCHANGED <<vars, seVars, hbVars, pjVars, part>>
    \/ part = "session" /\ SeNext /\ UNCHANGED <<vars, subVars, hbVars, pjVars, part>>
    \/ part = "children" /\ HbNext /\ UNCHANGED <<vars, subVars, seVars, pjVars, part>>
    \/ part = "projection" /\ PjNext /\ UNCHANGED <<vars, subVars, seVars, hbVars, part>>

HostingVars == <<vars, subVars, seVars, hbVars, pjVars, part>>
HostingSpec == HostingInit /\ [][HostingNext]_HostingVars

(***************************************************************************)
(* What is shown belongs to what is mounted: a source follows its runtime  *)
(* while it is mounted, the children are those of the tree, and a late     *)
(* resolution never replaces a newer one (and every variable is typed).    *)
(***************************************************************************)
HostingSafe == WorkerTypeOK /\ SubscriptionTypeOK /\ FollowsWhileMounted /\ ChildrenHold /\ ProjectionHolds
=================================================================================
