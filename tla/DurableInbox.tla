----------------------------- MODULE DurableInbox -----------------------------
(***************************************************************************)
(* What the durable runtime promises to its host, without leases, workers, *)
(* wakes or attempts: journalled entries are folded into the checkpoint    *)
(* exactly once, in whole batches that leave no gap; an effect is written  *)
(* to the outbox by the commit that folds the event which emitted it, and  *)
(* by no other; it ends "done" or "dead" only once its outcome is in the   *)
(* journal, and however often that outcome is reported, one report counts. *)
(***************************************************************************)
EXTENDS BlueprintTransition

VARIABLES
    journal,    \* the entries appended so far
    checkpoint, \* [revision, cursor, state, settled]: the committed checkpoint
    outbox      \* message id -> "pending", "done" or "dead"

inboxVars == <<journal, checkpoint, outbox>>

Reported(id) == \E i \in 1..Len(journal) : Settles(journal[i], id)

Init ==
    /\ journal = << >>
    /\ checkpoint = [revision |-> 0, cursor |-> 0, state |-> {}, settled |-> {}]
    /\ outbox = << >>

\* A host event is journalled.
Deliver ==
    /\ \E event \in Events : journal' = Append(journal, EventEntry(event))
    /\ UNCHANGED <<checkpoint, outbox>>

\* The outcome of a written effect is journalled; it may be reported again.
Report ==
    /\ \E id \in DOMAIN outbox : journal' = Append(journal, SettledEntry(id))
    /\ UNCHANGED <<checkpoint, outbox>>

(***************************************************************************)
(* The entries up to "upto" become part of the checkpoint.  The state is   *)
(* defined from the whole prefix, not from the batch: it does not depend   *)
(* on where earlier batches ended.                                         *)
(***************************************************************************)
Process ==
    /\ \E upto \in (checkpoint.cursor + 1)..Len(journal) :
         LET new == {<<checkpoint.revision + 1, p>> :
                       p \in Emitting(journal, checkpoint.cursor + 1, upto)}
         IN /\ checkpoint' = [revision |-> checkpoint.revision + 1,
                              cursor |-> upto,
                              state |-> Folded(journal, 1, upto, {}),
                              settled |-> Consumed(journal, 1, upto)]
            /\ outbox' = [id \in DOMAIN outbox \cup new |->
                            IF id \in DOMAIN outbox THEN outbox[id]
                                                    ELSE "pending"]
    /\ UNCHANGED journal

\* An effect leaves the outbox, its outcome journalled if it has one to report.
Finish ==
    /\ \E id \in DOMAIN outbox, end \in {"done", "dead"} :
         /\ outbox[id] = "pending"
         /\ Settling(journal, id) => Reported(id)
         /\ outbox' = [outbox EXCEPT ![id] = end]
    /\ UNCHANGED <<journal, checkpoint>>

Next == Deliver \/ Report \/ Process \/ Finish

Spec == Init /\ [][Next]_inboxVars
===============================================================================
