------------------------- MODULE BlueprintTransition -------------------------
(***************************************************************************)
(* The Blueprint transition adapter, as the durable runtime sees it: a     *)
(* pure function of a checkpoint and a batch of journal entries.  An entry *)
(* is a host event or the settlement of one queued effect.  What an event  *)
(* does to application state is abstracted to the fact that it was folded  *)
(* in: the state of a checkpoint is the set of journal positions folded    *)
(* into it.  What remains is the control the runtime depends on: which     *)
(* settlements of a batch are accepted, what becomes consumed, and which   *)
(* effects a batch emits.                                                  *)
(***************************************************************************)
EXTENDS Naturals, Sequences

CONSTANTS
    Events,     \* the host events that can be journalled
    EffectOf    \* the kind of effect an event makes the transition emit

EffectKinds == {"none", "plain", "settling"}

ASSUME EffectAssumption == EffectOf \in [Events -> EffectKinds]

(***************************************************************************)
(* A queued effect is identified by the commit that wrote it and by the    *)
(* journal position of the event that emitted it (the code draws a fresh   *)
(* UUID; two effects are equal only if the same commit wrote both for the  *)
(* same event).  The effects lane is ordered by that pair.                 *)
(***************************************************************************)
MessageIds == Nat \X Nat

Earlier(a, b) == a[1] < b[1] \/ (a[1] = b[1] /\ a[2] < b[2])

EventEntry(event) == [kind |-> "event", event |-> event]
SettledEntry(id) == [kind |-> "settled", message |-> id]

Entries == [kind : {"event"}, event : Events]
             \cup [kind : {"settled"}, message : MessageIds]

IsEvent(entry) == entry.kind = "event"
Settles(entry, id) == entry.kind = "settled" /\ entry.message = id

(***************************************************************************)
(* Positions from..to of the journal whose settlement is accepted by a     *)
(* transition that starts with the message ids in "settled" consumed: the  *)
(* first settlement of each message not consumed before.                   *)
(***************************************************************************)
Accepted(journal, from, to, settled) ==
    {i \in from..to :
        /\ ~IsEvent(journal[i])
        /\ journal[i].message \notin settled
        /\ \A j \in from..(i - 1) : ~Settles(journal[j], journal[i].message)}

\* The positions a transition over from..to folds into the state.
Folded(journal, from, to, settled) ==
    {i \in from..to : IsEvent(journal[i])}
      \cup Accepted(journal, from, to, settled)

(***************************************************************************)
(* The message ids a transition over from..to leaves consumed, beyond      *)
(* those consumed before: of each message settled in the batch, the first  *)
(* settlement is recorded now unless an earlier batch recorded it.         *)
(***************************************************************************)
Consumed(journal, from, to) ==
    {journal[i].message : i \in {p \in from..to : ~IsEvent(journal[p])}}

\* The positions of from..to whose event makes the transition emit an effect.
Emitting(journal, from, to) ==
    {i \in from..to : IsEvent(journal[i])
                        /\ EffectOf[journal[i].event] # "none"}

\* Whether the effect "id" reports its outcome as a settlement entry.
Settling(journal, id) ==
    EffectOf[journal[id[2]].event] = "settling"
==============================================================================
