----------------------------- MODULE KernelProgram -----------------------------
(* How a kernel carries out a mutation of its program: an event is reduced   *)
(* (kernel/src/reduce.ts: handlers, projection edges, machines, emitted      *)
(* events), its assignments are applied and the standing derivations settled *)
(* (derivations.ts), its effects are handed to the orchestrator, whose       *)
(* answers settle in turn, and the mutation commits: a revision, a patch and *)
(* entries of the effect log (kernel.ts).  Mutations are queued one after    *)
(* the other, so a step is a part of the one under way.                      *)
EXTENDS Integers, Sequences, SequencesExt, FiniteSets

CONSTANTS KpScenarios,   \* programs, and how many mutations and failures they see (bounds)
          MaxSettleDepth,
          KpValues       \* expressions compute modulo this

ASSUME KpAssumption == MaxSettleDepth \in Nat /\ KpValues \in Nat \ {0}

VARIABLES
    doc,       \* handlers, machines, derivations and what the orchestrator answers
    state,     \* the store: a value for every leaf path
    mutating,  \* the mutation under way
    reducing,  \* the reduction under way: events, operations, effects
    frames,    \* runEffects and settle calls under way, the innermost first
    counters,  \* rev, effectSeq, mutations and failures left
    effectLog,
    mirror,    \* the store as the published patches tell it (history)
    issued     \* ids of the effects handed out; whether one was handed out twice (history)

kpVars == <<doc, state, mutating, reducing, frames, counters, effectLog, mirror, issued>>

Nobody == [kind |-> "none", acc |-> <<>>, journal |-> <<>>]
NoReduction == [on |-> FALSE, queue |-> <<>>, ops |-> <<>>, effects |-> <<>>]

------------------------------------------------------------------------------
(* Derivations.                                                                *)

PathsOverlap(p, q) == IsPrefix(p, q) \/ IsPrefix(q, p)
Feeds(e, d) == \E p \in d.dependencies : PathsOverlap(p, e.target)

(* A derivation comes after those it depends on. *)
RECURSIVE Visited(_, _, _)
Visited(derivations, d, ordered) ==
    IF Contains(ordered, d) THEN ordered
    ELSE Append(FoldLeft(LAMBDA before, e : Visited(derivations, e, before), ordered,
                         SelectSeq(derivations, LAMBDA e : Feeds(e, d))), d)
OrderedDerivations(derivations) ==
    FoldLeft(LAMBDA ordered, d : Visited(derivations, d, ordered), <<>>, derivations)

Leaves(store, paths) == {leaf \in DOMAIN store : \E p \in paths : IsPrefix(p, leaf)}
Derived(d, store) == (1 + FoldSet(LAMBDA leaf, sum : store[leaf] + sum, 0, Leaves(store, d.dependencies))) % KpValues

ApplyOps(store, ops) == FoldLeft(LAMBDA held, op : [held EXCEPT ![op.path] = op.value], store, ops)
Assignment(path, value) == [path |-> path, value |-> value]

(* One derivation of a pass: what it changes wakes others in the next pass, and
   it is not evaluated again. *)
Evaluated(progress, d, changed) ==
    IF d \in progress.evaluated \/ ~\E p \in d.dependencies : \E q \in changed : PathsOverlap(p, q)
    THEN progress
    ELSE LET value == Derived(d, progress.store)
             moved == progress.store[d.target] # value
         IN [store |-> [progress.store EXCEPT ![d.target] = value],
             ops |-> IF moved THEN Append(progress.ops, Assignment(d.target, value)) ELSE progress.ops,
             pending |-> IF moved THEN progress.pending \cup {d.target} ELSE progress.pending,
             evaluated |-> progress.evaluated \cup {d}]

RECURSIVE Passes(_, _)
Passes(derivations, progress) ==
    IF progress.pending = {} THEN progress
    ELSE Passes(derivations, FoldLeft(LAMBDA p, d : Evaluated(p, d, progress.pending),
                                      [progress EXCEPT !.pending = {}], derivations))
Settled(derivations, store, changed) ==
    Passes(OrderedDerivations(derivations), [store |-> store, ops |-> <<>>, pending |-> changed, evaluated |-> {}])
SettledAll(derivations, store) ==
    Settled(derivations, store, UNION {d.dependencies : d \in Range(derivations)})

(* applyAndDerive: the operations, and those of the derivations they wake. *)
UnderivedOps(store, ops) == [store |-> Settled(doc.derivations, ApplyOps(store, ops), {op.path : op \in Range(ops)}).store,
                             ops |-> ops]
Applied(store, ops) ==
    LET settled == Settled(doc.derivations, ApplyOps(store, ops), {op.path : op \in Range(ops)})
    IN [store |-> settled.store, ops |-> ops \o settled.ops]

------------------------------------------------------------------------------
(* Reduction.                                                                  *)

Holds(guard) == guard = <<>> \/ state[guard] # 0
Matching(machine, name) ==
    SelectSeq(machine.transitions, LAMBDA t :
        t.from = state[machine.context] /\ t.on = name /\ Holds(t.guard))

(* The actions an event takes, in order: handler, node edge, then machines,
   each from the state the store has; nothing is written before the end. *)
Taken(name) ==
    SelectSeq(IF name \in DOMAIN doc.handlers THEN doc.handlers[name] ELSE <<>>, LAMBDA a : Holds(a.guard))
    \o FlattenSeq([i \in DOMAIN doc.machines |-> FlattenSeq([j \in DOMAIN Matching(doc.machines[i], name) |->
            LET t == Matching(doc.machines[i], name)[j]
            IN <<[do |-> "enter", target |-> doc.machines[i].context, value |-> t.to]>> \o t.actions])])

Does(actions, kinds) == SelectSeq(actions, LAMBDA a : a.do \in kinds)
Operation(a) == Assignment(a.target, IF a.do = "enter" THEN a.value ELSE (state[a.from] + 1) % KpValues)

ReduceEvent ==
    /\ reducing.on /\ reducing.queue # <<>>
    /\ LET actions == Taken(Head(reducing.queue))
           writes == Does(actions, {"assign", "enter"})
           emits == Does(actions, {"emit"})
       IN reducing' = [reducing EXCEPT
            !.queue = Tail(@) \o [i \in DOMAIN emits |-> emits[i].event],
            !.ops = @ \o [i \in DOMAIN writes |-> Operation(writes[i])],
            !.effects = @ \o Does(actions, {"invoke", "request"})]
    /\ UNCHANGED <<doc, state, mutating, frames, counters, effectLog, mirror, issued>>

(* settle: the operations are applied, then the effects run. *)
EndReduction ==
    /\ reducing.on /\ reducing.queue = <<>>
    /\ LET applied == Applied(state, reducing.ops)
       IN /\ state' = applied.store
          /\ mutating' = [mutating EXCEPT !.acc = @ \o applied.ops]
    /\ frames' = [frames EXCEPT ![1].effects = reducing.effects]
    /\ reducing' = NoReduction
    /\ UNCHANGED <<doc, counters, effectLog, mirror, issued>>

------------------------------------------------------------------------------
(* A mutation.                                                                 *)

IsQuiet == mutating.kind = "none"
Top == frames[1]
Frame(events, depth) == [events |-> events, effects |-> <<>>, depth |-> depth]

MutationBegins(kind, events) ==
    /\ IsQuiet /\ counters.mutations > 0
    /\ counters' = [counters EXCEPT !.mutations = @ - 1]
    /\ mutating' = [Nobody EXCEPT !.kind = kind]
    /\ frames' = <<Frame(events, 0)>>

(* dispatch, settleRequestEffect: events from outside. *)
DispatchEvent(name) ==
    /\ MutationBegins("dispatch", <<name>>)
    /\ UNCHANGED <<doc, state, reducing, effectLog, mirror, issued>>

(* syncExternal: a context changed the store, which its listeners have seen; all
   derivations are settled. *)
SyncDerivations(leaf, value) ==
    /\ IsQuiet /\ counters.mutations > 0
    /\ counters' = [counters EXCEPT !.mutations = @ - 1]
    /\ frames' = <<Frame(<<>>, 0)>>
    /\ mirror' = [mirror EXCEPT ![leaf] = value]
    /\ LET settled == SettledAll(doc.derivations, [state EXCEPT ![leaf] = value])
       IN /\ state' = settled.store
          /\ mutating' = [Nobody EXCEPT !.kind = "sync", !.acc = settled.ops]
    /\ UNCHANGED <<doc, reducing, effectLog, issued>>

(* compensate: the orchestrator undoes logged effects, newest first; what it
   answers settles, with a journal of its own for every event. *)
Compensate ==
    /\ effectLog # <<>>
    /\ MutationBegins("compensate", [i \in DOMAIN effectLog |-> "compensated"])
    /\ UNCHANGED <<doc, state, reducing, effectLog, mirror, issued>>

SettleNext ==
    /\ frames # <<>> /\ ~reducing.on /\ Top.effects = <<>> /\ Top.events # <<>>
    /\ Top.depth <= MaxSettleDepth
    /\ reducing' = [NoReduction EXCEPT !.on = TRUE, !.queue = <<Head(Top.events)>>]
    /\ frames' = [frames EXCEPT ![1].events = Tail(@)]
    /\ mutating' = IF mutating.kind = "compensate" /\ Top.depth = 0
                   THEN [mutating EXCEPT !.journal = <<>>] ELSE mutating
    /\ UNCHANGED <<doc, state, counters, effectLog, mirror, issued>>

FrameEnds ==
    /\ frames # <<>> /\ ~reducing.on /\ Top.effects = <<>> /\ Top.events = <<>>
    /\ frames' = Tail(frames)
    /\ UNCHANGED <<doc, state, mutating, reducing, counters, effectLog, mirror, issued>>

(* runEffects: the effect gets an id and is journaled; invocations wait for the
   commit, requests and routes are answered at once. *)
NextEffect == [id |-> <<counters.rev + 1, counters.effectSeq + Len(mutating.journal)>>,
               do |-> Head(Top.effects).do]
Hand == /\ frames # <<>> /\ ~reducing.on /\ Top.effects # <<>>
        /\ issued' = [ids |-> issued.ids \cup {NextEffect.id},
                      twice |-> issued.twice \/ NextEffect.id \in issued.ids,
                      unsafe |-> issued.unsafe \/ mutating.kind = "compensate"]
Popped(frame) == [frame EXCEPT !.effects = Tail(@)]

RunEffectLater ==
    /\ Hand /\ Head(Top.effects).do = "invoke"
    /\ frames' = [frames EXCEPT ![1] = Popped(@)]
    /\ mutating' = [mutating EXCEPT !.journal = Append(@, NextEffect)]
    /\ UNCHANGED <<doc, state, reducing, counters, effectLog, mirror>>

RunEffectNow(answer) ==
    /\ Hand /\ Head(Top.effects).do = "request" /\ answer \in doc.answers
    /\ LET applied == Applied(state, answer.ops)
       IN /\ state' = applied.store
          /\ mutating' = [mutating EXCEPT !.journal = Append(@, NextEffect), !.acc = @ \o applied.ops]
    /\ frames' = <<Frame(answer.events, Top.depth + 1), Popped(Top)>> \o Tail(frames)
    /\ UNCHANGED <<doc, reducing, counters, effectLog, mirror>>

(* The mutation throws: an expression, a handler or a settlement that does not
   fit, or the depth is exceeded.  What was written stays, the revision and the
   sequence of effects do not move, and no patch tells of it. *)
MutationFails ==
    /\ counters' = [counters EXCEPT !.failures = IF @ = 0 THEN 0 ELSE @ - 1]
    /\ mutating' = Nobody /\ reducing' = NoReduction /\ frames' = <<>>
    /\ mirror' = state
    /\ issued' = [issued EXCEPT !.unsafe = TRUE]
    /\ UNCHANGED <<doc, state, effectLog>>
FailsAnywhere == ~IsQuiet /\ counters.failures > 0 /\ MutationFails
DepthExceeded ==
    /\ frames # <<>> /\ ~reducing.on /\ Top.effects = <<>> /\ Top.events # <<>>
    /\ Top.depth > MaxSettleDepth /\ MutationFails

(* The revision is counted, the journal is logged under it, and the patch is
   published; a synchronization without changes keeps the revision. *)
MutationCommits ==
    /\ ~IsQuiet /\ frames = <<>>
    /\ LET rev == IF mutating.kind = "sync" /\ mutating.acc = <<>> THEN counters.rev ELSE counters.rev + 1
           logged == IF mutating.kind = "compensate" THEN <<>> ELSE mutating.journal
       IN /\ counters' = [counters EXCEPT !.rev = rev, !.effectSeq = @ + Len(logged)]
          /\ effectLog' = effectLog \o [i \in DOMAIN logged |->
                [rev |-> rev, seq |-> counters.effectSeq + i - 1, id |-> logged[i].id]]
    /\ mirror' = ApplyOps(mirror, mutating.acc)
    /\ mutating' = Nobody
    /\ UNCHANGED <<doc, state, reducing, frames, issued>>

KpInit ==
    /\ \E scenario \in KpScenarios :
          /\ doc = scenario.doc
          /\ state = SettledAll(scenario.doc.derivations, scenario.doc.state).store
          /\ counters = [rev |-> 0, effectSeq |-> 0, mutations |-> scenario.mutations,
                         failures |-> scenario.failures]
    /\ mutating = Nobody /\ reducing = NoReduction /\ frames = <<>>
    /\ effectLog = <<>> /\ mirror = state /\ issued = [ids |-> {}, twice |-> FALSE, unsafe |-> FALSE]

KpNext ==
    \/ \E name \in doc.events : DispatchEvent(name)
    \/ \E leaf \in doc.external : \E value \in 0..(KpValues - 1) : SyncDerivations(leaf, value)
    \/ Compensate \/ FailsAnywhere
    \/ ReduceEvent \/ EndReduction \/ SettleNext \/ FrameEnds
    \/ RunEffectLater \/ MutationCommits \/ DepthExceeded
    \/ \E answer \in doc.answers : RunEffectNow(answer)

KpSpec == KpInit /\ [][KpNext]_kpVars

------------------------------------------------------------------------------
(* A patch tells of everything its mutation wrote: answers and follow-ups of
   effects and derivations included.  *)
PatchesTellAll == IsQuiet => mirror = state

(* An effect's id, given before its mutation commits, is its place in the log:
   its revision and its number there. *)
IdsAreLogPlaces == \A i \in DOMAIN effectLog :
    effectLog[i].id = <<effectLog[i].rev, effectLog[i].seq>> /\ effectLog[i].seq = i - 1

(* Two effects have the same id only when a mutation failed after it had handed
   one out, or in a compensation. *)
IdsDiffer == issued.twice => issued.unsafe

(* A machine moves along its transitions, one for every reduction. *)
MachinesMoveAsDeclared == \A i \in DOMAIN doc.machines :
    LET machine == doc.machines[i] IN
    state'[machine.context] # state[machine.context] =>
        \E j \in DOMAIN machine.transitions :
            /\ machine.transitions[j].from = state[machine.context]
            /\ machine.transitions[j].to = state'[machine.context]

(* A derived value is what its dependencies make it: "continuous relationships
   that should hold at all times". *)
Holding(store) == \A d \in Range(doc.derivations) : store[d.target] = Derived(d, store)
DerivationsHold == IsQuiet => Holding(state)

(* Settling all derivations makes them hold. *)
SyncMakesThemHold == mutating.kind = "sync" => Holding(state)
==============================================================================
