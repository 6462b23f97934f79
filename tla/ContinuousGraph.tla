--------------------------- MODULE ContinuousGraph ---------------------------
(* The consequence graph of a kernel (kernel/src/graph-runtime.ts) and the   *)
(* kernel's transitions over it (kernel.ts: start, publish, dispatch, resume,*)
(* mutate, settleInvocation, completeAndPromoteSourceEffect).  Tokens are    *)
(* published with versions, a node is ready when a version it has not        *)
(* consumed is there or when it was triggered, and a traversal executes the  *)
(* ready nodes one by one until none is left or its budget is spent.  The    *)
(* kernel's mutation queue lets one transition at a time work on the graph.  *)
EXTENDS Integers, FiniteSets, FiniteSetsExt

CONSTANTS GrTokens,      \* port tokens
          GrNodes,       \* node ids, numbers: they are tried in this order
          GrScenarios,   \* graphs, and how many transitions they see (a bound)
          MaxValue,      \* bound: the largest value a node computes
          AmpleBudget    \* maxNodeExecutions by default (10000 in the code)

GrGraphs ==
    [nodes : SUBSET GrNodes, required : [GrNodes -> SUBSET GrTokens], optional : [GrNodes -> SUBSET GrTokens],
     outputs : [GrNodes -> SUBSET GrTokens], kind : [GrNodes -> {"compute", "decision", "actions", "invoke"}],
     trigger : [GrNodes -> {"none", "startup", "event"}], mode : [GrTokens -> {"value", "signal", "stream"}],
     inputs : SUBSET GrTokens]

ASSUME GrAssumption ==
    /\ GrNodes \subseteq Nat \ {0} /\ MaxValue \in Nat /\ AmpleBudget \in Nat \ {0}
    /\ GrScenarios \subseteq [graph : GrGraphs, transitions : Nat]

VARIABLES
    graph,      \* the topology: nodes, their inputs, output, kind and trigger, modes of tokens
    token,      \* status, value and version of every token
    node,       \* status and consumed versions of every node
    triggered,  \* nodes to execute although they have consumed everything
    run,        \* the traversal under way: executions left, the node it awaits, what follows
    status,     \* how the last traversal ended
    invoked,    \* graphInvocationNodes: nodes that an invocation will complete
    used,       \* what each node was last executed with (history)
    excused,    \* nodes that did not see a change, by design (history)
    grLeft      \* transitions left

grVars == <<graph, token, node, triggered, run, status, invoked, used, excused, grLeft>>

NoValue == -1
NoRun == [on |-> FALSE, left |-> 0, awaits |-> 0, then |-> "none"]
Unused == [t \in GrTokens |-> NoValue]

GrInit ==
    /\ \E scenario \in GrScenarios : graph = scenario.graph /\ grLeft = scenario.transitions
    /\ token = [t \in GrTokens |-> [there |-> FALSE, value |-> NoValue, version |-> 0]]
    /\ node = [n \in GrNodes |-> [status |-> "idle", consumed |-> [t \in GrTokens |-> 0]]]
    /\ triggered = {} /\ run = NoRun /\ status = "quiescent" /\ invoked = {}
    /\ used = [n \in GrNodes |-> Unused] /\ excused = {}

Inputs(n) == graph.required[n] \cup graph.optional[n]
Mode(t) == graph.mode[t]

------------------------------------------------------------------------------
(* Tokens.                                                                     *)

(* publishToken: a value port that already has the value does not change. *)
PublishedToken(t, value, before) ==
    IF Mode(t) = "value" /\ before.there /\ before.value = value THEN before
    ELSE [there |-> TRUE, version |-> before.version + 1,
          value |-> IF Mode(t) = "stream" THEN Min({before.value + 1, MaxValue}) ELSE value]
PublishedTokens(values) ==
    [t \in GrTokens |-> IF t \in DOMAIN values THEN PublishedToken(t, values[t], token[t]) ELSE token[t]]

(* clearSignals: when a traversal comes to rest, signals are gone, also for a
   node that could not take them. *)
Cleared(tokens) == [t \in GrTokens |-> IF Mode(t) = "signal" THEN [tokens[t] EXCEPT !.there = FALSE] ELSE tokens[t]]

Captured(n, state) ==
    [state EXCEPT !.consumed = [t \in GrTokens |-> IF t \in Inputs(n) THEN token[t].version ELSE @[t]]]
InputsNow(n) == [t \in GrTokens |-> IF t \in Inputs(n) /\ token[t].there THEN token[t].value ELSE NoValue]

ReadyOnRequired(n) ==
    /\ n \in graph.nodes /\ node[n].status = "idle"
    /\ \A t \in graph.required[n] : token[t].there
    /\ n \in triggered \/ \E t \in graph.required[n] : token[t].version > node[n].consumed[t]
Ready(n) ==
    /\ n \in graph.nodes /\ node[n].status = "idle"
    /\ \A t \in graph.required[n] : token[t].there
    /\ n \in triggered \/ \E t \in Inputs(n) : token[t].there /\ token[t].version > node[n].consumed[t]
ReadyNodes == {n \in GrNodes : Ready(n)}

------------------------------------------------------------------------------
(* Transitions that the kernel takes from its mutation queue.                  *)

Budgets == {1, AmpleBudget}
Run(then) == \E budget \in Budgets : run' = [on |-> TRUE, left |-> budget, awaits |-> 0, then |-> then]
Transition == ~run.on /\ grLeft > 0 /\ grLeft' = grLeft - 1

Publish ==
    /\ Transition /\ Run("none")
    /\ \E tokens \in SUBSET graph.inputs \ {{}} : \E values \in [tokens -> 0..1] :
          token' = PublishedTokens(values)
    /\ UNCHANGED <<graph, node, triggered, status, invoked, used, excused>>

(* start publishes the state first; a traversal that yields ends it there. *)
StartGraph ==
    /\ Transition /\ Run("startup")
    /\ \E values \in [graph.inputs \ {t \in graph.inputs : Mode(t) = "signal"} -> 0..1] :
          token' = PublishedTokens(values)
    /\ UNCHANGED <<graph, node, triggered, status, invoked, used, excused>>

EventNodes == {n \in graph.nodes : graph.trigger[n] = "event"}

Event ==
    /\ Transition /\ Run("none")
    /\ triggered' = triggered \cup EventNodes
    /\ UNCHANGED <<graph, token, node, status, invoked, used, excused>>

Resume ==
    /\ Transition /\ status = "yielded" /\ Run("none")
    /\ UNCHANGED <<graph, token, node, triggered, status, invoked, used, excused>>

(* settleInvocation: the node is idle again, with the outputs it was given; a
   failed invocation gives none. *)
CompleteInvocation(n) ==
    /\ Transition /\ n \in invoked /\ n \in graph.nodes /\ node[n].status = "suspended"
    /\ node' = [node EXCEPT ![n].status = "idle"]
    /\ \E outputs \in {{}} \cup {{t} : t \in graph.outputs[n]} : \E value \in 0..1 :
          token' = PublishedTokens([t \in outputs |-> value])
    /\ invoked' = invoked \ {n}
    /\ Run("none")
    /\ UNCHANGED <<graph, triggered, status, used, excused>>

(* The node was removed: the settlement throws, and its invocation is over. *)
CompleteRemoved(n) ==
    /\ Transition /\ n \in invoked /\ n \notin graph.nodes
    /\ invoked' = invoked \ {n}
    /\ UNCHANGED <<graph, token, node, triggered, run, status, used, excused>>

(* cancelInvocation closes the invocation; the node goes on waiting for it. *)
CancelInvoked(n) ==
    /\ Transition /\ n \in invoked
    /\ invoked' = invoked \ {n}
    /\ excused' = excused \cup {n}
    /\ UNCHANGED <<graph, token, node, triggered, run, status, used>>

(* completeAndPromoteSourceEffect: every node is made to have consumed the
   state as it is now, and one of them is activated. *)
HydrateAndActivate(n) ==
    /\ Transition /\ n \in graph.nodes
    /\ \E values \in [graph.inputs \ {t \in graph.inputs : Mode(t) = "signal"} -> 0..1] :
       LET tokens == PublishedTokens(values)
       IN /\ token' = tokens
          /\ node' = [m \in GrNodes |-> IF m \in graph.nodes
                        THEN [node[m] EXCEPT !.consumed = [t \in GrTokens |->
                                 IF t \in Inputs(m) THEN tokens[t].version ELSE @[t]]]
                        ELSE node[m]]
          /\ excused' = excused \cup {m \in graph.nodes \ {n} :
                             \E t \in Inputs(m) : tokens[t].version > node[m].consumed[t]}
    /\ triggered' = triggered \cup {n}
    /\ Run("none")
    /\ UNCHANGED <<graph, status, invoked, used>>

(* A program patch: a node leaves, comes or changes; tokens and the states of
   the nodes that stay are kept. *)
MutateGraph ==
    /\ Transition /\ Run("none")
    /\ \E n \in GrNodes :
          /\ graph' = [graph EXCEPT !.nodes = IF n \in @ THEN @ \ {n} ELSE @ \cup {n}]
          /\ node' = [node EXCEPT ![n] = [status |-> "idle", consumed |-> [t \in GrTokens |-> 0]]]
          /\ used' = [used EXCEPT ![n] = Unused]
          /\ excused' = excused \ {n}
    /\ UNCHANGED <<token, triggered, status, invoked>>

------------------------------------------------------------------------------
(* The traversal.                                                              *)

(* It starts the first ready node: what the node sees is consumed before it is
   evaluated. *)
Execute(n) ==
    /\ run.on /\ run.awaits = 0 /\ run.left > 0
    /\ n \in ReadyNodes /\ \A m \in ReadyNodes : n <= m
    /\ node' = [node EXCEPT ![n] = [Captured(n, @) EXCEPT !.status = "running"]]
    /\ run' = [run EXCEPT !.awaits = n]
    /\ used' = [used EXCEPT ![n] = InputsNow(n)]
    /\ excused' = excused \ {n}
    /\ UNCHANGED <<graph, token, triggered, status, invoked, grLeft>>

Sum(inputs) == MapThenSumSet(LAMBDA t : IF inputs[t] = NoValue THEN 0 ELSE inputs[t], GrTokens)
Computed(inputs) == Min({MaxValue, 1 + Sum(inputs)})

OutcomeAwaited(n) ==
    /\ run.on /\ run.awaits = n /\ node[n].status = "running"
    /\ triggered' = triggered \ {n}
    /\ LET invoke == graph.kind[n] = "invoke"
       IN /\ node' = [node EXCEPT ![n].status = IF invoke THEN "suspended" ELSE "idle"]
          /\ run' = [run EXCEPT !.awaits = IF invoke THEN n ELSE 0, !.left = @ - 1]
          /\ invoked' = IF invoke THEN invoked \cup {n} ELSE invoked
    /\ UNCHANGED <<graph, token, status, used, excused, grLeft>>

(* Its outcome: a computed value, a decision whose cases may all fail, actions
   whose events trigger nodes, itself perhaps, or nothing until an invocation
   completes it. *)
Outcome(n) ==
    /\ run.on /\ run.awaits = n
    /\ triggered' = (triggered \ {n}) \cup (IF graph.kind[n] = "actions" THEN EventNodes ELSE {})
    /\ run' = [run EXCEPT !.awaits = 0, !.left = @ - 1]
    /\ LET invoke == graph.kind[n] = "invoke"
           publishes == graph.kind[n] = "compute" \/ (graph.kind[n] = "decision" /\ Sum(used[n]) > 0)
       IN /\ node' = [node EXCEPT ![n].status = IF invoke THEN "suspended" ELSE "idle"]
          /\ invoked' = IF invoke THEN invoked \cup {n} ELSE invoked
          /\ token' = IF publishes
                      THEN PublishedTokens([t \in graph.outputs[n] |-> Computed(used[n])]) ELSE token
    /\ UNCHANGED <<graph, status, used, excused, grLeft>>

(* An evaluation that throws ends the transition, whatever else was ready; its
   node stays "running", and status() says what it said before. *)
OutcomeThrows(n) ==
    /\ run.on /\ run.awaits = n /\ grLeft > 0
    /\ grLeft' = grLeft - 1
    /\ run' = NoRun
    /\ excused' = excused \cup {n} \cup ReadyNodes
    /\ UNCHANGED <<graph, token, node, triggered, status, invoked, used>>

Yield ==
    /\ run.on /\ run.awaits = 0 /\ run.left = 0 /\ ReadyNodes # {}
    /\ run' = NoRun /\ status' = "yielded"
    /\ UNCHANGED <<graph, token, node, triggered, invoked, used, excused, grLeft>>

Rest ==
    /\ run.on /\ run.awaits = 0 /\ ReadyNodes = {}
    /\ token' = Cleared(token)
    /\ status' = IF \E n \in graph.nodes : node[n].status = "suspended" THEN "suspended" ELSE "quiescent"
    /\ IF run.then = "startup"
       THEN /\ run' = [run EXCEPT !.left = AmpleBudget, !.then = "none"]
            /\ triggered' = triggered \cup {n \in graph.nodes : graph.trigger[n] = "startup"}
       ELSE run' = NoRun /\ UNCHANGED triggered
    /\ UNCHANGED <<graph, node, invoked, used, excused, grLeft>>

Traverse == Yield \/ Rest \/ \E n \in GrNodes : Execute(n) \/ Outcome(n)

GrNext ==
    \/ Publish \/ StartGraph \/ Event \/ Resume \/ MutateGraph \/ Yield \/ Rest
    \/ \E n \in GrNodes :
          \/ CompleteInvocation(n) \/ CompleteRemoved(n) \/ CancelInvoked(n) \/ HydrateAndActivate(n)
          \/ Execute(n) \/ Outcome(n) \/ OutcomeThrows(n)

(* Evaluations return. *)
GrFairness == WF_grVars(Traverse)

GrSpec == GrInit /\ [][GrNext]_grVars /\ GrFairness

------------------------------------------------------------------------------
AtRest == ~run.on /\ status # "yielded"
Sees(n, t) == Mode(t) # "signal" /\ t \in Inputs(n) /\ token[t].there

(* At rest no change of a value is forgotten: a node that could be executed was
   executed with the newest value of every input that keeps its value. *)
ChangesAreSeen == AtRest => \A n \in graph.nodes \ excused :
    (/\ node[n].status = "idle" /\ \A t \in graph.required[n] : token[t].there
     /\ \E t \in GrTokens : Sees(n, t))
        => \A t \in GrTokens : Sees(n, t) => used[n][t] = token[t].value

(* A node waits for an invocation that will complete it. *)
SuspendedIsInvoked == \A n \in graph.nodes \ excused : node[n].status = "suspended" => n \in invoked

(* A trigger waits for its node's inputs, or for the node to be free. *)
TriggersWait == AtRest => \A n \in (triggered \cap graph.nodes) \ excused :
    node[n].status # "idle" \/ \E t \in graph.required[n] : ~token[t].there

(***************************************************************************)
(* When the graph is at rest no value and no trigger has been forgotten,   *)
(* and a node that waits waits for an invocation.                          *)
(***************************************************************************)
GraphSafe == ChangesAreSeen /\ SuspendedIsInvoked /\ TriggersWait
==============================================================================
