---------------------------- MODULE KernelPartsProofs ---------------------------
(***************************************************************************)
(* Proofs about the graph runtime (ContinuousGraph) and the broker and its *)
(* renderers (KernelTransport): a graph at rest has forgotten no value and *)
(* no trigger; a replica is the state of its revision, up to date and      *)
(* never taken back, for any keys, clients, graphs and numbers of steps.   *)
(***************************************************************************)
EXTENDS ContinuousGraph, KernelTransport, SequenceTheorems, WellFoundedInduction, TLAPS

(***************************************************************************)
(* A token that is there was published; versions are never undone.         *)
(***************************************************************************)
IsToken(k) == k = [there |-> k.there, version |-> k.version, value |-> k.value]
TokenHolds(k) ==
    /\ IsToken(k)
    /\ k.there \in BOOLEAN /\ k.version \in Nat
    /\ k.there => k.version > 0

GrTypes ==
    /\ graph \in GrGraphs
    /\ token = [t \in GrTokens |-> token[t]] /\ \A t \in GrTokens : TokenHolds(token[t])
    /\ node \in [GrNodes -> [status : {"idle", "running", "suspended"}, consumed : [GrTokens -> Nat]]]
    /\ run \in [on : BOOLEAN, left : Int, awaits : GrNodes \cup {0}, then : {"none", "startup"}]
    /\ used = [n \in GrNodes |-> used[n]]

ConsumedHolds == \A n \in GrNodes : \A t \in GrTokens : node[n].consumed[t] <= token[t].version

(* What a node has consumed in its newest version, it was executed with. *)
SeesNow(n) == \A t \in Inputs(n) :
    (Mode(t) # "signal" /\ token[t].there /\ node[n].consumed[t] = token[t].version) => used[n][t] = token[t].value

ValuesSeen == \A n \in graph.nodes \ excused : n \in triggered \/ SeesNow(n)

AwaitedHolds == run.awaits # 0 => /\ run.on /\ run.awaits \in graph.nodes /\ SeesNow(run.awaits)
                                  /\ node[run.awaits].status = "running"

NothingReady == AtRest => \A n \in graph.nodes \ excused : ~Ready(n)

GrInvariant == GrTypes /\ ConsumedHolds /\ ValuesSeen /\ AwaitedHolds /\ NothingReady /\ SuspendedIsInvoked

\* At the start no node has consumed anything, and nothing is promised to one.
LEMMA GrInitial == GrInit => GrInvariant
<1> SUFFICES ASSUME GrInit PROVE GrInvariant
  OBVIOUS
<1>1. PICK scenario \in GrScenarios : graph = scenario.graph /\ grLeft = scenario.transitions
  BY DEF GrInit
<1>2. graph \in GrGraphs
  BY <1>1, GrAssumption
<1>3. \A t \in GrTokens : token[t] = [there |-> FALSE, value |-> NoValue, version |-> 0]
  BY DEF GrInit
<1>4. GrTypes
  <2>1. ASSUME NEW t \in GrTokens PROVE TokenHolds(token[t])
    <3>1. PICK k : k = token[t]
      OBVIOUS
    <3>2. k = [there |-> FALSE, value |-> NoValue, version |-> 0]
      BY <1>3, <3>1
    <3>3. TokenHolds(k)
      BY <3>2 DEF TokenHolds, IsToken
    <3> QED
      BY <3>1, <3>3
  <2>2. token = [t \in GrTokens |-> token[t]] /\ used = [n \in GrNodes |-> used[n]]
    BY DEF GrInit
  <2>3. node \in [GrNodes -> [status : {"idle", "running", "suspended"}, consumed : [GrTokens -> Nat]]]
    BY DEF GrInit
  <2>4. run \in [on : BOOLEAN, left : Int, awaits : GrNodes \cup {0}, then : {"none", "startup"}]
    BY DEF GrInit, NoRun
  <2> QED
    BY <1>2, <2>1, <2>2, <2>3, <2>4 DEF GrTypes
<1>5. ConsumedHolds /\ AwaitedHolds /\ SuspendedIsInvoked
  BY <1>2, <1>3 DEF GrInit, ConsumedHolds, AwaitedHolds, SuspendedIsInvoked, NoRun, GrGraphs
<1>6. \A n \in GrNodes : SeesNow(n) /\ ~Ready(n)
  BY <1>2, <1>3 DEF GrInit, SeesNow, Ready, Inputs, GrGraphs
<1>7. ValuesSeen /\ NothingReady
  BY <1>2, <1>6 DEF ValuesSeen, NothingReady, GrGraphs
<1> QED
  BY <1>4, <1>5, <1>7 DEF GrInvariant

\* The tokens a node takes in are tokens of the graph.
LEMMA InputsTyped == ASSUME GrTypes, NEW n \in GrNodes PROVE Inputs(n) \subseteq GrTokens
BY DEF GrTypes, GrGraphs, Inputs

\* Publishing a token keeps it a token, never lowers its version, and changes it only with a new version.
LEMMA PublishedIs ==
  ASSUME GrTypes, NEW values, NEW t \in GrTokens
  PROVE  LET after == PublishedTokens(values)[t]
         IN  /\ TokenHolds(after) /\ after.version >= token[t].version
             /\ after.version = token[t].version => after = token[t]
             /\ token[t].there => after.there
<1> DEFINE after == PublishedToken(t, values[t], token[t])
<1>1. TokenHolds(token[t])
  BY DEF GrTypes
<1>2. CASE t \in DOMAIN values /\ ~(Mode(t) = "value" /\ token[t].there /\ token[t].value = values[t])
  <2>1. PICK value : after = [there |-> TRUE, version |-> token[t].version + 1, value |-> value]
    BY <1>2 DEF PublishedToken
  <2>2. PublishedTokens(values)[t] = after
    BY <1>2 DEF PublishedTokens
  <2> QED
    BY <1>1, <2>1, <2>2 DEF TokenHolds, IsToken
<1>3. CASE ~(t \in DOMAIN values /\ ~(Mode(t) = "value" /\ token[t].there /\ token[t].value = values[t]))
  <2>1. PublishedTokens(values)[t] = token[t]
    BY <1>3 DEF PublishedTokens, PublishedToken
  <2> QED
    BY <1>1, <2>1 DEF TokenHolds
<1> QED
  BY <1>2, <1>3

(* A step that publishes, and changes no node's versions. *)
LEMMA PublishKeeps ==
  ASSUME GrTypes, ConsumedHolds, NEW values, token' = PublishedTokens(values)
  PROVE  /\ token' = [t \in GrTokens |-> token'[t]] /\ \A t \in GrTokens : TokenHolds(token'[t])
         /\ \A t \in GrTokens : /\ token'[t].version >= token[t].version
                                /\ token'[t].version = token[t].version => token'[t] = token[t]
<1>1. token' = [t \in GrTokens |-> token'[t]]
  BY DEF PublishedTokens
<1> QED
  BY <1>1, PublishedIs

\* What a node sees and used is still so when only the tokens it did not see get new versions.
LEMMA SightKeeps ==
  ASSUME GrTypes, ConsumedHolds, NEW n \in GrNodes, SeesNow(n), graph'.required = graph.required,
         graph'.optional = graph.optional, graph'.mode = graph.mode, used'[n] = used[n],
         node'[n].consumed = node[n].consumed,
         \A t \in GrTokens : /\ token'[t].version >= token[t].version
                             /\ token'[t].version = token[t].version /\ token'[t].there => token'[t] = token[t]
  PROVE  SeesNow(n)'
<1> SUFFICES ASSUME NEW t \in Inputs(n)', Mode(t)' # "signal", token'[t].there, node'[n].consumed[t] = token'[t].version
             PROVE  used'[n][t] = token'[t].value
  BY DEF SeesNow
<1>1. t \in Inputs(n) /\ t \in GrTokens
  BY InputsTyped DEF Inputs
<1>2. node[n].consumed[t] \in Nat /\ token[t].version \in Nat /\ token'[t].version >= token[t].version
      /\ node[n].consumed[t] <= token[t].version
  BY <1>1 DEF GrTypes, ConsumedHolds, TokenHolds
<1>3. token'[t] = token[t]
  BY <1>1, <1>2
<1> QED
  BY <1>1, <1>3 DEF SeesNow, Mode

\* Every step of the traversal keeps the invariant.
LEMMA GrKept == GrInvariant /\ [GrNext]_grVars => GrInvariant'
<1> SUFFICES ASSUME GrInvariant, [GrNext]_grVars PROVE GrInvariant'
  OBVIOUS
<1>a. /\ GrTypes /\ ConsumedHolds /\ ValuesSeen /\ AwaitedHolds /\ NothingReady /\ SuspendedIsInvoked
      /\ graph.nodes \subseteq GrNodes
  BY DEF GrInvariant, GrTypes, GrGraphs
<1>b. 0 \notin GrNodes
  BY GrAssumption
<1> DEFINE Kept == graph' = graph /\ used' = used
           RunTyped == run' \in [on : BOOLEAN, left : Int, awaits : GrNodes \cup {0}, then : {"none", "startup"}]
<1>c. ASSUME NEW then \in {"none", "startup"}, Run(then)
      PROVE  RunTyped /\ run'.on /\ run'.awaits = 0
  BY <1>c, GrAssumption DEF Run, Budgets
<1>d. ASSUME Kept, NEW values, token' = PublishedTokens(values), RunTyped, run'.awaits = 0, run'.on,
             node' \in [GrNodes -> [status : {"idle", "running", "suspended"}, consumed : [GrTokens -> Nat]]],
             \A n \in GrNodes : node'[n].consumed = node[n].consumed,
             \A n \in graph.nodes \ excused' : n \notin excused /\ (n \in triggered => n \in triggered' \/ SeesNow(n)),
             SuspendedIsInvoked'
      PROVE  GrInvariant'
  <2>1. GrTypes'
    BY <1>a, <1>d, PublishKeeps DEF GrTypes
  <2>2. \A n \in GrNodes : SeesNow(n) => SeesNow(n)'
    BY <1>a, <1>d, PublishKeeps, SightKeeps
  <2>3. ConsumedHolds'
    <3> SUFFICES ASSUME NEW n \in GrNodes, NEW t \in GrTokens PROVE node'[n].consumed[t] <= token'[t].version
      BY DEF ConsumedHolds
    <3>1. node[n].consumed[t] \in Nat /\ token[t].version \in Nat /\ token'[t].version \in Nat
          /\ node[n].consumed[t] <= token[t].version /\ token'[t].version >= token[t].version
          /\ node'[n].consumed = node[n].consumed
      BY <1>a, <1>d, PublishKeeps DEF GrTypes, ConsumedHolds, TokenHolds
    <3> QED
      BY <3>1
  <2>4. ValuesSeen'
    <3> SUFFICES ASSUME NEW n \in graph.nodes \ excused' PROVE n \in triggered' \/ SeesNow(n)'
      BY <1>d DEF ValuesSeen
    <3> QED
      BY <1>a, <1>d, <2>2 DEF ValuesSeen
  <2>5. AwaitedHolds' /\ NothingReady'
    BY <1>d DEF AwaitedHolds, NothingReady, AtRest
  <2> QED
    BY <1>d, <2>1, <2>3, <2>4, <2>5 DEF GrInvariant
<1>e. PublishedTokens([t \in {} |-> 0]) = token
  BY <1>a DEF PublishedTokens, GrTypes
<1>1. CASE Publish \/ StartGraph
  <2>1. /\ Run("none") \/ Run("startup")
        /\ \E values : token' = PublishedTokens(values)
        /\ UNCHANGED <<graph, node, triggered, status, invoked, used, excused>>
    BY <1>1 DEF Publish, StartGraph
  <2>2. PICK values : token' = PublishedTokens(values)
    BY <2>1
  <2>3. SuspendedIsInvoked'
    BY <1>a, <2>1 DEF SuspendedIsInvoked
  <2> QED
    BY <1>a, <1>c, <1>d, <2>1, <2>2, <2>3 DEF GrTypes
<1>2. CASE Event \/ Resume
  <2>1. /\ Run("none") /\ UNCHANGED <<graph, token, node, invoked, used, excused>> /\ triggered \subseteq triggered'
    BY <1>2 DEF Event, Resume
  <2>2. SuspendedIsInvoked'
    BY <1>a, <2>1 DEF SuspendedIsInvoked
  <2>3. token' = PublishedTokens([t \in {} |-> 0])
    BY <1>e, <2>1
  <2> QED
    BY <1>a, <1>c, <1>d, <2>1, <2>2, <2>3 DEF GrTypes
<1>3. ASSUME NEW n \in GrNodes, CompleteInvocation(n) PROVE GrInvariant'
  <2>1. /\ Run("none") /\ \E values : token' = PublishedTokens(values)
        /\ UNCHANGED <<graph, triggered, status, used, excused>>
        /\ node' = [node EXCEPT ![n].status = "idle"] /\ invoked' = invoked \ {n}
    BY <1>3 DEF CompleteInvocation
  <2>2. PICK values : token' = PublishedTokens(values)
    BY <2>1
  <2>3. /\ node' \in [GrNodes -> [status : {"idle", "running", "suspended"}, consumed : [GrTokens -> Nat]]]
        /\ \A m \in GrNodes : /\ node'[m].consumed = node[m].consumed
                              /\ node'[m].status = IF m = n THEN "idle" ELSE node[m].status
    BY <1>a, <2>1 DEF GrTypes
  <2>4. SuspendedIsInvoked'
    BY <1>a, <2>1, <2>3 DEF SuspendedIsInvoked
  <2> QED
    BY <1>a, <1>c, <1>d, <2>1, <2>2, <2>3, <2>4
<1>4. ASSUME NEW n \in GrNodes, CompleteRemoved(n) \/ CancelInvoked(n) PROVE GrInvariant'
  <2>1. /\ UNCHANGED <<graph, token, node, triggered, run, status, used>>
        /\ excused \subseteq excused' /\ \A m \in graph.nodes \ excused' : m \in invoked => m \in invoked'
    BY <1>4 DEF CompleteRemoved, CancelInvoked
  <2>2. \A m : (SeesNow(m)' <=> SeesNow(m)) /\ (Ready(m)' <=> Ready(m))
    BY <2>1 DEF SeesNow, Ready, Inputs, Mode
  <2> QED
    BY <1>a, <2>1, <2>2 DEF GrInvariant, GrTypes, ConsumedHolds, ValuesSeen, AwaitedHolds, NothingReady, AtRest, SuspendedIsInvoked
<1>5. ASSUME NEW n \in GrNodes, HydrateAndActivate(n) PROVE GrInvariant'
  <2>1. PICK values : LET tokens == PublishedTokens(values)
          IN /\ token' = tokens
             /\ node' = [m \in GrNodes |-> IF m \in graph.nodes
                        THEN [node[m] EXCEPT !.consumed = [t \in GrTokens |->
                                 IF t \in Inputs(m) THEN tokens[t].version ELSE @[t]]]
                        ELSE node[m]]
             /\ excused' = excused \cup {m \in graph.nodes \ {n} :
                             \E t \in Inputs(m) : tokens[t].version > node[m].consumed[t]}
    BY <1>5 DEF HydrateAndActivate
  <2>2. /\ Run("none") /\ triggered' = triggered \cup {n} /\ UNCHANGED <<graph, status, invoked, used>>
    BY <1>5 DEF HydrateAndActivate
  <2>3. /\ token' = [t \in GrTokens |-> token'[t]] /\ \A t \in GrTokens : TokenHolds(token'[t])
        /\ \A t \in GrTokens : /\ token'[t].version >= token[t].version /\ token'[t].version \in Nat /\ token[t].version \in Nat
                               /\ token'[t].version = token[t].version => token'[t] = token[t]
    BY <1>a, <2>1, PublishKeeps DEF TokenHolds, GrTypes
  <2> DEFINE Newest(m) == [t \in GrTokens |-> IF t \in Inputs(m) THEN token'[t].version ELSE node[m].consumed[t]]
  <2>b. \A m \in GrNodes : /\ node[m] \in [status : {"idle", "running", "suspended"}, consumed : [GrTokens -> Nat]]
                           /\ Newest(m) \in [GrTokens -> Nat]
                           /\ \A t \in GrTokens : Newest(m)[t] = IF t \in Inputs(m) THEN token'[t].version ELSE node[m].consumed[t]
    BY <1>a, <2>3 DEF GrTypes
  <2>c. node' = [m \in GrNodes |-> IF m \in graph.nodes THEN [node[m] EXCEPT !.consumed = Newest(m)] ELSE node[m]]
    BY <2>1
  <2> HIDE DEF Newest
  <2>4. /\ node' \in [GrNodes -> [status : {"idle", "running", "suspended"}, consumed : [GrTokens -> Nat]]]
        /\ \A m \in GrNodes : /\ node'[m].status = node[m].status
                              /\ m \notin graph.nodes => node'[m].consumed = node[m].consumed
                              /\ m \in graph.nodes => \A t \in GrTokens :
                                   node'[m].consumed[t] = IF t \in Inputs(m) THEN token'[t].version ELSE node[m].consumed[t]
    BY <2>b, <2>c
  <2>5. GrTypes' /\ RunTyped /\ run'.on /\ run'.awaits = 0
    BY <1>a, <1>c, <2>2, <2>3, <2>4 DEF GrTypes
  <2>6. ConsumedHolds'
    <3> SUFFICES ASSUME NEW m \in GrNodes, NEW t \in GrTokens PROVE node'[m].consumed[t] <= token'[t].version
      BY DEF ConsumedHolds
    <3>1. node[m].consumed[t] \in Nat /\ node[m].consumed[t] <= token[t].version
      BY <1>a DEF GrTypes, ConsumedHolds
    <3>2. token'[t].version \in Nat /\ token[t].version \in Nat /\ token[t].version <= token'[t].version
      BY <2>3
    <3>3. node'[m].consumed[t] \in {node[m].consumed[t], token'[t].version}
      BY <2>4
    <3> QED
      BY <3>1, <3>2, <3>3
  <2>7. ValuesSeen'
    <3> SUFFICES ASSUME NEW m \in graph.nodes \ excused', m \notin triggered' PROVE SeesNow(m)'
      BY <2>2 DEF ValuesSeen
    <3>1. m \in GrNodes /\ m # n /\ m \notin excused /\ m \notin triggered /\ SeesNow(m)
          /\ \A t \in Inputs(m) : ~(token'[t].version > node[m].consumed[t])
      BY <1>a, <2>1, <2>2 DEF ValuesSeen
    <3> SUFFICES ASSUME NEW t \in Inputs(m), Mode(t) # "signal", token'[t].there
                 PROVE  used[m][t] = token'[t].value
      BY <2>2 DEF SeesNow, Inputs, Mode
    <3>2. t \in GrTokens /\ node[m].consumed[t] \in Nat /\ node[m].consumed[t] <= token[t].version
      BY <1>a, <3>1, InputsTyped DEF GrTypes, ConsumedHolds
    <3>3. token'[t].version = token[t].version /\ node[m].consumed[t] = token[t].version
      BY <2>3, <3>1, <3>2
    <3> QED
      BY <2>3, <3>1, <3>2, <3>3 DEF SeesNow
  <2>8. SuspendedIsInvoked'
    BY <1>a, <2>1, <2>2, <2>4 DEF SuspendedIsInvoked
  <2> QED
    BY <2>5, <2>6, <2>7, <2>8 DEF GrInvariant, AwaitedHolds, NothingReady, AtRest
<1>6. CASE MutateGraph
  <2>1. PICK n \in GrNodes :
          /\ graph' = [graph EXCEPT !.nodes = IF n \in @ THEN @ \ {n} ELSE @ \cup {n}]
          /\ node' = [node EXCEPT ![n] = [status |-> "idle", consumed |-> [t \in GrTokens |-> 0]]]
          /\ used' = [used EXCEPT ![n] = Unused]
          /\ excused' = excused \ {n}
    BY <1>6 DEF MutateGraph
  <2>2. Run("none") /\ UNCHANGED <<token, triggered, status, invoked>>
    BY <1>6 DEF MutateGraph
  <2>3. /\ graph' \in GrGraphs /\ graph'.required = graph.required /\ graph'.optional = graph.optional /\ graph'.mode = graph.mode
        /\ graph'.nodes \subseteq graph.nodes \cup {n} /\ graph'.nodes \subseteq GrNodes
    BY <1>a, <2>1, ZenonT(30) DEF GrTypes, GrGraphs
  <2>4. /\ node' \in [GrNodes -> [status : {"idle", "running", "suspended"}, consumed : [GrTokens -> Nat]]]
        /\ \A m \in GrNodes \ {n} : node'[m] = node[m] /\ used'[m] = used[m]
        /\ node'[n].status = "idle" /\ \A t \in GrTokens : node'[n].consumed[t] = 0
        /\ used' = [m \in GrNodes |-> used'[m]]
    BY <1>a, <2>1 DEF GrTypes
  <2>5. GrTypes' /\ RunTyped /\ run'.on /\ run'.awaits = 0
    BY <1>a, <1>c, <2>2, <2>3, <2>4 DEF GrTypes
  <2>6. ConsumedHolds'
    <3> SUFFICES ASSUME NEW m \in GrNodes, NEW t \in GrTokens PROVE node'[m].consumed[t] <= token[t].version
      BY <2>2 DEF ConsumedHolds
    <3>1. node[m].consumed[t] <= token[t].version /\ token[t].version \in Nat
      BY <1>a DEF GrTypes, ConsumedHolds, TokenHolds
    <3> QED
      BY <2>4, <3>1
  <2>7. ValuesSeen'
    <3> SUFFICES ASSUME NEW m \in graph'.nodes \ excused', m \notin triggered PROVE SeesNow(m)'
      BY <2>2 DEF ValuesSeen
    <3>1. CASE m = n
      <4> SUFFICES ASSUME NEW t \in Inputs(n)', token[t].there, node'[n].consumed[t] = token[t].version
                   PROVE  FALSE
        BY <2>2, <3>1 DEF SeesNow
      <4>1. t \in GrTokens
        BY <1>a, <2>3, InputsTyped DEF Inputs
      <4> QED
        BY <1>a, <2>4, <4>1 DEF GrTypes, TokenHolds
    <3>2. CASE m # n
      <4>1. m \in GrNodes /\ SeesNow(m)
        BY <1>a, <2>1, <2>3, <3>2 DEF ValuesSeen
      <4>2. \A t \in GrTokens : token'[t] = token[t] /\ token[t].version \in Nat
        BY <1>a, <2>2 DEF GrTypes, TokenHolds
      <4>3. used'[m] = used[m] /\ node'[m].consumed = node[m].consumed
        BY <2>4, <3>2, <4>1
      <4> QED
        BY <1>a, <2>3, <4>1, <4>2, <4>3, SightKeeps
    <3> QED
      BY <3>1, <3>2
  <2>8. SuspendedIsInvoked'
    BY <1>a, <2>1, <2>2, <2>3, <2>4 DEF SuspendedIsInvoked
  <2> QED
    BY <2>5, <2>6, <2>7, <2>8 DEF GrInvariant, AwaitedHolds, NothingReady, AtRest
<1>7. ASSUME NEW n \in GrNodes, Execute(n) PROVE GrInvariant'
  <2>1. /\ run.on /\ run.awaits = 0 /\ Ready(n)
        /\ node' = [node EXCEPT ![n] = [Captured(n, @) EXCEPT !.status = "running"]]
        /\ run' = [run EXCEPT !.awaits = n]
        /\ used' = [used EXCEPT ![n] = InputsNow(n)]
        /\ excused' = excused \ {n}
        /\ UNCHANGED <<graph, token, triggered, status, invoked, grLeft>>
    BY <1>7 DEF Execute, ReadyNodes
  <2>2. /\ node' \in [GrNodes -> [status : {"idle", "running", "suspended"}, consumed : [GrTokens -> Nat]]]
        /\ \A m \in GrNodes \ {n} : node'[m] = node[m] /\ used'[m] = used[m]
        /\ node'[n].status = "running"
        /\ \A t \in GrTokens : node'[n].consumed[t] = IF t \in Inputs(n) THEN token[t].version ELSE node[n].consumed[t]
        /\ used' = [m \in GrNodes |-> used'[m]] /\ used'[n] = InputsNow(n)
    <3> DEFINE newest == [t \in GrTokens |-> IF t \in Inputs(n) THEN token[t].version ELSE node[n].consumed[t]]
    <3>1. node[n] \in [status : {"idle", "running", "suspended"}, consumed : [GrTokens -> Nat]]
      BY <1>a DEF GrTypes
    <3>2. /\ newest \in [GrTokens -> Nat]
          /\ \A t \in GrTokens : newest[t] = IF t \in Inputs(n) THEN token[t].version ELSE node[n].consumed[t]
      BY <1>a, <3>1 DEF GrTypes, TokenHolds
    <3>3. node' = [node EXCEPT ![n] = [[node[n] EXCEPT !.consumed = newest] EXCEPT !.status = "running"]]
      BY <1>a, <2>1 DEF Captured, GrTypes
    <3> HIDE DEF newest
    <3>4. PICK after : after = [[node[n] EXCEPT !.consumed = newest] EXCEPT !.status = "running"]
      OBVIOUS
    <3>5. /\ after \in [status : {"idle", "running", "suspended"}, consumed : [GrTokens -> Nat]]
          /\ after.status = "running" /\ after.consumed = newest
      BY <3>1, <3>2, <3>4
    <3>6. /\ node' \in [GrNodes -> [status : {"idle", "running", "suspended"}, consumed : [GrTokens -> Nat]]]
          /\ node'[n] = after /\ \A m \in GrNodes \ {n} : node'[m] = node[m]
      BY <1>a, <3>3, <3>4, <3>5 DEF GrTypes
    <3>7. /\ \A m \in GrNodes \ {n} : used'[m] = used[m]
          /\ used' = [m \in GrNodes |-> used'[m]] /\ used'[n] = InputsNow(n)
      BY <1>a, <2>1 DEF GrTypes
    <3> QED
      BY <3>2, <3>5, <3>6, <3>7
  <2>3. GrTypes' /\ run'.on /\ run'.awaits = n /\ n \in graph.nodes
    BY <1>a, <2>1, <2>2 DEF GrTypes, Ready
  <2>4. ConsumedHolds'
    BY <1>a, <2>1, <2>2 DEF ConsumedHolds, GrTypes, TokenHolds
  <2>5. SeesNow(n)'
    BY <1>a, <2>1, <2>2, InputsTyped DEF SeesNow, Inputs, Mode, InputsNow
  <2>6. \A m \in GrNodes \ {n} : SeesNow(m) => SeesNow(m)'
    BY <2>1, <2>2 DEF SeesNow, Inputs, Mode
  <2>7. ValuesSeen' /\ AwaitedHolds' /\ NothingReady' /\ SuspendedIsInvoked'
    BY <1>a, <1>b, <2>1, <2>2, <2>3, <2>5, <2>6 DEF ValuesSeen, AwaitedHolds, NothingReady, AtRest, SuspendedIsInvoked
  <2> QED
    BY <2>3, <2>4, <2>7 DEF GrInvariant
<1>8. ASSUME NEW n \in GrNodes, Outcome(n) PROVE GrInvariant'
  <2>1. /\ run.awaits = n /\ run.on /\ UNCHANGED <<graph, status, used, excused, grLeft>>
        /\ triggered \ {n} \subseteq triggered' /\ run' = [run EXCEPT !.awaits = 0, !.left = @ - 1]
        /\ \E values : token' = PublishedTokens(values) \/ token' = token
        /\ \E invoke \in BOOLEAN : /\ node' = [node EXCEPT ![n].status = IF invoke THEN "suspended" ELSE "idle"]
                                   /\ invoked' = IF invoke THEN invoked \cup {n} ELSE invoked
    BY <1>8 DEF Outcome
  <2>2. PICK values : token' = PublishedTokens(values)
    BY <1>e, <2>1
  <2>3. /\ node' \in [GrNodes -> [status : {"idle", "running", "suspended"}, consumed : [GrTokens -> Nat]]]
        /\ \A m \in GrNodes : /\ node'[m].consumed = node[m].consumed
                              /\ m # n => node'[m] = node[m]
        /\ node'[n].status = "suspended" => n \in invoked'
        /\ invoked \subseteq invoked'
    BY <1>a, <2>1 DEF GrTypes
  <2>4. RunTyped /\ run'.on /\ run'.awaits = 0
    <3>1. PICK fewer \in Int : fewer = run.left - 1
      BY <1>a DEF GrTypes
    <3>2. run' = [run EXCEPT !.awaits = 0, !.left = fewer]
      BY <2>1, <3>1
    <3>3. run \in [on : BOOLEAN, left : Int, awaits : GrNodes \cup {0}, then : {"none", "startup"}]
      BY <1>a DEF GrTypes
    <3> QED
      BY <2>1, <3>2, <3>3
  <2>5. SuspendedIsInvoked'
    BY <1>a, <2>1, <2>3 DEF SuspendedIsInvoked
  <2>6. SeesNow(n)
    BY <1>a, <1>b, <2>1 DEF AwaitedHolds
  <2> QED
    BY <1>a, <1>d, <2>1, <2>2, <2>3, <2>4, <2>5, <2>6
<1>9. ASSUME NEW n \in GrNodes, OutcomeThrows(n) PROVE GrInvariant'
  <2>1. /\ run' = NoRun /\ excused' = excused \cup {n} \cup ReadyNodes
        /\ UNCHANGED <<graph, token, node, triggered, status, invoked, used>>
    BY <1>9 DEF OutcomeThrows
  <2>2. \A m : (SeesNow(m)' <=> SeesNow(m)) /\ (Ready(m)' <=> Ready(m))
    BY <2>1 DEF SeesNow, Ready, Inputs, Mode
  <2>3. GrTypes' /\ ConsumedHolds' /\ AwaitedHolds'
    BY <1>a, <2>1 DEF GrTypes, ConsumedHolds, AwaitedHolds, NoRun
  <2>4. ValuesSeen' /\ NothingReady' /\ SuspendedIsInvoked'
    BY <1>a, <2>1, <2>2 DEF ValuesSeen, NothingReady, AtRest, SuspendedIsInvoked, ReadyNodes
  <2> QED
    BY <2>3, <2>4 DEF GrInvariant
<1>10. CASE Yield
  <2>1. /\ run' = NoRun /\ status' = "yielded" /\ UNCHANGED <<graph, token, node, triggered, invoked, used, excused, grLeft>>
    BY <1>10 DEF Yield
  <2>2. \A m : SeesNow(m)' <=> SeesNow(m)
    BY <2>1 DEF SeesNow, Inputs, Mode
  <2> QED
    BY <1>a, <2>1, <2>2 DEF GrInvariant, GrTypes, ConsumedHolds, ValuesSeen, AwaitedHolds, NothingReady, AtRest,
                            SuspendedIsInvoked, NoRun
<1>11. CASE Rest
  <2>1. /\ ReadyNodes = {} /\ token' = Cleared(token) /\ run.awaits = 0
        /\ UNCHANGED <<graph, node, invoked, used, excused, grLeft>> /\ triggered \subseteq triggered'
        /\ run'.awaits = 0
        /\ \/ run' = NoRun /\ triggered' = triggered
           \/ run' = [run EXCEPT !.left = AmpleBudget, !.then = "none"] /\ run.on
    <3>1. /\ ReadyNodes = {} /\ token' = Cleared(token) /\ run.awaits = 0 /\ run.on
          /\ UNCHANGED <<graph, node, invoked, used, excused, grLeft>>
          /\ \/ run' = NoRun /\ triggered' = triggered
             \/ /\ run' = [run EXCEPT !.left = AmpleBudget, !.then = "none"]
                /\ triggered' = triggered \cup {n \in graph.nodes : graph.trigger[n] = "startup"}
      BY <1>11 DEF Rest
    <3>2. run \in [on : BOOLEAN, left : Int, awaits : GrNodes \cup {0}, then : {"none", "startup"}]
      BY <1>a DEF GrTypes
    <3>3. CASE run' = NoRun
      BY <3>1, <3>3 DEF NoRun
    <3>4. CASE run' = [run EXCEPT !.left = AmpleBudget, !.then = "none"]
      BY <3>1, <3>2, <3>4
    <3> QED
      BY <3>1, <3>3, <3>4
  <2>2. /\ token' = [t \in GrTokens |-> token'[t]]
        /\ \A t \in GrTokens : /\ TokenHolds(token'[t]) /\ token'[t].version = token[t].version
                               /\ token'[t].there => token'[t] = token[t]
    <3>1. \A t \in GrTokens : TokenHolds(token[t])
      BY <1>a DEF GrTypes
    <3>2. token' = [t \in GrTokens |-> token'[t]]
      BY <2>1 DEF Cleared
    <3>3. ASSUME NEW t \in GrTokens
          PROVE  /\ TokenHolds(token'[t]) /\ token'[t].version = token[t].version
                 /\ token'[t].there => token'[t] = token[t]
      <4>1. token'[t] = token[t] \/ token'[t] = [token[t] EXCEPT !.there = FALSE]
        BY <2>1 DEF Cleared
      <4> DEFINE k == token[t]
      <4>2. k = [there |-> k.there, version |-> k.version, value |-> k.value] /\ k.version \in Nat
        BY <3>1 DEF TokenHolds, IsToken
      <4> HIDE DEF k
      <4>3. [k EXCEPT !.there = FALSE] = [there |-> FALSE, version |-> k.version, value |-> k.value]
        <5>1. PICK a, v, u : a = k.there /\ v = k.version /\ u = k.value
          OBVIOUS
        <5>2. k = [there |-> a, version |-> v, value |-> u]
          BY <4>2, <5>1
        <5>a. PICK no : no = FALSE
          OBVIOUS
        <5>b. [[there |-> a, version |-> v, value |-> u] EXCEPT !.there = no] = [there |-> no, version |-> v, value |-> u]
          OBVIOUS
        <5>3. [[there |-> a, version |-> v, value |-> u] EXCEPT !.there = FALSE] = [there |-> FALSE, version |-> v, value |-> u]
          BY <5>a, <5>b
        <5> QED
          BY <5>1, <5>2, <5>3
      <4>4. CASE token'[t] = token[t]
        BY <3>1, <4>4
      <4>5. CASE token'[t] = [token[t] EXCEPT !.there = FALSE]
        <5>1. token'[t] = [there |-> FALSE, version |-> k.version, value |-> k.value]
          BY <4>3, <4>5 DEF k
        <5>2. TokenHolds(token'[t]) /\ token'[t].version = k.version /\ ~token'[t].there
          BY <4>2, <5>1 DEF TokenHolds, IsToken
        <5> QED
          BY <5>2 DEF k
      <4> QED
        BY <4>1, <4>4, <4>5
    <3> QED
      BY <3>2, <3>3
  <2>3. GrTypes'
    <3>1. run' \in [on : BOOLEAN, left : Int, awaits : GrNodes \cup {0}, then : {"none", "startup"}]
      <4>1. run \in [on : BOOLEAN, left : Int, awaits : GrNodes \cup {0}, then : {"none", "startup"}]
        BY <1>a DEF GrTypes
      <4>2. AmpleBudget \in Int
        BY GrAssumption
      <4>3. CASE run' = NoRun
        BY <4>3 DEF NoRun
      <4>4. CASE run' = [run EXCEPT !.left = AmpleBudget, !.then = "none"]
        BY <4>1, <4>2, <4>4
      <4> QED
        BY <2>1, <4>3, <4>4
    <3> QED
      BY <1>a, <2>1, <2>2, <3>1 DEF GrTypes
  <2>4. ASSUME NEW n \in GrNodes, SeesNow(n) PROVE SeesNow(n)'
    <3>1. \A t \in GrTokens : /\ token'[t].version >= token[t].version
                              /\ token'[t].version = token[t].version /\ token'[t].there => token'[t] = token[t]
      BY <1>a, <2>2 DEF GrTypes, TokenHolds
    <3> QED
      BY <1>a, <2>1, <2>4, <3>1, SightKeeps
  <2>5. ConsumedHolds' /\ SuspendedIsInvoked' /\ AwaitedHolds'
    BY <1>a, <2>1, <2>2 DEF ConsumedHolds, SuspendedIsInvoked, AwaitedHolds
  <2>6. ValuesSeen'
    BY <1>a, <2>1, <2>4 DEF ValuesSeen
  <2>7. NothingReady'
    <3>a. CASE run' # NoRun
      <4>1. run'.on
        BY <1>a, <2>1, <3>a DEF GrTypes
      <4> QED
        BY <4>1 DEF NothingReady, AtRest
    <3> SUFFICES ASSUME run' = NoRun, NEW n \in graph.nodes \ excused, Ready(n)' PROVE FALSE
      BY <2>1, <3>a DEF NothingReady
    <3>b. triggered' = triggered
      BY <1>a, <2>1 DEF GrTypes, NoRun
    <3>1. \A t \in GrTokens : token'[t].there => token[t].there
      BY <2>2
    <3>2. Inputs(n) \subseteq GrTokens /\ graph.required[n] \subseteq GrTokens
      BY <1>a, InputsTyped DEF Inputs
    <3>3. Ready(n)
      BY <2>1, <2>2, <3>b, <3>1, <3>2 DEF Ready, Inputs
    <3> QED
      BY <1>a, <2>1, <3>3 DEF ReadyNodes
  <2> QED
    BY <2>3, <2>5, <2>6, <2>7 DEF GrInvariant
<1>12. CASE UNCHANGED grVars
  <2>1. UNCHANGED <<graph, token, node, triggered, run, status, invoked, used, excused>>
    BY <1>12 DEF grVars
  <2>2. \A m : (SeesNow(m)' <=> SeesNow(m)) /\ (Ready(m)' <=> Ready(m))
    BY <2>1 DEF SeesNow, Ready, Inputs, Mode
  <2> QED
    BY <1>a, <2>1, <2>2 DEF GrInvariant, GrTypes, ConsumedHolds, ValuesSeen, AwaitedHolds, NothingReady, AtRest, SuspendedIsInvoked
<1> QED
  BY <1>1, <1>2, <1>3, <1>4, <1>5, <1>6, <1>7, <1>8, <1>9, <1>10, <1>11, <1>12 DEF GrNext

\* A graph at rest has forgotten no value and no trigger, and who waits waits for an invocation.
THEOREM GraphStaysSafe == GrSpec => []GraphSafe
<1>1. GrInvariant => GraphSafe
  <2> SUFFICES ASSUME GrInvariant PROVE GraphSafe
    OBVIOUS
  <2>1. /\ GrTypes /\ ConsumedHolds /\ ValuesSeen /\ NothingReady /\ SuspendedIsInvoked
        /\ graph.nodes \subseteq GrNodes
    BY DEF GrInvariant, GrTypes, GrGraphs
  <2>2. ChangesAreSeen
    <3> SUFFICES ASSUME AtRest, NEW n \in graph.nodes \ excused,
                        node[n].status = "idle", \A t \in graph.required[n] : token[t].there,
                        NEW t \in GrTokens, Sees(n, t)
                 PROVE  used[n][t] = token[t].value
      BY DEF ChangesAreSeen
    <3>1. ~Ready(n)
      BY <2>1 DEF NothingReady
    <3>2. n \notin triggered /\ ~(token[t].version > node[n].consumed[t])
      BY <3>1 DEF Ready, Sees
    <3>3. SeesNow(n) /\ node[n].consumed[t] <= token[t].version
          /\ node[n].consumed[t] \in Nat /\ token[t].version \in Nat
      BY <2>1, <3>2 DEF ValuesSeen, ConsumedHolds, GrTypes, TokenHolds
    <3> QED
      BY <3>2, <3>3 DEF SeesNow, Sees
  <2>3. TriggersWait
    BY <2>1 DEF TriggersWait, NothingReady, Ready
  <2> QED
    BY <2>1, <2>2, <2>3 DEF GraphSafe
<1> QED
  BY <1>1, GrInitial, GrKept, PTL DEF GrSpec

(***************************************************************************)
(* The broker of a kernel and its renderers (KernelTransport).  Patches    *)
(* tell a history from a place on if the first one of every revision after *)
(* r makes this revision out of the one before, and a revision without     *)
(* patches changes nothing.                                                *)
(***************************************************************************)
TrStates == [Keys -> Int]
TrSets == UNION {[keys -> Int] : keys \in SUBSET Keys}
TrPatches == [rev : Nat, sets : TrSets]
TrConns == [owner : TrClients, up : BOOLEAN, from : Int, next : Nat, program : Int,
            phase : {"open", "replay", "vocabulary", "program", "failed"}]

First(patches, s, j, q) ==
    /\ j \in s..Len(patches) /\ patches[j].rev = q
    /\ \A l \in s..Len(patches) : l < j => patches[l].rev < q
Silent(patches, s, q) == \A j \in s..Len(patches) : patches[j].rev # q
Told(h, patches, s, q) ==
    \/ Silent(patches, s, q) /\ h[q + 1] = h[q]
    \/ \E j \in s..Len(patches) : First(patches, s, j, q) /\ h[q + 1] = Set(h[q], patches[j].sets)
Tells(h, patches, s, r) == \A q \in 0..Len(h) : (r < q /\ q < Len(h)) => Told(h, patches, s, q)

Sorted(patches) ==
    /\ \A a, b \in DOMAIN patches : a <= b => patches[a].rev <= patches[b].rev
    /\ \A a \in DOMAIN patches : patches[a].rev <= kernel.rev

TrTypes ==
    /\ kernel \in [rev : Nat, state : TrStates, saved : TrStates,
                   mutation : [by : {"none", "host", "direct", "torn"}, sets : TrSets]]
    /\ hist \in Seq(TrStates) /\ Len(hist) = kernel.rev + 1
    /\ broker \in [log : Seq(TrPatches), baselined : BOOLEAN, poisoned : BOOLEAN, waits : Nat,
                   out : Seq(TrPatches), served : SUBSET Nat, conns : SUBSET Nat]
    /\ conn \in Seq(TrConns)
    /\ replica \in [TrClients -> [rev : Int, state : TrStates]]
    /\ disturbed \subseteq TrClients

(* The store is that of the newest revision, and what is being written. *)
HasProgram(state) == state["program"] # -1
KernelHolds ==
    /\ kernel.mutation.by = "none" => kernel.state = hist[kernel.rev + 1]
    /\ kernel.mutation.by \in {"host", "direct"} => kernel.state = Set(hist[kernel.rev + 1], kernel.mutation.sets)
    /\ HasProgram(kernel.state) /\ \A q \in DOMAIN hist : HasProgram(hist[q])
    /\ kernel.saved = Nothing \/ HasProgram(kernel.saved)

LastLogged == broker.log[Len(broker.log)].rev
LogHolds ==
    /\ Sorted(broker.log) /\ Sorted(broker.out)
    /\ \A j \in DOMAIN broker.out : /\ broker.log # <<>> /\ broker.out[j].rev <= LastLogged
                                    /\ broker.out[j].rev = 0 => broker.out[j].sets = NoContent
    /\ broker.baselined => broker.log # <<>>

ConnsKnown ==
    /\ ~broker.baselined => conn = <<>> /\ \A c \in TrClients : replica[c].rev = -1
    /\ \A i \in DOMAIN conn : /\ conn[i].up => i \in broker.conns
                              /\ conn[i].phase = "replay" => conn[i].next >= 1
    /\ \A i, j \in DOMAIN conn : (conn[i].up /\ conn[j].up /\ conn[i].owner = conn[j].owner) => i = j
    /\ broker.served \cup broker.conns \subseteq DOMAIN conn
    /\ broker.out = <<>> => broker.served = {}
    /\ \A c \in TrClients : replica[c].rev >= -1 /\ replica[c].rev <= kernel.rev

(* A replica is exact, and the log and the outbound queue tell what follows. *)
ExactReplica(c) == \A k \in Keys :
    replica[c].state[k] \in {hist[replica[c].rev + 1][k],
        IF replica[c].rev < kernel.rev THEN hist[replica[c].rev + 2][k] ELSE kernel.state[k]}
OutIsTrue(r) == \A j \in DOMAIN broker.out :
    (broker.out[j].rev > r /\ broker.out[j].sets # NoContent)
        => hist[broker.out[j].rev + 1] = Set(hist[broker.out[j].rev], broker.out[j].sets)
LogTells(r) == \A t \in Nat : (t >= r /\ t >= broker.log[1].rev) => Tells(hist, broker.log, 1, t)
ClientHolds(c) == (c \notin disturbed /\ replica[c].rev >= 0) =>
    /\ ExactReplica(c)
    /\ OutIsTrue(replica[c].rev)
    /\ LogTells(replica[c].rev)

(* What a connection still gets. *)
Pending(i) == IF i \in broker.served THEN 2 ELSE 1
OutLeads(i) ==
    /\ Tells(hist, broker.out, Pending(i), Replica(i).rev)
    /\ LastLogged <= Replica(i).rev \/ \E j \in Pending(i)..Len(broker.out) : broker.out[j].rev >= LastLogged
LogLeads(i) ==
    /\ Tells(hist, broker.log, conn[i].next, Replica(i).rev)
    /\ \A l \in DOMAIN broker.log : l < conn[i].next => broker.log[l].rev <= Replica(i).rev
ConnHolds(i) ==
    /\ conn[i].phase # "failed"
    /\ conn[i].phase \in {"vocabulary", "program"} => Replica(i).rev = -1
    /\ conn[i].phase = "program" => Replica(i).state["program"] = conn[i].program
    /\ conn[i].phase = "open" => Replica(i).rev >= 0 /\ OutLeads(i)
    /\ conn[i].phase = "replay" =>
         /\ Replica(i).rev >= 0 /\ conn[i].from >= 0 /\ Replica(i).rev >= conn[i].from
         /\ conn[i].next >= 1 /\ conn[i].next <= Len(broker.log) + 1
         /\ \/ LogLeads(i)
            \/ conn[i].next > Len(broker.log) /\ Len(broker.log) >= MaxLog /\ OutLeads(i)

TrSafe ==
    /\ \A c \in TrClients : ClientHolds(c)
    /\ \A i \in DOMAIN conn : (conn[i].up /\ conn[i].owner \notin disturbed) => ConnHolds(i)

TrInvariant == TrTypes /\ KernelHolds /\ LogHolds /\ ConnsKnown /\ TrSafe
(***************************************************************************)
(* States, contents and patches.                                           *)
(***************************************************************************)
\* Writing keys keeps a state a state.
LEMMA SetTyped ==
  ASSUME NEW state \in TrStates, NEW sets \in TrSets
  PROVE  Set(state, sets) \in TrStates
BY DEF Set, TrStates, TrSets

\* Leaving keys out keeps a patch a patch.
LEMMA OnlyTyped ==
  ASSUME NEW keys \in SUBSET Keys, NEW f, keys \subseteq DOMAIN f, \A k \in keys : f[k] \in Int
  PROVE  Only(f, keys) \in TrSets
<1>1. Only(f, keys) \in [keys -> Int]
  BY DEF Only
<1> QED
  BY <1>1 DEF TrSets

\* A patch without content changes nothing.
LEMMA NoContentIs ==
  /\ NoContent \in TrSets /\ DOMAIN NoContent = {}
  /\ \A state \in TrStates : Set(state, NoContent) = state
<1>1. NoContent \in [{} -> Int] /\ DOMAIN NoContent = {}
  BY DEF NoContent
<1>2. \A state \in TrStates : Set(state, NoContent) = state
  BY <1>1 DEF Set, TrStates
<1> QED
  BY <1>1, <1>2 DEF TrSets

\* A patched replica is a replica.
LEMMA PatchedTyped ==
  ASSUME NEW held \in [rev : Int, state : TrStates], NEW patch \in TrPatches
  PROVE  Patched(held, patch) \in [rev : Int, state : TrStates]
<1> DEFINE sets == IF held.state.program = -1 THEN Only(patch.sets, DOMAIN patch.sets \ {"program"}) ELSE patch.sets
<1>1. patch.sets \in TrSets /\ patch.rev \in Int /\ held.state \in TrStates
  BY DEF TrPatches
<1>2. sets \in TrSets
  <2>1. DOMAIN patch.sets \subseteq Keys /\ \A k \in DOMAIN patch.sets : patch.sets[k] \in Int
    BY <1>1 DEF TrSets
  <2>2. Only(patch.sets, DOMAIN patch.sets \ {"program"}) \in TrSets
    BY <2>1, OnlyTyped
  <2> QED
    BY <1>1, <2>2
<1>3. Set(held.state, sets) \in TrStates
  BY <1>1, <1>2, SetTyped
<1>4. [rev |-> patch.rev, state |-> Set(held.state, sets)] \in [rev : Int, state : TrStates]
  BY <1>1, <1>3
<1> QED
  BY <1>4 DEF Patched

(***************************************************************************)
(* What patches tell.                                                      *)
(***************************************************************************)
LEMMA TellsLater ==
  ASSUME NEW h, NEW patches, NEW s, NEW r \in Nat, NEW t \in Nat, r <= t, Len(h) \in Nat, Tells(h, patches, s, r)
  PROVE  Tells(h, patches, s, t)
BY DEF Tells

\* Patches of revisions already told may be skipped.
LEMMA TellsOn ==
  ASSUME NEW h, NEW patches \in Seq(TrPatches), NEW s \in Nat, NEW t \in Nat, s <= t, NEW r \in Nat, Len(h) \in Nat,
         \A l \in s..Len(patches) : l < t => patches[l].rev <= r,
         Tells(h, patches, s, r)
  PROVE  Tells(h, patches, t, r)
<1> SUFFICES ASSUME NEW q \in 0..Len(h), r < q, q < Len(h) PROVE Told(h, patches, t, q)
  BY DEF Tells
<1>1. Told(h, patches, s, q)
  BY DEF Tells
<1>2. CASE Silent(patches, s, q) /\ h[q + 1] = h[q]
  BY <1>2 DEF Silent, Told
<1>3. CASE \E j \in s..Len(patches) : First(patches, s, j, q) /\ h[q + 1] = Set(h[q], patches[j].sets)
  <2>1. PICK j \in s..Len(patches) : First(patches, s, j, q) /\ h[q + 1] = Set(h[q], patches[j].sets)
    BY <1>3
  <2>2. j >= t
    BY <2>1 DEF First
  <2>3. First(patches, t, j, q) /\ j \in t..Len(patches)
    BY <2>1, <2>2 DEF First
  <2> QED
    BY <2>1, <2>3 DEF Told
<1> QED
  BY <1>1, <1>2, <1>3 DEF Told

\* A patch is published: it has the newest revision, or no content.
LEMMA TellsAppended ==
  ASSUME NEW h \in Seq(TrStates), NEW patches \in Seq(TrPatches), NEW patch \in TrPatches, NEW s \in Nat \ {0},
         NEW r \in Nat, s <= Len(patches) + 1, Len(h) > 0,
         \A l \in DOMAIN patches : patches[l].rev <= patch.rev,
         Tells(h, patches, s, r),
         NEW g,
         \/ g = h /\ patch.rev = Len(h) - 1 /\ patch.sets = NoContent
         \/ \E state \in TrStates : /\ g = Append(h, state) /\ patch.rev = Len(h)
                                    /\ \A l \in DOMAIN patches : patches[l].rev < Len(h)
                                    /\ r < Len(h) => state = Set(h[Len(h)], patch.sets)
  PROVE  Tells(g, Append(patches, patch), s, r)
<1> DEFINE after == Append(patches, patch)
<1>0. \A l \in DOMAIN patches : patches[l].rev \in Nat
  <2>1. \A l \in DOMAIN patches : patches[l] \in TrPatches
    OBVIOUS
  <2> QED
    BY <2>1 DEF TrPatches
<1>1. /\ Len(after) = Len(patches) + 1 /\ after[Len(patches) + 1] = patch
      /\ \A l \in 1..Len(patches) : after[l] = patches[l]
      /\ DOMAIN patches = 1..Len(patches) /\ Len(patches) \in Nat
      /\ \A l \in 1..Len(patches) : patches[l].rev \in Nat
  BY <1>0
<1> HIDE DEF after
<1>2. ASSUME NEW q \in Nat, r < q, q < Len(h), g[q] = h[q], g[q + 1] = h[q + 1],
             patch.rev = q => patch.sets = NoContent
      PROVE  Told(g, after, s, q)
  <2>1. Told(h, patches, s, q)
    BY <1>2 DEF Tells
  <2>2. CASE Silent(patches, s, q) /\ h[q + 1] = h[q]
    <3>1. CASE patch.rev = q
      <4>1. First(after, s, Len(patches) + 1, q)
        <5>1. \A l \in s..Len(patches) : patches[l].rev < q
          BY <1>1, <2>2, <3>1, SMTT(30) DEF Silent
        <5> QED
          BY <1>1, <3>1, <5>1 DEF First
      <4>2. h[q] \in TrStates
        BY <1>2, q \in 1..Len(h)
      <4>3. Set(h[q], patch.sets) = h[q]
        BY <1>2, <3>1, <4>2, NoContentIs
      <4> QED
        BY <1>1, <1>2, <2>2, <4>1, <4>3 DEF Told
    <3>2. CASE patch.rev # q
      <4>1. Silent(after, s, q)
        BY <1>1, <2>2, <3>2, SMTT(30) DEF Silent
      <4> QED
        BY <1>2, <2>2, <4>1 DEF Told
    <3> QED
      BY <3>1, <3>2
  <2>3. CASE \E j \in s..Len(patches) : First(patches, s, j, q) /\ h[q + 1] = Set(h[q], patches[j].sets)
    <3>1. PICK j \in s..Len(patches) : First(patches, s, j, q) /\ h[q + 1] = Set(h[q], patches[j].sets)
      BY <2>3
    <3>2. j \in 1..Len(patches) /\ j \in s..Len(after) /\ after[j] = patches[j]
      BY <1>1
    <3>3. \A l \in s..Len(after) : l < j => l \in s..Len(patches) /\ after[l] = patches[l]
      BY <1>1
    <3>4. First(after, s, j, q)
      BY <3>1, <3>2, <3>3 DEF First
    <3> QED
      BY <1>2, <3>1, <3>2, <3>4 DEF Told
  <2> QED
    BY <2>1, <2>2, <2>3 DEF Told
<1>3. CASE g = h /\ patch.rev = Len(h) - 1 /\ patch.sets = NoContent
  BY <1>2, <1>3 DEF Tells, after
<1>4. CASE \E state \in TrStates : /\ g = Append(h, state) /\ patch.rev = Len(h)
                                   /\ \A l \in DOMAIN patches : patches[l].rev < Len(h)
                                   /\ r < Len(h) => state = Set(h[Len(h)], patch.sets)
  <2>1. PICK state \in TrStates : /\ g = Append(h, state) /\ patch.rev = Len(h)
                                  /\ \A l \in DOMAIN patches : patches[l].rev < Len(h)
                                  /\ r < Len(h) => state = Set(h[Len(h)], patch.sets)
    BY <1>4
  <2>2. /\ Len(g) = Len(h) + 1 /\ g[Len(h) + 1] = state /\ \A q \in 1..Len(h) : g[q] = h[q]
        /\ Len(h) \in Nat
    BY <2>1
  <2> SUFFICES ASSUME NEW q \in 0..Len(g), r < q, q < Len(g) PROVE Told(g, after, s, q)
    BY DEF Tells, after
  <2>3. CASE q = Len(h)
    <3>1. First(after, s, Len(patches) + 1, q)
      BY <1>1, <2>1, <2>3 DEF First
    <3>2. g[q + 1] = Set(g[q], after[Len(patches) + 1].sets)
      BY <1>1, <2>1, <2>2, <2>3
    <3> QED
      BY <1>1, <3>1, <3>2 DEF Told
  <2>4. CASE q # Len(h)
    <3>1. q \in Nat /\ q < Len(h)
      BY <2>2, <2>4
    <3> QED
      BY <1>2, <2>1, <2>2, <3>1
  <2> QED
    BY <2>3, <2>4
<1> QED
  BY <1>3, <1>4

\* A patch is taken from the front, before the place the telling begins at.
LEMMA TellsInTail ==
  ASSUME NEW h, NEW patches \in Seq(TrPatches), patches # <<>>, NEW s \in Nat, s >= 2,
         NEW r \in Nat, Len(h) \in Nat, Tells(h, patches, s, r)
  PROVE  Tells(h, Tail(patches), s - 1, r)
<1> DEFINE after == Tail(patches)
<1>1. /\ Len(patches) \in Nat \ {0} /\ Len(after) = Len(patches) - 1
      /\ \A l \in 1..Len(patches) - 1 : after[l] = patches[l + 1]
  OBVIOUS
<1> HIDE DEF after
<1> SUFFICES ASSUME NEW q \in 0..Len(h), r < q, q < Len(h) PROVE Told(h, after, s - 1, q)
  BY DEF Tells, after
<1>2. Told(h, patches, s, q)
  BY DEF Tells
<1>3. \A l \in (s - 1)..Len(after) : l + 1 \in s..Len(patches) /\ after[l] = patches[l + 1]
  BY <1>1
<1>4. CASE Silent(patches, s, q) /\ h[q + 1] = h[q]
  <2>1. Silent(after, s - 1, q)
    BY <1>3, <1>4 DEF Silent
  <2> QED
    BY <1>4, <2>1 DEF Told
<1>5. CASE \E j \in s..Len(patches) : First(patches, s, j, q) /\ h[q + 1] = Set(h[q], patches[j].sets)
  <2>1. PICK j \in s..Len(patches) : First(patches, s, j, q) /\ h[q + 1] = Set(h[q], patches[j].sets)
    BY <1>5
  <2>2. j - 1 \in (s - 1)..Len(after) /\ after[j - 1] = patches[j]
    BY <1>1
  <2>3. patches[j].rev = q /\ \A l \in s..Len(patches) : l < j => patches[l].rev < q
    BY <2>1 DEF First
  <2>4. \A l \in (s - 1)..Len(after) : l < j - 1 => l + 1 < j
    OBVIOUS
  <2>5. First(after, s - 1, j - 1, q)
    BY <1>3, <2>2, <2>3, <2>4 DEF First
  <2> QED
    BY <2>1, <2>2, <2>5 DEF Told
<1> QED
  BY <1>2, <1>4, <1>5 DEF Told

\* The least of some numbers.
NatLess == {pair \in Nat \X Nat : pair[1] < pair[2]}

\* The order of the numbers goes down to a least one.
LEMMA NatLessWF == IsWellFoundedOn(NatLess, Nat)
BY NatLessThanWellFounded DEF OpToRel, NatLess

\* Some numbers have a least one.
LEMMA LeastOf == ASSUME NEW T \in SUBSET Nat, T # {} PROVE \E x \in T : \A y \in T : x <= y
<1>1. PICK x \in T : \A y \in T : ~(<<y, x>> \in NatLess)
  BY NatLessWF, WFMin
<1>2. ASSUME NEW y \in T PROVE x <= y
  <2>1. y < x => <<y, x>> \in NatLess
    BY <1>2 DEF NatLess
  <2>2. x \in Nat /\ y \in Nat
    OBVIOUS
  <2> QED
    BY <1>1, <2>1, <2>2
<1> QED
  BY <1>2

\* Nothing changes while no revision changes anything.
LEMMA QuietStretch ==
  ASSUME NEW h, NEW a \in Nat, NEW b \in Nat, \A q \in Nat : (a < q /\ q < b) => h[q + 1] = h[q]
  PROVE  \A q \in Nat : (a < q /\ q <= b) => h[q] = h[a + 1]
<1> DEFINE T == {q \in Nat : a < q /\ q <= b /\ h[q] # h[a + 1]}
<1>1. CASE T = {}
  BY <1>1
<1>2. CASE T # {}
  <2>1. PICK x \in T : \A y \in T : x <= y
    <3>1. T \in SUBSET Nat
      OBVIOUS
    <3> HIDE DEF T
    <3> QED
      BY <1>2, <3>1, LeastOf
  <2>2. x \in Nat /\ a < x /\ x <= b /\ h[x] # h[a + 1]
    OBVIOUS
  <2>3. x - 1 \in Nat /\ a < x - 1 /\ x - 1 < b /\ x - 1 \notin T
    BY <2>1, <2>2
  <2>4. h[x - 1] = h[a + 1] /\ h[(x - 1) + 1] = h[x - 1]
    BY <2>3
  <2> QED
    BY <2>2, <2>4
<1> QED
  BY <1>1, <1>2

\* A patch is applied by a replica that has everything before it.
LEMMA PatchApplied ==
  ASSUME NEW h \in Seq(TrStates), NEW held \in [rev : Int, state : TrStates], held.rev \in Nat,
         NEW patch \in TrPatches, held.rev < patch.rev, patch.rev < Len(h), HasProgram(held.state),
         \A k \in Keys : held.state[k] \in {h[held.rev + 1][k], h[held.rev + 2][k]},
         \A q \in Nat : (held.rev < q /\ q < patch.rev) => h[q + 1] = h[q],
         h[patch.rev + 1] = Set(h[patch.rev], patch.sets)
  PROVE  Patched(held, patch) = [rev |-> patch.rev, state |-> h[patch.rev + 1]]
<1>1. patch.rev \in Nat /\ patch.sets \in TrSets
  BY DEF TrPatches
<1>2. \A q \in Nat : (held.rev < q /\ q <= patch.rev) => h[q] = h[held.rev + 1]
  BY <1>1, QuietStretch, ZenonT(30)
<1>3. h[patch.rev] = h[held.rev + 1]
  <2>1. PICK b \in Nat : b = patch.rev
    BY <1>1
  <2>2. held.rev < b /\ b <= patch.rev
    BY <2>1
  <2>3. h[b] = h[held.rev + 1]
    BY <1>2, <2>2
  <2> QED
    BY <2>1, <2>3
<1>4. h[held.rev + 2] = h[held.rev + 1] \/ h[held.rev + 2] = h[patch.rev + 1]
  <2>1. held.rev + 2 <= patch.rev \/ held.rev + 1 = patch.rev
    BY <1>1
  <2>2. held.rev + 2 <= patch.rev => h[held.rev + 2] = h[held.rev + 1]
    BY <1>2
  <2>3. held.rev + 1 = patch.rev => held.rev + 2 = patch.rev + 1
    BY <1>1
  <2> QED
    BY <2>1, <2>2, <2>3
<1>5. Patched(held, patch) = [rev |-> patch.rev, state |-> Set(held.state, patch.sets)]
  BY <1>1 DEF Patched, HasProgram
<1>6. ASSUME NEW k \in Keys, k \notin DOMAIN patch.sets PROVE held.state[k] = Set(h[patch.rev], patch.sets)[k]
  <2>1. Set(h[patch.rev], patch.sets)[k] = h[patch.rev][k]
    BY <1>6 DEF Set
  <2>2. h[patch.rev + 1][k] = h[patch.rev][k]
    BY <2>1
  <2> QED
    BY <1>3, <1>4, <1>6, <2>1, <2>2
<1>7. Set(held.state, patch.sets) = Set(h[patch.rev], patch.sets)
  BY <1>6 DEF Set
<1> QED
  BY <1>5, <1>7

(***************************************************************************)
(* The kernel begins a mutation.                                           *)
(***************************************************************************)
PlainInvariant == TrTypes /\ KernelHolds /\ LogHolds /\ ConnsKnown

\* A baseline changes nothing once there is one; before it only stands for revision 0.
LEMMA BaselineIs ==
  ASSUME PlainInvariant
  PROVE  /\ broker.baselined => Baseline = kernel.state /\ BaselinedLog = broker.log /\ BaselinedHist = hist
         /\ Baseline \in TrStates /\ HasProgram(Baseline)
         /\ BaselinedHist \in Seq(TrStates) /\ Len(BaselinedHist) = kernel.rev + 1
         /\ \A q \in DOMAIN BaselinedHist : HasProgram(BaselinedHist[q])
         /\ BaselinedHist[kernel.rev + 1] = IF kernel.mutation.by = "none" THEN Baseline ELSE hist[kernel.rev + 1]
<1> USE DEF PlainInvariant
<1>1. /\ kernel.rev \in Nat /\ kernel.state \in TrStates /\ hist \in Seq(TrStates) /\ Len(hist) = kernel.rev + 1
      /\ HasProgram(kernel.state) /\ \A q \in DOMAIN hist : HasProgram(hist[q])
      /\ kernel.mutation.by = "none" => kernel.state = hist[kernel.rev + 1]
  BY DEF TrTypes, KernelHolds
<1>2. DOMAIN hist = 1..(kernel.rev + 1)
  BY <1>1
<1>3. Baseline \in TrStates /\ HasProgram(Baseline)
  BY <1>1, SMTT(30) DEF Baseline, TrStates, Keys, HasProgram
<1>4. PICK h : h = IF broker.baselined \/ kernel.mutation.by # "none" THEN hist[kernel.rev + 1] ELSE Baseline
  OBVIOUS
<1>5. BaselinedHist = [hist EXCEPT ![kernel.rev + 1] = h]
  BY <1>4 DEF BaselinedHist
<1>6. h \in TrStates /\ HasProgram(h)
  BY <1>1, <1>2, <1>3, <1>4
<1>7. BaselinedHist \in Seq(TrStates) /\ Len(BaselinedHist) = kernel.rev + 1
  BY <1>1, <1>2, <1>5, <1>6
<1>8. \A q \in DOMAIN BaselinedHist : HasProgram(BaselinedHist[q])
  BY <1>1, <1>2, <1>5, <1>6
<1>9. broker.baselined => Baseline = kernel.state /\ BaselinedLog = broker.log
  BY DEF Baseline, BaselinedLog
<1>10. BaselinedHist[kernel.rev + 1] = IF kernel.mutation.by = "none" THEN Baseline ELSE hist[kernel.rev + 1]
  BY <1>1, <1>2, <1>4, <1>5, <1>9
<1>11. broker.baselined => BaselinedHist = hist
  BY <1>1, <1>2, <1>4, <1>5
<1> QED
  BY <1>3, <1>7, <1>8, <1>9, <1>10, <1>11

\* The log with its baseline is in order, never empty and not ahead of the kernel.
LEMMA BaselinedLogIs ==
  ASSUME PlainInvariant
  PROVE  /\ BaselinedLog \in Seq(TrPatches) /\ BaselinedLog # <<>>
         /\ \A a, b \in DOMAIN BaselinedLog : a <= b => BaselinedLog[a].rev <= BaselinedLog[b].rev
         /\ \A a \in DOMAIN BaselinedLog : BaselinedLog[a].rev <= kernel.rev
         /\ \A j \in DOMAIN broker.out : broker.out[j].rev <= BaselinedLog[Len(BaselinedLog)].rev
<1> USE DEF PlainInvariant
<1>1. CASE broker.baselined
  BY <1>1 DEF LogHolds, Sorted, BaselinedLog, LastLogged, TrTypes
<1>2. CASE ~broker.baselined
  <2>1. PICK p : p = [rev |-> kernel.rev, sets |-> Only(Baseline, Data)]
    OBVIOUS
  <2>2. Only(Baseline, Data) \in TrSets
    <3>1. Data \in SUBSET Keys /\ Data \subseteq DOMAIN Baseline /\ \A k \in Data : Baseline[k] \in Int
      BY BaselineIs DEF TrStates, Data, Keys
    <3> QED
      BY <3>1, OnlyTyped
  <2>3. p \in TrPatches /\ p.rev = kernel.rev /\ kernel.rev \in Nat
    BY <2>1, <2>2 DEF TrPatches, TrTypes
  <2>4. PICK log \in Seq(TrPatches) : log = broker.log
    BY DEF TrTypes
  <2>5. BaselinedLog = Append(log, p)
    BY <1>2, <2>1, <2>4 DEF BaselinedLog
  <2>6. /\ Len(BaselinedLog) = Len(log) + 1 /\ BaselinedLog[Len(log) + 1] = p
        /\ \A a \in 1..Len(log) : BaselinedLog[a] = log[a]
        /\ DOMAIN BaselinedLog = 1..(Len(log) + 1) /\ DOMAIN log = 1..Len(log) /\ Len(log) \in Nat
    BY <2>3, <2>4, <2>5
  <2>7. BaselinedLog \in Seq(TrPatches) /\ BaselinedLog # <<>>
    BY <2>3, <2>4, <2>5
  <2>8. /\ \A a, b \in DOMAIN log : a <= b => log[a].rev <= log[b].rev
        /\ \A a \in DOMAIN log : log[a].rev <= kernel.rev
        /\ \A j \in DOMAIN broker.out : broker.out[j].rev <= kernel.rev
    BY <2>4 DEF LogHolds, Sorted
  <2>9. \A a \in DOMAIN BaselinedLog : BaselinedLog[a].rev <= kernel.rev
    BY <2>3, <2>6, <2>8
  <2>10. \A a, b \in DOMAIN BaselinedLog : a <= b => BaselinedLog[a].rev <= BaselinedLog[b].rev
    <3> SUFFICES ASSUME NEW a \in DOMAIN BaselinedLog, NEW b \in DOMAIN BaselinedLog, a <= b
                 PROVE  BaselinedLog[a].rev <= BaselinedLog[b].rev
      OBVIOUS
    <3>1. CASE b = Len(log) + 1
      BY <2>3, <2>6, <2>9, <3>1
    <3>2. CASE b # Len(log) + 1
      <4>1. a \in DOMAIN log /\ b \in DOMAIN log
        BY <2>6, <3>2
      <4> QED
        BY <2>6, <2>8, <4>1
    <3> QED
      BY <3>1, <3>2
  <2> QED
    BY <2>3, <2>6, <2>7, <2>8, <2>9, <2>10
<1> QED
  BY <1>1, <1>2

\* Nothing is sent, and the store changes only when it was that of its revision.
LEMMA SafeAtRest ==
  ASSUME TrInvariant, broker'.log = broker.log, broker'.out = broker.out, broker'.served = broker.served,
         hist' = hist, conn' = conn, replica' = replica, kernel'.rev = kernel.rev,
         kernel'.state = kernel.state \/ kernel.mutation.by = "none", disturbed \subseteq disturbed'
  PROVE  TrSafe'
<1>1. \A c \in TrClients : ClientHolds(c) /\ replica[c].rev <= kernel.rev
  BY DEF TrInvariant, TrSafe, ConnsKnown
<1>2. kernel.rev \in Nat /\ \A c \in TrClients : replica[c].rev \in Int
  BY DEF TrInvariant, TrTypes
<1>3. kernel.mutation.by = "none" => kernel.state = hist[kernel.rev + 1]
  BY DEF TrInvariant, KernelHolds
<1>4. ASSUME NEW c \in TrClients PROVE ClientHolds(c)'
  <2> SUFFICES ASSUME c \notin disturbed, replica[c].rev >= 0
               PROVE  ExactReplica(c)' /\ OutIsTrue(replica[c].rev)'
                      /\ LogTells(replica[c].rev)'
    BY DEF ClientHolds
  <2>1. ExactReplica(c) /\ OutIsTrue(replica[c].rev)
        /\ LogTells(replica[c].rev)
    BY <1>1 DEF ClientHolds
  <2>2. ExactReplica(c)'
    <3> SUFFICES ASSUME NEW k \in Keys
                 PROVE  replica[c].state[k] \in {hist[replica[c].rev + 1][k],
                            IF replica[c].rev < kernel.rev THEN hist[replica[c].rev + 2][k] ELSE kernel'.state[k]}
      BY DEF ExactReplica
    <3>1. replica[c].state[k] \in {hist[replica[c].rev + 1][k],
              IF replica[c].rev < kernel.rev THEN hist[replica[c].rev + 2][k] ELSE kernel.state[k]}
      BY <2>1 DEF ExactReplica
    <3>2. CASE replica[c].rev < kernel.rev
      BY <3>1, <3>2
    <3>3. CASE ~(replica[c].rev < kernel.rev)
      <4>1. replica[c].rev = kernel.rev
        BY <1>1, <1>2, <3>3
      <4> QED
        BY <1>3, <3>1, <3>3, <4>1
    <3> QED
      BY <3>2, <3>3
  <2>3. OutIsTrue(replica[c].rev)'
    BY <2>1 DEF OutIsTrue
  <2>4. LogTells(replica[c].rev)'
    BY <2>1 DEF LogTells
  <2> QED
    BY <2>2, <2>3, <2>4
<1>5. ASSUME NEW i \in DOMAIN conn, conn[i].up, conn[i].owner \notin disturbed' PROVE ConnHolds(i)'
  <2>1. ConnHolds(i)
    BY <1>5 DEF TrInvariant, TrSafe
  <2>2. OutLeads(i)' <=> OutLeads(i)
    BY DEF OutLeads, Pending, Replica, LastLogged
  <2>3. LogLeads(i)' <=> LogLeads(i)
    BY DEF LogLeads, Replica
  <2> QED
    BY <2>1, <2>2, <2>3 DEF ConnHolds, Replica
<1> QED
  BY <1>4, <1>5 DEF TrSafe

\* Nobody listens yet.
LEMMA SafeWithoutClients ==
  ASSUME conn' = <<>>, \A c \in TrClients : replica'[c].rev = -1
  PROVE  TrSafe'
BY DEF TrSafe, ClientHolds

\* A mutation that begins changes the state and keeps the invariant.
LEMMA MutationBegun ==
  ASSUME TrInvariant, kernel.mutation.by = "none", NEW base, NEW sets \in TrSets, NEW by \in {"host", "direct"},
         HasProgram(Set(base, sets)),
         kernel' = [kernel EXCEPT !.state = Set(base, sets), !.mutation = [by |-> by, sets |-> sets]],
         \/ base = kernel.state /\ hist' = hist /\ broker' = broker
         \/ /\ base = Baseline /\ hist' = BaselinedHist
            /\ broker' = [broker EXCEPT !.log = BaselinedLog, !.baselined = TRUE],
         UNCHANGED <<conn, replica, disturbed>>
  PROVE  TrInvariant'
<1> USE DEF PlainInvariant
<1>1. PlainInvariant /\ TrSafe
  BY DEF TrInvariant
<1>2. base \in TrStates
  BY <1>1, BaselineIs DEF TrTypes
<1>3. PICK state \in TrStates : state = Set(base, sets)
  BY <1>2, SetTyped
<1>4. PICK m \in [by : {"none", "host", "direct", "torn"}, sets : TrSets] : m.by = by /\ m.sets = sets /\ m = [by |-> by, sets |-> sets]
  OBVIOUS
<1>5. /\ kernel' \in [rev : Nat, state : TrStates, saved : TrStates,
                      mutation : [by : {"none", "host", "direct", "torn"}, sets : TrSets]]
      /\ kernel'.rev = kernel.rev /\ kernel'.state = state /\ kernel'.mutation = m /\ kernel'.saved = kernel.saved
  <2>1. kernel' = [kernel EXCEPT !.state = state, !.mutation = m]
    BY <1>3, <1>4
  <2> QED
    BY <1>1, <2>1 DEF TrTypes
<1>6. /\ hist' \in Seq(TrStates) /\ Len(hist') = kernel.rev + 1 /\ \A q \in DOMAIN hist' : HasProgram(hist'[q])
      /\ hist'[kernel.rev + 1] = base
  BY <1>1, BaselineIs DEF TrTypes, KernelHolds
<1>7. /\ broker' \in [log : Seq(TrPatches), baselined : BOOLEAN, poisoned : BOOLEAN, waits : Nat,
                      out : Seq(TrPatches), served : SUBSET Nat, conns : SUBSET Nat]
      /\ broker'.out = broker.out /\ broker'.served = broker.served /\ broker'.conns = broker.conns
      /\ broker'.log = broker.log \/ broker'.log = BaselinedLog
      /\ broker.baselined => broker'.baselined /\ broker'.log = broker.log
      /\ ~broker'.baselined => ~broker.baselined
      /\ broker'.baselined => broker.baselined \/ broker'.log # <<>>
  <2>1. CASE broker' = broker
    BY <1>1, <2>1 DEF TrTypes
  <2>2. CASE broker' = [broker EXCEPT !.log = BaselinedLog, !.baselined = TRUE]
    BY <1>1, <2>2, BaselinedLogIs, BaselineIs DEF TrTypes
  <2> QED
    BY <2>1, <2>2
<1>8. TrTypes'
  BY <1>1, <1>5, <1>6, <1>7 DEF TrTypes
<1>9. KernelHolds'
  BY <1>1, <1>3, <1>4, <1>5, <1>6 DEF KernelHolds
<1>10. LogHolds'
  <2>1. Sorted(broker.log)' /\ Sorted(broker.out)'
    BY <1>1, <1>5, <1>7, BaselinedLogIs DEF LogHolds, Sorted
  <2>2. \A j \in DOMAIN broker.out : broker'.log # <<>> /\ broker.out[j].rev <= broker'.log[Len(broker'.log)].rev
    BY <1>1, <1>7, BaselinedLogIs DEF LogHolds, LastLogged
  <2>3. broker'.baselined => broker'.log # <<>>
    BY <1>1, <1>7 DEF LogHolds
  <2> QED
    BY <1>1, <1>7, <2>1, <2>2, <2>3 DEF LogHolds, LastLogged
<1>11. ConnsKnown'
  BY <1>1, <1>5, <1>7 DEF ConnsKnown
<1>12. TrSafe'
  <2>1. CASE broker.baselined
    <3>1. hist' = hist
      BY <1>1, <2>1, BaselineIs
    <3> QED
      BY <1>5, <1>7, <2>1, <3>1, SafeAtRest
  <2>2. CASE ~broker.baselined
    BY <1>1, <2>2, SafeWithoutClients DEF ConnsKnown
  <2> QED
    BY <2>1, <2>2
<1> QED
  BY <1>8, <1>9, <1>10, <1>11, <1>12 DEF TrInvariant

\* What a mutation writes are keys of the state, and the program stays there.
LEMMA FreshIs ==
  ASSUME kernel.rev \in Nat, NEW keys \in Changes
  PROVE  /\ Fresh(keys) \in TrSets
         /\ \A state \in TrStates : HasProgram(state) => HasProgram(Set(state, Fresh(keys)))
<1>1. keys \in SUBSET Keys
  BY DEF Changes, Keys
<1>2. Fresh(keys) \in [keys -> Int] /\ \A k \in keys : Fresh(keys)[k] = kernel.rev + 1
  BY DEF Fresh
<1>3. Fresh(keys) \in TrSets
  BY <1>1, <1>2 DEF TrSets
<1>4. ASSUME NEW state \in TrStates, HasProgram(state) PROVE HasProgram(Set(state, Fresh(keys)))
  BY <1>2, <1>4 DEF HasProgram, Set, Keys
<1> QED
  BY <1>3, <1>4

\* Restoring, dispatching and mutating directly keep the invariant.
LEMMA BeginsKeep ==
  ASSUME TrInvariant, Restore \/ \E keys \in Changes : HostDispatch(keys) \/ DirectMutation(keys)
  PROVE  TrInvariant'
<1>1. PlainInvariant /\ kernel.rev \in Nat /\ kernel.state \in TrStates /\ HasProgram(kernel.state)
  BY DEF TrInvariant, PlainInvariant, TrTypes, KernelHolds
<1>2. ASSUME NEW keys \in Changes, HostDispatch(keys) PROVE TrInvariant'
  <2>1. PICK sets \in TrSets : sets = Fresh(keys)
    BY <1>1, FreshIs
  <2>2. HasProgram(Set(Baseline, sets))
    BY <1>1, <2>1, BaselineIs, FreshIs
  <2>3. /\ kernel.mutation.by = "none" /\ hist' = BaselinedHist /\ UNCHANGED <<conn, replica, disturbed>>
        /\ kernel' = [kernel EXCEPT !.state = Set(Baseline, sets), !.mutation = [by |-> "host", sets |-> sets]]
        /\ broker' = [broker EXCEPT !.log = BaselinedLog, !.baselined = TRUE]
    BY <1>2, <2>1 DEF HostDispatch
  <2> QED
    BY <2>2, <2>3, MutationBegun
<1>3. ASSUME NEW keys \in Changes, DirectMutation(keys) PROVE TrInvariant'
  <2>1. PICK sets \in TrSets : sets = Fresh(keys)
    BY <1>1, FreshIs
  <2>2. HasProgram(Set(kernel.state, sets))
    BY <1>1, <2>1, FreshIs
  <2>3. /\ kernel.mutation.by = "none" /\ hist' = hist /\ broker' = broker /\ UNCHANGED <<conn, replica, disturbed>>
        /\ kernel' = [kernel EXCEPT !.state = Set(kernel.state, sets), !.mutation = [by |-> "direct", sets |-> sets]]
    BY <1>3, <2>1 DEF DirectMutation, BeginMutation
  <2> QED
    BY <2>2, <2>3, MutationBegun
<1>4. ASSUME Restore PROVE TrInvariant'
  <2> DEFINE keys == Data \cup {k \in {"program"} : kernel.saved[k] # kernel.state[k]}
  <2>1. kernel.saved \in TrStates /\ HasProgram(kernel.saved)
    BY <1>1, <1>4 DEF Restore, PlainInvariant, KernelHolds, TrTypes
  <2>2. PICK sets \in TrSets : sets = Only(kernel.saved, keys)
    <3>1. keys \in SUBSET Keys /\ keys \subseteq DOMAIN kernel.saved /\ \A k \in keys : kernel.saved[k] \in Int
      BY <2>1 DEF TrStates, Keys, Data
    <3> HIDE DEF keys
    <3> QED
      BY <3>1, OnlyTyped
  <2>3. HasProgram(Set(kernel.state, sets))
    BY <1>1, <2>1, <2>2 DEF HasProgram, Set, Only, Keys
  <2>4. /\ kernel.mutation.by = "none" /\ hist' = hist /\ broker' = broker /\ UNCHANGED <<conn, replica, disturbed>>
        /\ kernel' = [kernel EXCEPT !.state = Set(kernel.state, sets), !.mutation = [by |-> "direct", sets |-> sets]]
    BY <1>4, <2>2 DEF Restore, BeginMutation
  <2> QED
    BY <2>3, <2>4, MutationBegun
<1> QED
  BY <1>2, <1>3, <1>4

\* Taking a checkpoint keeps the invariant.
LEMMA CheckpointKeeps == ASSUME TrInvariant, TakeCheckpoint PROVE TrInvariant'
<1>1. PlainInvariant
  BY DEF TrInvariant, PlainInvariant
<1>2. /\ kernel' \in [rev : Nat, state : TrStates, saved : TrStates,
                      mutation : [by : {"none", "host", "direct", "torn"}, sets : TrSets]]
      /\ kernel'.rev = kernel.rev /\ kernel'.state = kernel.state /\ kernel'.mutation = kernel.mutation
      /\ kernel'.saved = kernel.state
  BY <1>1 DEF TakeCheckpoint, PlainInvariant, TrTypes
<1>3. UNCHANGED <<hist, broker, conn, replica, disturbed>>
  BY DEF TakeCheckpoint
<1>4. TrTypes' /\ KernelHolds' /\ LogHolds' /\ ConnsKnown'
  BY <1>1, <1>2, <1>3 DEF PlainInvariant, TrTypes, KernelHolds, LogHolds, Sorted, LastLogged, ConnsKnown
<1>5. TrSafe'
  BY <1>2, <1>3, SafeAtRest
<1> QED
  BY <1>4, <1>5 DEF TrInvariant

(***************************************************************************)
(* A patch is published, and the kernel commits.                           *)
(***************************************************************************)
LEMMA TellsNothing ==
  ASSUME NEW h, Len(h) \in Nat, NEW log \in Seq(TrPatches), NEW out \in Seq(TrPatches),
         NEW s \in Nat \ {0}, NEW t \in Nat \ {0}, NEW r \in Nat,
         \A l \in DOMAIN log : log[l].rev <= r, \A j \in DOMAIN out : out[j].rev <= r, Tells(h, log, s, r)
  PROVE  Tells(h, out, t, r)
<1> SUFFICES ASSUME NEW q \in 0..Len(h), r < q, q < Len(h) PROVE Told(h, out, t, q)
  BY DEF Tells
<1>1. Told(h, log, s, q)
  BY DEF Tells
<1>2. (\A j \in s..Len(log) : j \in DOMAIN log) /\ (\A j \in t..Len(out) : j \in DOMAIN out)
  OBVIOUS
<1>3. Silent(out, t, q)
  BY <1>2 DEF Silent
<1>4. \A j \in s..Len(log) : ~First(log, s, j, q)
  BY <1>2 DEF First
<1> QED
  BY <1>1, <1>3, <1>4 DEF Told

\* Logging a patch appends it, and drops the oldest patch of a full log.
LEMMA LoggedIs ==
  ASSUME PlainInvariant, NEW patch \in TrPatches, patch.rev \in {kernel.rev, kernel.rev + 1}, NEW log, log = Logged(broker.log, patch)
  PROVE  /\ log \in Seq(TrPatches) /\ log # <<>> /\ log[Len(log)] = patch
         /\ \A a, b \in DOMAIN log : a <= b => log[a].rev <= log[b].rev
         /\ \A a \in DOMAIN log : log[a].rev <= patch.rev
         /\ Len(broker.log) >= MaxLog => Len(log) = Len(broker.log) /\ log = Append(Tail(broker.log), patch)
         /\ Len(broker.log) < MaxLog => Len(log) = Len(broker.log) + 1 /\ log = Append(broker.log, patch)
<1>1. PICK old \in Seq(TrPatches) : old = broker.log
  BY DEF PlainInvariant, TrTypes
<1>2. /\ \A a, b \in DOMAIN old : a <= b => old[a].rev <= old[b].rev
      /\ \A a \in DOMAIN old : old[a].rev <= kernel.rev
      /\ \A a \in DOMAIN old : old[a].rev \in Nat
      /\ kernel.rev \in Nat
  <2>1. \A a \in DOMAIN old : old[a] \in TrPatches
    OBVIOUS
  <2> QED
    BY <1>1, <2>1 DEF PlainInvariant, LogHolds, Sorted, TrTypes, TrPatches
<1>3. DOMAIN old = 1..Len(old) /\ Len(old) \in Nat /\ MaxLog \in Nat \ {0} /\ patch.rev \in Nat
  BY TrAssumption, <1>2
<1>4. CASE Len(old) >= MaxLog
  <2>1. old # <<>> /\ log = Append(Tail(old), patch)
    BY <1>1, <1>3, <1>4 DEF Logged
  <2>2. Tail(old) \in Seq(TrPatches) /\ Len(Tail(old)) = Len(old) - 1 /\ \A a \in 1..(Len(old) - 1) : Tail(old)[a] = old[a + 1]
    BY <2>1
  <2>3. /\ log \in Seq(TrPatches) /\ Len(log) = Len(old) /\ log[Len(old)] = patch /\ DOMAIN log = 1..Len(old)
        /\ \A a \in 1..(Len(old) - 1) : log[a] = old[a + 1]
    BY <1>3, <2>1, <2>2
  <2>4. \A a \in DOMAIN log : log[a].rev <= patch.rev
    <3> SUFFICES ASSUME NEW a \in DOMAIN log PROVE log[a].rev <= patch.rev
      OBVIOUS
    <3>1. CASE a = Len(old)
      BY <1>3, <2>3, <3>1
    <3>2. CASE a # Len(old)
      <4>1. a \in 1..(Len(old) - 1) /\ a + 1 \in DOMAIN old
        BY <1>3, <2>3, <3>2
      <4> QED
        BY <1>2, <1>3, <2>3, <4>1
    <3> QED
      BY <3>1, <3>2
  <2>5. \A a, b \in DOMAIN log : a <= b => log[a].rev <= log[b].rev
    <3> SUFFICES ASSUME NEW a \in DOMAIN log, NEW b \in DOMAIN log, a <= b PROVE log[a].rev <= log[b].rev
      OBVIOUS
    <3>1. CASE b = Len(old)
      BY <2>3, <2>4, <3>1
    <3>2. CASE b # Len(old)
      <4>1. a \in 1..(Len(old) - 1) /\ b \in 1..(Len(old) - 1) /\ a + 1 \in DOMAIN old /\ b + 1 \in DOMAIN old
        BY <1>3, <2>3, <3>2
      <4> QED
        BY <1>2, <1>3, <2>3, <4>1, SMTT(30)
    <3> QED
      BY <3>1, <3>2
  <2> QED
    BY <1>1, <1>3, <1>4, <2>1, <2>3, <2>4, <2>5, SMTT(30)
<1>5. CASE ~(Len(old) >= MaxLog)
  <2>1. log = Append(old, patch)
    BY <1>1, <1>5 DEF Logged
  <2>2. /\ log \in Seq(TrPatches) /\ Len(log) = Len(old) + 1 /\ log[Len(old) + 1] = patch /\ DOMAIN log = 1..(Len(old) + 1)
        /\ \A a \in 1..Len(old) : log[a] = old[a]
    BY <1>3, <2>1
  <2>3. \A a \in DOMAIN log : log[a].rev <= patch.rev
    BY <1>2, <1>3, <2>2
  <2>4. \A a, b \in DOMAIN log : a <= b => log[a].rev <= log[b].rev
    <3> SUFFICES ASSUME NEW a \in DOMAIN log, NEW b \in DOMAIN log, a <= b PROVE log[a].rev <= log[b].rev
      OBVIOUS
    <3>1. CASE b = Len(old) + 1
      BY <2>2, <2>3, <3>1
    <3>2. CASE b # Len(old) + 1
      <4>1. a \in DOMAIN old /\ b \in DOMAIN old
        BY <1>3, <2>2, <3>2
      <4> QED
        BY <1>2, <1>3, <2>2, <4>1
    <3> QED
      BY <3>1, <3>2
  <2> QED
    BY <1>1, <1>3, <1>5, <2>1, <2>2, <2>3, <2>4
<1> QED
  BY <1>4, <1>5

\* A patch of the newest revision or of the next one.
Publishes(patch) ==
    \/ /\ kernel.mutation.by = "none" /\ kernel' = kernel /\ hist' = hist
       /\ patch.rev = kernel.rev /\ patch.sets = NoContent
    \/ /\ kernel.mutation.by # "none" /\ kernel' = [kernel EXCEPT !.rev = @ + 1, !.mutation = NoneUnderWay]
       /\ hist' = Append(hist, kernel.state)
       /\ patch.rev = kernel.rev + 1 /\ patch.sets = kernel.mutation.sets

\* Publishing a patch keeps the types and the records of the kernel, the log and the queue.
LEMMA PublishedTyped ==
  ASSUME TrInvariant, NEW patch \in TrPatches, Publishes(patch), Published(patch), UNCHANGED <<conn, replica>>
  PROVE  /\ PlainInvariant'
         /\ kernel'.state = kernel.state /\ kernel'.rev = patch.rev /\ patch.rev \in {kernel.rev, kernel.rev + 1}
         /\ hist' \in Seq(TrStates) /\ \A q \in 1..Len(hist) : hist'[q] = hist[q]
         /\ broker'.log = Logged(broker.log, patch) /\ broker'.out = Append(broker.out, patch)
         /\ broker'.served = broker.served
<1>1. PlainInvariant
  BY DEF TrInvariant, PlainInvariant
<1>2. NoneUnderWay \in [by : {"none", "host", "direct", "torn"}, sets : TrSets] /\ NoneUnderWay.by = "none"
  BY NoContentIs DEF NoneUnderWay
<1>3. /\ kernel' \in [rev : Nat, state : TrStates, saved : TrStates,
                      mutation : [by : {"none", "host", "direct", "torn"}, sets : TrSets]]
      /\ kernel'.rev = patch.rev /\ kernel'.state = kernel.state /\ kernel'.saved = kernel.saved
      /\ kernel'.mutation.by = "none"
      /\ patch.rev \in {kernel.rev, kernel.rev + 1} /\ kernel.rev \in Nat
  <2>1. PICK none \in [by : {"none", "host", "direct", "torn"}, sets : TrSets] : none = NoneUnderWay /\ none.by = "none"
    BY <1>2
  <2>2. /\ kernel \in [rev : Nat, state : TrStates, saved : TrStates,
                        mutation : [by : {"none", "host", "direct", "torn"}, sets : TrSets]]
    BY <1>1 DEF PlainInvariant, TrTypes
  <2>3. CASE kernel.mutation.by = "none" /\ kernel' = kernel /\ patch.rev = kernel.rev
    BY <2>2, <2>3
  <2>4. CASE kernel' = [kernel EXCEPT !.rev = @ + 1, !.mutation = none] /\ patch.rev = kernel.rev + 1
    <3>1. PICK rev \in Nat : rev = kernel.rev + 1
      BY <2>2
    <3>2. kernel' = [kernel EXCEPT !.rev = rev, !.mutation = none]
      BY <2>4, <3>1
    <3> QED
      BY <2>1, <2>2, <2>4, <3>1, <3>2
  <2> QED
    BY <2>1, <2>3, <2>4 DEF Publishes
<1>4. /\ hist' \in Seq(TrStates) /\ Len(hist') = kernel'.rev + 1 /\ hist'[kernel'.rev + 1] = kernel.state
      /\ \A q \in 1..Len(hist) : hist'[q] = hist[q]
      /\ \A q \in DOMAIN hist' : HasProgram(hist'[q])
  <2>1. /\ kernel.state \in TrStates /\ hist \in Seq(TrStates) /\ Len(hist) = kernel.rev + 1 /\ HasProgram(kernel.state)
        /\ \A q \in DOMAIN hist : HasProgram(hist[q])
        /\ kernel.mutation.by = "none" => kernel.state = hist[kernel.rev + 1]
    BY <1>1 DEF PlainInvariant, TrTypes, KernelHolds
  <2>2. CASE kernel.mutation.by = "none" /\ kernel' = kernel /\ hist' = hist
    BY <1>3, <2>1, <2>2
  <2>3. CASE kernel'.rev = kernel.rev + 1 /\ hist' = Append(hist, kernel.state)
    BY <1>3, <2>1, <2>3
  <2> QED
    BY <1>3, <2>2, <2>3 DEF Publishes
<1>5. PICK waits \in Nat : waits = IF kernel.mutation.by = "host" THEN Len(broker.out) + 1 ELSE broker.waits
  <2>1. broker.waits \in Nat /\ broker.out \in Seq(TrPatches)
    BY <1>1 DEF PlainInvariant, TrTypes
  <2>2. Len(broker.out) \in Nat
    BY <2>1
  <2> QED
    BY <2>1, <2>2
<1>6. PICK log \in Seq(TrPatches) : log = Logged(broker.log, patch)
  BY <1>1, <1>3, LoggedIs
<1>7. /\ broker' \in [log : Seq(TrPatches), baselined : BOOLEAN, poisoned : BOOLEAN, waits : Nat,
                      out : Seq(TrPatches), served : SUBSET Nat, conns : SUBSET Nat]
      /\ broker'.log = log /\ broker'.out = Append(broker.out, patch)
      /\ broker'.served = broker.served /\ broker'.conns = broker.conns /\ broker'.baselined = broker.baselined
  <2>1. PICK out \in Seq(TrPatches) : out = Append(broker.out, patch)
    <3>1. broker.out \in Seq(TrPatches)
      BY <1>1 DEF PlainInvariant, TrTypes
    <3>2. Append(broker.out, patch) \in Seq(TrPatches)
      BY <3>1
    <3> QED
      BY <3>2
  <2>2. broker' = [broker EXCEPT !.log = log, !.out = out, !.waits = waits]
    BY <1>5, <1>6, <2>1 DEF Published
  <2> QED
    BY <1>1, <2>1, <2>2 DEF PlainInvariant, TrTypes
<1>8. TrTypes'
  <2>1. disturbed' \subseteq TrClients
    <3>1. \A i \in DOMAIN conn : conn[i].owner \in TrClients
      <4>1. conn \in Seq(TrConns)
        BY <1>1 DEF PlainInvariant, TrTypes
      <4>2. \A i \in DOMAIN conn : conn[i] \in TrConns
        BY <4>1
      <4> QED
        BY <4>2 DEF TrConns
    <3>2. disturbed \subseteq TrClients /\ Shifted \subseteq DOMAIN conn
      <4>1. Shifted \subseteq DOMAIN conn
        BY DEF Shifted
      <4>2. disturbed \subseteq TrClients
        BY <1>1 DEF PlainInvariant, TrTypes
      <4> QED
        BY <4>1, <4>2
    <3> QED
      BY <3>1, <3>2 DEF Published
  <2> QED
    BY <1>1, <1>3, <1>4, <1>7, <2>1 DEF PlainInvariant, TrTypes
<1>9. KernelHolds'
  BY <1>1, <1>3, <1>4 DEF PlainInvariant, KernelHolds
<1>10. LogHolds'
  <2>1. PICK out \in Seq(TrPatches) : out = broker.out
    BY <1>1 DEF PlainInvariant, TrTypes
  <2>2. /\ \A a, b \in DOMAIN out : a <= b => out[a].rev <= out[b].rev
        /\ \A a \in DOMAIN out : out[a].rev <= kernel.rev /\ out[a].rev \in Nat
        /\ \A a \in DOMAIN out : out[a].rev = 0 => out[a].sets = NoContent
    <3>1. \A a \in DOMAIN out : out[a] \in TrPatches
      OBVIOUS
    <3> QED
      BY <1>1, <2>1, <3>1 DEF PlainInvariant, LogHolds, Sorted, TrPatches
  <2>3. /\ DOMAIN out = 1..Len(out) /\ Len(out) \in Nat /\ DOMAIN broker'.out = 1..(Len(out) + 1)
        /\ broker'.out[Len(out) + 1] = patch /\ \A a \in 1..Len(out) : broker'.out[a] = out[a]
    BY <1>7, <2>1
  <2>4. patch.rev \in Nat /\ patch.rev = 0 => patch.sets = NoContent
    BY <1>3 DEF Publishes
  <2>5. \A a \in DOMAIN broker'.out : broker'.out[a].rev <= patch.rev /\ (broker'.out[a].rev = 0 => broker'.out[a].sets = NoContent)
    BY <1>3, <2>2, <2>3, <2>4
  <2>6. \A a, b \in DOMAIN broker'.out : a <= b => broker'.out[a].rev <= broker'.out[b].rev
    <3> SUFFICES ASSUME NEW a \in DOMAIN broker'.out, NEW b \in DOMAIN broker'.out, a <= b
                 PROVE  broker'.out[a].rev <= broker'.out[b].rev
      OBVIOUS
    <3>1. CASE b = Len(out) + 1
      BY <2>3, <2>5, <3>1
    <3>2. CASE b # Len(out) + 1
      <4>1. a \in DOMAIN out /\ b \in DOMAIN out
        BY <2>3, <3>2
      <4> QED
        BY <2>2, <2>3, <4>1
    <3> QED
      BY <3>1, <3>2
  <2>7. Sorted(broker.out)'
    BY <1>3, <2>5, <2>6 DEF Sorted
  <2>8. Sorted(broker.log)' /\ broker'.log # <<>> /\ broker'.log[Len(broker'.log)].rev = patch.rev
    BY <1>1, <1>3, <1>6, <1>7, LoggedIs DEF Sorted
  <2> QED
    BY <2>5, <2>7, <2>8 DEF LogHolds, LastLogged
<1>11. ConnsKnown'
  <2>1. broker'.out # <<>>
    <3>1. broker.out \in Seq(TrPatches)
      BY <1>1 DEF PlainInvariant, TrTypes
    <3>2. Len(Append(broker.out, patch)) = Len(broker.out) + 1 /\ Len(broker.out) \in Nat
      BY <3>1
    <3> QED
      BY <1>7, <3>2
  <2> QED
    BY <1>1, <1>3, <1>7, <2>1, SMTT(30) DEF PlainInvariant, ConnsKnown, TrTypes
<1> QED
  BY <1>3, <1>4, <1>6, <1>7, <1>8, <1>9, <1>10, <1>11 DEF PlainInvariant

\* A client that the patch does not disturb.
LEMMA PublishedForClients ==
  ASSUME TrInvariant, NEW patch \in TrPatches, Publishes(patch), Published(patch), UNCHANGED <<conn, replica>>,
         NEW c \in TrClients, c \notin disturbed', replica[c].rev >= 0, NEW r \in Nat, r = replica[c].rev
  PROVE  /\ kernel.mutation.by # "torn" /\ c \notin disturbed
         /\ \A s \in Nat \ {0} : (s <= Len(broker.log) + 1 /\ Tells(hist, broker.log, s, r))
                => Tells(hist', Append(broker.log, patch), s, r)
         /\ \A s \in Nat \ {0} : (s <= Len(broker.out) + 1 /\ Tells(hist, broker.out, s, r))
                => Tells(hist', broker'.out, s, r)
         /\ ClientHolds(c)'
<1>1. PlainInvariant /\ TrSafe
  BY DEF TrInvariant, PlainInvariant
<1>2. /\ kernel'.state = kernel.state /\ kernel'.rev = patch.rev /\ patch.rev \in {kernel.rev, kernel.rev + 1}
      /\ hist' \in Seq(TrStates) /\ \A q \in 1..Len(hist) : hist'[q] = hist[q]
      /\ broker'.log = Logged(broker.log, patch) /\ broker'.out = Append(broker.out, patch)
  BY PublishedTyped
<1>3. /\ kernel.rev \in Nat /\ hist \in Seq(TrStates) /\ Len(hist) = kernel.rev + 1 /\ r <= kernel.rev
      /\ kernel.state \in TrStates /\ broker.log \in Seq(TrPatches) /\ broker.out \in Seq(TrPatches)
  BY <1>1 DEF PlainInvariant, TrTypes, ConnsKnown
<1>4. kernel.mutation.by # "torn" /\ c \notin disturbed
  BY DEF Published
<1>5. ClientHolds(c)
  BY <1>1 DEF TrSafe
<1>6. ExactReplica(c) /\ OutIsTrue(r) /\ LogTells(r)
  BY <1>4, <1>5 DEF ClientHolds
<1>7. \A q \in Nat : (1 <= q /\ q <= kernel.rev + 1) => hist'[q] = hist[q]
  <2>1. \A q \in Nat : (1 <= q /\ q <= kernel.rev + 1) => q \in 1..Len(hist)
    BY <1>3
  <2> QED
    BY <1>2, <2>1
<1>8. kernel.mutation.by # "none" => kernel.state = Set(hist[kernel.rev + 1], kernel.mutation.sets)
  BY <1>1, <1>4 DEF PlainInvariant, KernelHolds, TrTypes
<1>9. \/ hist' = hist /\ patch.rev = Len(hist) - 1 /\ patch.sets = NoContent
      \/ /\ hist' = Append(hist, kernel.state) /\ patch.rev = Len(hist)
         /\ kernel.state = Set(hist[Len(hist)], patch.sets) /\ kernel'.rev = kernel.rev + 1
         /\ hist'[kernel.rev + 2] = kernel.state
  BY <1>2, <1>3, <1>8 DEF Publishes
<1>10. ASSUME NEW patches \in Seq(TrPatches), \A l \in DOMAIN patches : patches[l].rev <= kernel.rev,
              NEW s \in Nat \ {0}, s <= Len(patches) + 1, NEW t \in Nat, Tells(hist, patches, s, t)
       PROVE  Tells(hist', Append(patches, patch), s, t)
  <2>1. \A l \in DOMAIN patches : patches[l].rev \in Nat
    <3>1. \A l \in DOMAIN patches : patches[l] \in TrPatches
      OBVIOUS
    <3> QED
      BY <3>1 DEF TrPatches
  <2>2. \A l \in DOMAIN patches : patches[l].rev <= patch.rev /\ patches[l].rev < Len(hist)
    <3>1. patch.rev \in Nat /\ kernel.rev <= patch.rev /\ kernel.rev < Len(hist)
      BY <1>2, <1>3, SMTT(30)
    <3> HIDE <1>9
    <3> QED
      BY <1>3, <1>10, <2>1, <3>1, SMTT(30)
  <2>3. Len(hist) > 0
    BY <1>3
  <2>4. \/ hist' = hist /\ patch.rev = Len(hist) - 1 /\ patch.sets = NoContent
        \/ \E state \in TrStates : /\ hist' = Append(hist, state) /\ patch.rev = Len(hist)
                                   /\ \A l \in DOMAIN patches : patches[l].rev < Len(hist)
                                   /\ t < Len(hist) => state = Set(hist[Len(hist)], patch.sets)
    BY <1>3, <1>9, <2>2
  <2> HIDE <1>9
  <2> QED
    BY <1>3, <1>10, <2>2, <2>3, <2>4, TellsAppended
<1>11. /\ \A l \in DOMAIN broker.log : broker.log[l].rev <= kernel.rev
       /\ \A l \in DOMAIN broker.out : broker.out[l].rev <= kernel.rev
  BY <1>1 DEF PlainInvariant, LogHolds, Sorted
<1>12. ExactReplica(c)'
  <2> SUFFICES ASSUME NEW k \in Keys
               PROVE  replica[c].state[k] \in {hist'[r + 1][k],
                          IF r < kernel'.rev THEN hist'[r + 2][k] ELSE kernel'.state[k]}
    BY DEF ExactReplica
  <2>1. replica[c].state[k] \in {hist[r + 1][k], IF r < kernel.rev THEN hist[r + 2][k] ELSE kernel.state[k]}
    BY <1>6 DEF ExactReplica
  <2>2. hist'[r + 1] = hist[r + 1]
    <3>1. r + 1 \in Nat /\ 1 <= r + 1 /\ r + 1 <= kernel.rev + 1
      BY <1>3
    <3> QED
      BY <1>7, <3>1
  <2>3. CASE r < kernel.rev
    <3>1. r + 2 \in Nat /\ 1 <= r + 2 /\ r + 2 <= kernel.rev + 1 /\ patch.rev >= kernel.rev
      BY <1>2, <1>3, <2>3, SMTT(30)
    <3>2. hist'[r + 2] = hist[r + 2] /\ r < kernel'.rev
      <4>1. hist'[r + 2] = hist[r + 2]
        BY <1>7, <3>1
      <4> QED
        BY <1>2, <1>3, <2>3, <3>1, <4>1, SMTT(30)
    <3> QED
      BY <2>1, <2>2, <2>3, <3>2
  <2>4. CASE r = kernel.rev
    <3>1. r < kernel'.rev => hist'[r + 2] = kernel.state
      BY <1>2, <1>3, <1>9, <2>4
    <3> QED
      BY <1>2, <2>1, <2>2, <2>4, <3>1
  <2> QED
    BY <1>3, <2>3, <2>4
<1>13. OutIsTrue(r)'
  <2> SUFFICES ASSUME NEW j \in DOMAIN broker'.out, broker'.out[j].rev > r, broker'.out[j].sets # NoContent
               PROVE  hist'[broker'.out[j].rev + 1] = Set(hist'[broker'.out[j].rev], broker'.out[j].sets)
    BY DEF OutIsTrue
  <2>1. CASE j \in DOMAIN broker.out
    <3>1. broker'.out[j] = broker.out[j]
      BY <1>2, <1>3, <2>1
    <3>2. PICK p \in TrPatches : p = broker.out[j]
      BY <1>3, <2>1
    <3>3. p.rev \in Nat /\ p.rev > r /\ p.rev <= kernel.rev /\ p.sets # NoContent
      BY <1>11, <2>1, <3>1, <3>2 DEF TrPatches
    <3>4. hist[p.rev + 1] = Set(hist[p.rev], p.sets)
      BY <1>6, <2>1, <3>2, <3>3 DEF OutIsTrue
    <3>5. hist'[p.rev + 1] = hist[p.rev + 1] /\ hist'[p.rev] = hist[p.rev]
      <4>1. p.rev + 1 \in Nat /\ p.rev + 1 <= kernel.rev + 1 /\ 1 <= p.rev /\ p.rev <= kernel.rev + 1
        BY <1>3, <3>3
      <4> QED
        BY <1>7, <3>3, <4>1
    <3> QED
      BY <3>1, <3>2, <3>4, <3>5
  <2>2. CASE j \notin DOMAIN broker.out
    <3>1. broker'.out[j] = patch
      BY <1>2, <1>3, <2>2
    <3>2. hist'[Len(hist)] = hist[Len(hist)]
      BY <1>2, <1>3
    <3> QED
      BY <1>3, <1>9, <3>1, <3>2
  <2> QED
    BY <2>1, <2>2
<1>14. ASSUME NEW t \in Nat, t >= r, t >= broker'.log[1].rev PROVE Tells(hist', broker'.log, 1, t)
  <2>1. broker.baselined /\ broker.log # <<>>
    BY <1>1 DEF PlainInvariant, LogHolds, ConnsKnown
  <2>2. Len(broker.log) \in Nat \ {0} /\ DOMAIN broker.log = 1..Len(broker.log) /\ MaxLog \in Nat \ {0}
    BY <1>3, <2>1, TrAssumption
  <2>3. \A a, b \in DOMAIN broker.log : a <= b => broker.log[a].rev <= broker.log[b].rev
    BY <1>1 DEF PlainInvariant, LogHolds, Sorted
  <2>4. \A l \in DOMAIN broker.log : broker.log[l].rev \in Nat
    <3>1. \A l \in DOMAIN broker.log : broker.log[l] \in TrPatches
      BY <1>3
    <3> QED
      BY <3>1 DEF TrPatches
  <2>5. CASE Len(broker.log) < MaxLog
    <3>1. broker'.log = Append(broker.log, patch)
      BY <1>1, <1>2, <2>5, LoggedIs
    <3>2. broker'.log[1] = broker.log[1]
      BY <1>3, <2>2, <3>1
    <3>3. Tells(hist, broker.log, 1, t)
      BY <1>6, <1>14, <3>2 DEF LogTells
    <3>4. 1 <= Len(broker.log) + 1 /\ 1 \in Nat \ {0}
      BY <2>2
    <3> QED
      BY <1>3, <1>10, <1>11, <3>1, <3>3, <3>4
  <2>6. CASE Len(broker.log) >= MaxLog
    <3>1. broker'.log = Append(Tail(broker.log), patch)
      BY <1>1, <1>2, <2>6, LoggedIs
    <3>9. PICK log \in Seq(TrPatches) : log = broker.log
      BY <1>3
    <3>10. log # <<>>
      BY <2>1, <3>9
    <3>2. PICK old \in Seq(TrPatches) : old = Tail(broker.log)
      <4>1. Tail(log) \in Seq(TrPatches)
        BY <3>10
      <4> QED
        BY <3>9, <4>1
    <3>3. Len(old) = Len(broker.log) - 1 /\ \A a \in DOMAIN old : a + 1 \in DOMAIN broker.log /\ old[a] = broker.log[a + 1]
      BY <3>2, <3>9, <3>10
    <3>4. t >= broker.log[1].rev
      <4>1. CASE Len(old) = 0
        <5>1. broker'.log[1] = patch
          BY <3>1, <3>2, <4>1
        <5>2. patch.rev >= kernel.rev /\ t >= patch.rev
          BY <1>2, <1>3, <1>14, <5>1
        <5>3. broker.log[1].rev \in Nat /\ broker.log[1].rev <= kernel.rev
          BY <1>11, <2>2, <2>4
        <5> QED
          BY <1>2, <1>3, <1>14, <5>2, <5>3, SMTT(30)
      <4>2. CASE Len(old) # 0
        <5>0. Len(old) \in Nat /\ DOMAIN old = 1..Len(old)
          OBVIOUS
        <5>1. 1 \in DOMAIN old /\ Len(old) \in Nat
          BY <4>2, <5>0
        <5>2. broker'.log[1] = old[1]
          BY <3>1, <3>2, <5>1
        <5>3. broker'.log[1] = broker.log[2] /\ 1 \in DOMAIN broker.log /\ 2 \in DOMAIN broker.log
          BY <2>2, <3>3, <5>1, <5>2
        <5> QED
          BY <1>14, <2>3, <2>4, <5>3
      <4> QED
        BY <4>1, <4>2
    <3>5. Tells(hist, broker.log, 1, t)
      BY <1>6, <1>14, <3>4 DEF LogTells
    <3>6. Tells(hist, broker.log, 2, t)
      <4>1. \A l \in 1..Len(broker.log) : l < 2 => broker.log[l].rev <= t
        BY <2>4, <3>4
      <4> QED
        <5>1. Len(hist) \in Nat /\ Tells(hist, log, 1, t) /\ \A l \in 1..Len(log) : l < 2 => log[l].rev <= t
          BY <1>3, <3>5, <3>9, <4>1
        <5>2. Tells(hist, log, 2, t)
          <6>1. 1 \in Nat /\ 2 \in Nat /\ 1 <= 2
            OBVIOUS
          <6> QED
            BY <5>1, <6>1, TellsOn
        <5> QED
          BY <3>9, <5>2
    <3>7. Tells(hist, old, 1, t)
      <4>1. Len(hist) \in Nat /\ Tells(hist, log, 2, t)
        BY <1>3, <3>6, <3>9
      <4>2. Tells(hist, Tail(log), 2 - 1, t)
        BY <3>10, <4>1, TellsInTail
      <4> QED
        BY <3>2, <3>9, <4>2
    <3>8. \A l \in DOMAIN old : old[l].rev <= kernel.rev
      BY <1>11, <3>3
    <3> QED
      <4>1. 1 <= Len(old) + 1 /\ 1 \in Nat \ {0}
        BY <3>2
      <4> QED
        BY <1>10, <3>1, <3>2, <3>7, <3>8, <4>1
  <2> QED
    BY <2>2, <2>5, <2>6
<1> QED
  BY <1>2, <1>3, <1>4, <1>10, <1>11, <1>12, <1>13, <1>14 DEF ClientHolds, LogTells

\* A connection of a client that the patch does not disturb.
LEMMA PublishedForConns ==
  ASSUME TrInvariant, NEW patch \in TrPatches, Publishes(patch), Published(patch), UNCHANGED <<conn, replica>>,
         NEW i \in DOMAIN conn, conn[i].up, conn[i].owner \notin disturbed'
  PROVE  ConnHolds(i)'
<1>1. PlainInvariant /\ TrSafe
  BY DEF TrInvariant, PlainInvariant
<1>2. /\ kernel'.rev = patch.rev /\ patch.rev \in {kernel.rev, kernel.rev + 1}
      /\ broker'.log = Logged(broker.log, patch) /\ broker'.out = Append(broker.out, patch)
      /\ broker'.served = broker.served
  BY PublishedTyped
<1>3. /\ kernel.rev \in Nat /\ hist \in Seq(TrStates) /\ Len(hist) = kernel.rev + 1
      /\ broker.log \in Seq(TrPatches) /\ broker.out \in Seq(TrPatches) /\ conn \in Seq(TrConns)
      /\ replica \in [TrClients -> [rev : Int, state : TrStates]]
  BY <1>1 DEF PlainInvariant, TrTypes
<1>4. conn[i] \in TrConns /\ conn[i].owner \in TrClients /\ conn[i].next \in Nat
  <2>1. conn[i] \in TrConns
    BY <1>3
  <2> QED
    BY <2>1 DEF TrConns
<1>5. PICK c \in TrClients : c = conn[i].owner
  BY <1>4
<1>6. c \notin disturbed /\ c \notin disturbed' /\ i \notin Shifted
  BY <1>5 DEF Published
<1>7. ConnHolds(i)
  BY <1>1, <1>5, <1>6 DEF TrSafe
<1>8. Replica(i)' = Replica(i) /\ Replica(i) = replica[c] /\ Pending(i)' = Pending(i)
  BY <1>2, <1>5 DEF Replica, Pending
<1>9. CASE ~(replica[c].rev >= 0)
  <2>1. conn[i].phase \notin {"open", "replay"}
    BY <1>7, <1>8, <1>9 DEF ConnHolds
  <2> QED
    BY <1>7, <1>8, <2>1 DEF ConnHolds
<1>10. CASE replica[c].rev >= 0
  <2>1. PICK r \in Nat : r = replica[c].rev
    BY <1>3, <1>10
  <2>2. /\ \A s \in Nat \ {0} : (s <= Len(broker.log) + 1 /\ Tells(hist, broker.log, s, r))
               => Tells(hist', Append(broker.log, patch), s, r)
        /\ \A s \in Nat \ {0} : (s <= Len(broker.out) + 1 /\ Tells(hist, broker.out, s, r))
               => Tells(hist', broker'.out, s, r)
    BY <1>6, <1>10, <2>1, PublishedForClients
  <2>3. Len(broker.out) \in Nat /\ Len(broker.log) \in Nat /\ MaxLog \in Nat \ {0}
    BY <1>3, TrAssumption
  <2>4. Pending(i) \in Nat \ {0} /\ Pending(i) <= Len(broker.out) + 1
    <3>1. CASE i \in broker.served
      <4>1. broker.out # <<>>
        BY <1>1, <3>1 DEF PlainInvariant, ConnsKnown
      <4>2. Len(broker.out) >= 1
        BY <1>3, <4>1
      <4> QED
        BY <2>3, <3>1, <4>2 DEF Pending
    <3>2. CASE i \notin broker.served
      BY <2>3, <3>2 DEF Pending
    <3> QED
      BY <3>1, <3>2
  <2>5. /\ broker'.out[Len(broker.out) + 1] = patch /\ Len(broker'.out) = Len(broker.out) + 1
    BY <1>2, <1>3
  <2>6. LastLogged' = patch.rev
    BY <1>1, <1>2, LoggedIs DEF LastLogged
  <2>7. patch.rev \in Nat
    BY DEF TrPatches
  <2>8. ASSUME Tells(hist, broker.out, Pending(i), r) PROVE OutLeads(i)'
    <3>1. Tells(hist', broker'.out, Pending(i), r)
      BY <2>2, <2>4, <2>8
    <3>2. Len(broker.out) + 1 \in Pending(i)..Len(broker'.out)
      BY <2>3, <2>4, <2>5
    <3>3. \E j \in Pending(i)..Len(broker'.out) : broker'.out[j].rev >= patch.rev
      BY <2>5, <2>7, <3>2
    <3> QED
      BY <1>8, <2>1, <2>6, <3>1, <3>3 DEF OutLeads
  <2>9. CASE conn[i].phase = "open"
    <3>1. Tells(hist, broker.out, Pending(i), r)
      BY <1>7, <1>8, <2>1, <2>9 DEF ConnHolds, OutLeads
    <3> QED
      BY <1>7, <1>8, <2>8, <2>9, <3>1 DEF ConnHolds
  <2>10. CASE conn[i].phase = "replay"
    <3>1. /\ conn[i].phase # "failed" /\ conn[i].next >= 1 /\ conn[i].next <= Len(broker.log) + 1
          /\ r >= 0 /\ conn[i].from >= 0 /\ r >= conn[i].from
          /\ \/ LogLeads(i)
             \/ conn[i].next > Len(broker.log) /\ Len(broker.log) >= MaxLog /\ OutLeads(i)
      BY <1>7, <1>8, <2>1, <2>10 DEF ConnHolds
    <3>2. conn[i].next \in Nat \ {0}
      BY <1>4, <3>1
    <3>3. CASE Len(broker.log) < MaxLog
      <4>1. Len(broker'.log) = Len(broker.log) + 1 /\ broker'.log = Append(broker.log, patch)
        BY <1>1, <1>2, <3>3, LoggedIs
      <4>2. LogLeads(i)
        BY <2>3, <3>1, <3>3
      <4>3. Tells(hist, broker.log, conn[i].next, r) /\ \A l \in DOMAIN broker.log : l < conn[i].next => broker.log[l].rev <= r
        BY <1>8, <2>1, <4>2 DEF LogLeads
      <4>4. Tells(hist', broker'.log, conn[i].next, r)
        BY <2>2, <3>1, <3>2, <4>1, <4>3
      <4>5. \A l \in DOMAIN broker'.log : l < conn[i].next => broker'.log[l].rev <= r
        <5> SUFFICES ASSUME NEW l \in DOMAIN broker'.log, l < conn[i].next PROVE broker'.log[l].rev <= r
          OBVIOUS
        <5>1. l \in DOMAIN broker.log /\ broker'.log[l] = broker.log[l]
          BY <1>3, <2>3, <3>1, <3>2, <4>1, SMTT(30)
        <5> QED
          BY <4>3, <5>1
      <4>6. LogLeads(i)'
        BY <1>8, <2>1, <4>4, <4>5 DEF LogLeads
      <4>7. conn[i].next <= Len(broker'.log) + 1
        BY <2>3, <3>1, <3>2, <4>1
      <4> QED
        BY <1>8, <2>1, <2>10, <3>1, <4>6, <4>7 DEF ConnHolds
    <3>4. CASE Len(broker.log) >= MaxLog
      <4>1. Len(broker'.log) = Len(broker.log)
        BY <1>1, <1>2, <3>4, LoggedIs
      <4>2. conn[i].next > Len(broker.log)
        BY <1>4, <1>6, <2>3, <2>10, <3>4 DEF Shifted
      <4>3. Tells(hist, broker.out, Pending(i), r)
        <5>1. CASE OutLeads(i)
          BY <1>8, <2>1, <5>1 DEF OutLeads
        <5>2. CASE LogLeads(i)
          <6>1. Tells(hist, broker.log, conn[i].next, r) /\ \A l \in DOMAIN broker.log : l < conn[i].next => broker.log[l].rev <= r
            BY <1>8, <2>1, <5>2 DEF LogLeads
          <6>2. \A l \in DOMAIN broker.log : l < conn[i].next
            BY <1>3, <2>3, <3>2, <4>2
          <6>3. \A l \in DOMAIN broker.log : broker.log[l].rev <= r
            BY <6>1, <6>2
          <6>4. LastLogged <= r /\ LastLogged \in Nat
            <7>1. Len(broker.log) \in DOMAIN broker.log
              BY <1>3, <2>3, <3>4
            <7>2. broker.log[Len(broker.log)] \in TrPatches
              BY <1>3, <7>1
            <7> QED
              BY <6>3, <7>1, <7>2 DEF LastLogged, TrPatches
          <6>5. \A j \in DOMAIN broker.out : broker.out[j].rev <= r
            <7>1. \A j \in DOMAIN broker.out : broker.out[j] \in TrPatches
              BY <1>3
            <7>2. \A j \in DOMAIN broker.out : broker.out[j].rev <= LastLogged
              BY <1>1 DEF PlainInvariant, LogHolds
            <7>3. \A j \in DOMAIN broker.out : broker.out[j].rev \in Nat
              BY <7>1 DEF TrPatches
            <7> QED
              BY <6>4, <7>2, <7>3
          <6>6. Len(hist) \in Nat
            BY <1>3
          <6> QED
            BY <1>3, <2>4, <3>2, <6>1, <6>3, <6>5, <6>6, TellsNothing
        <5> QED
          BY <3>1, <5>1, <5>2
      <4>4. OutLeads(i)'
        BY <2>8, <4>3
      <4>5. conn[i].next <= Len(broker'.log) + 1 /\ conn[i].next > Len(broker'.log) /\ Len(broker'.log) >= MaxLog
        BY <3>1, <3>4, <4>1, <4>2
      <4> QED
        BY <1>8, <2>1, <2>10, <3>1, <4>4, <4>5 DEF ConnHolds
    <3> QED
      BY <2>3, <3>3, <3>4
  <2>11. CASE conn[i].phase \notin {"open", "replay"}
    BY <1>7, <1>8, <2>11 DEF ConnHolds
  <2> QED
    BY <2>9, <2>10, <2>11
<1> QED
  BY <1>9, <1>10

\* Publishing a patch keeps the invariant.
LEMMA PublishedKeeps ==
  ASSUME TrInvariant, NEW patch \in TrPatches, Publishes(patch), Published(patch), UNCHANGED <<conn, replica>>
  PROVE  TrInvariant'
<1>1. PlainInvariant'
  BY PublishedTyped
<1>2. \A c \in TrClients : ClientHolds(c)'
  <2> SUFFICES ASSUME NEW c \in TrClients, c \notin disturbed', replica[c].rev >= 0 PROVE ClientHolds(c)'
    BY DEF ClientHolds
  <2>1. PICK r \in Nat : r = replica[c].rev
    BY DEF TrInvariant, TrTypes
  <2> QED
    BY <2>1, PublishedForClients
<1>3. \A i \in DOMAIN conn : (conn[i].up /\ conn[i].owner \notin disturbed') => ConnHolds(i)'
  BY PublishedForConns
<1> QED
  BY <1>1, <1>2, <1>3 DEF TrInvariant, PlainInvariant, TrSafe

\* Committing a mutation, with something to tell or nothing, keeps the invariant.
LEMMA CommitKeeps == ASSUME TrInvariant, CommitPatch \/ SyncNothing PROVE TrInvariant'
<1>1. kernel.rev \in Nat /\ kernel.mutation.sets \in TrSets
  BY DEF TrInvariant, TrTypes
<1>2. CASE CommitPatch
  <2>1. PICK patch \in TrPatches : /\ patch = [rev |-> kernel.rev + 1, sets |-> kernel.mutation.sets]
                                   /\ patch.rev = kernel.rev + 1 /\ patch.sets = kernel.mutation.sets
    <3>1. [rev |-> kernel.rev + 1, sets |-> kernel.mutation.sets] \in TrPatches
      BY <1>1 DEF TrPatches
    <3> QED
      BY <3>1
  <2>2. Publishes(patch) /\ Published(patch) /\ UNCHANGED <<conn, replica>>
    BY <1>2, <2>1 DEF CommitPatch, Publishes
  <2> QED
    BY <2>2, PublishedKeeps
<1>3. CASE SyncNothing
  <2>1. PICK patch \in TrPatches : /\ patch = [rev |-> kernel.rev, sets |-> NoContent]
                                   /\ patch.rev = kernel.rev /\ patch.sets = NoContent
    <3>1. [rev |-> kernel.rev, sets |-> NoContent] \in TrPatches
      BY <1>1, NoContentIs DEF TrPatches
    <3> QED
      BY <3>1
  <2>2. Publishes(patch) /\ Published(patch) /\ UNCHANGED <<conn, replica>>
    BY <1>3, <2>1 DEF SyncNothing, Publishes
  <2> QED
    BY <2>2, PublishedKeeps
<1> QED
  BY <1>2, <1>3

(***************************************************************************)
(* A revision without a patch, and a mutation that throws.                 *)
(***************************************************************************)
LEMMA TellsQuietly ==
  ASSUME NEW h \in Seq(TrStates), Len(h) > 0, NEW patches \in Seq(TrPatches), NEW s \in Nat \ {0}, NEW r \in Nat,
         \A l \in DOMAIN patches : patches[l].rev < Len(h), Tells(h, patches, s, r)
  PROVE  Tells(Append(h, h[Len(h)]), patches, s, r)
<1> DEFINE g == Append(h, h[Len(h)])
<1>1. /\ Len(g) = Len(h) + 1 /\ g[Len(h) + 1] = h[Len(h)] /\ \A q \in 1..Len(h) : g[q] = h[q]
      /\ Len(h) \in Nat
  OBVIOUS
<1> HIDE DEF g
<1> SUFFICES ASSUME NEW q \in 0..Len(g), r < q, q < Len(g) PROVE Told(g, patches, s, q)
  BY DEF Tells, g
<1>2. CASE q = Len(h)
  <2>1. \A j \in s..Len(patches) : j \in DOMAIN patches
    OBVIOUS
  <2>2. Silent(patches, s, q)
    <3>1. \A l \in DOMAIN patches : patches[l] \in TrPatches
      OBVIOUS
    <3>2. \A l \in DOMAIN patches : patches[l].rev \in Nat
      BY <3>1 DEF TrPatches
    <3> QED
      BY <1>1, <1>2, <2>1, <3>2 DEF Silent
  <2>3. g[q + 1] = g[q]
    BY <1>1, <1>2
  <2> QED
    BY <2>2, <2>3 DEF Told
<1>3. CASE q # Len(h)
  <2>1. q \in 0..Len(h) /\ q < Len(h)
    BY <1>1, <1>3
  <2>2. Told(h, patches, s, q)
    BY <2>1 DEF Tells
  <2>3. g[q] = h[q] /\ g[q + 1] = h[q + 1]
    BY <1>1, <2>1
  <2> QED
    BY <2>2, <2>3 DEF Told
<1> QED
  BY <1>2, <1>3

\* A mutation that is committed without a patch keeps the invariant.
LEMMA QuietKeeps == ASSUME TrInvariant, CommitQuietly PROVE TrInvariant'
<1>1. PlainInvariant /\ TrSafe
  BY DEF TrInvariant, PlainInvariant
<1>2. /\ kernel.rev \in Nat /\ hist \in Seq(TrStates) /\ Len(hist) = kernel.rev + 1 /\ kernel.state \in TrStates
      /\ broker.log \in Seq(TrPatches) /\ broker.out \in Seq(TrPatches) /\ conn \in Seq(TrConns)
      /\ replica \in [TrClients -> [rev : Int, state : TrStates]]
      /\ HasProgram(kernel.state) /\ \A q \in DOMAIN hist : HasProgram(hist[q])
  BY <1>1 DEF PlainInvariant, TrTypes, KernelHolds
<1>3. /\ kernel.mutation.by = "none" /\ kernel.state = hist[Len(hist)]
      /\ hist' = Append(hist, hist[Len(hist)]) /\ UNCHANGED <<broker, conn, replica, disturbed>>
  BY <1>1, <1>2 DEF CommitQuietly, PlainInvariant, KernelHolds
<1>4. /\ kernel' \in [rev : Nat, state : TrStates, saved : TrStates,
                      mutation : [by : {"none", "host", "direct", "torn"}, sets : TrSets]]
      /\ kernel'.rev = kernel.rev + 1 /\ kernel'.state = kernel.state /\ kernel'.saved = kernel.saved
      /\ kernel'.mutation = kernel.mutation
  <2>1. PICK rev \in Nat : rev = kernel.rev + 1
    BY <1>2
  <2>2. kernel' = [kernel EXCEPT !.rev = rev]
    BY <2>1 DEF CommitQuietly
  <2> QED
    BY <1>1, <2>1, <2>2 DEF PlainInvariant, TrTypes
<1>5. /\ hist' \in Seq(TrStates) /\ Len(hist') = kernel.rev + 2 /\ hist'[kernel.rev + 2] = kernel.state
      /\ \A q \in 1..(kernel.rev + 1) : hist'[q] = hist[q]
      /\ \A q \in DOMAIN hist' : HasProgram(hist'[q])
  BY <1>2, <1>3
<1>6. TrTypes' /\ KernelHolds' /\ LogHolds' /\ ConnsKnown'
  <2>1. TrTypes'
    BY <1>1, <1>2, <1>3, <1>4, <1>5 DEF PlainInvariant, TrTypes
  <2>2. KernelHolds'
    BY <1>1, <1>2, <1>3, <1>4, <1>5 DEF PlainInvariant, KernelHolds
  <2>3. LogHolds'
    <3>1. Sorted(broker.log)' /\ Sorted(broker.out)'
      <4>1. \A l \in DOMAIN broker.log : broker.log[l] \in TrPatches
        BY <1>2
      <4>2. \A l \in DOMAIN broker.out : broker.out[l] \in TrPatches
        BY <1>2
      <4>3. /\ \A l \in DOMAIN broker.log : broker.log[l].rev \in Nat /\ broker.log[l].rev <= kernel.rev
            /\ \A l \in DOMAIN broker.out : broker.out[l].rev \in Nat /\ broker.out[l].rev <= kernel.rev
        BY <1>1, <4>1, <4>2 DEF PlainInvariant, LogHolds, Sorted, TrPatches
      <4>4. /\ \A l \in DOMAIN broker.log : broker.log[l].rev <= kernel.rev + 1
            /\ \A l \in DOMAIN broker.out : broker.out[l].rev <= kernel.rev + 1
        BY <1>2, <4>3
      <4> QED
        BY <1>1, <1>3, <1>4, <4>4 DEF PlainInvariant, LogHolds, Sorted
    <3> QED
      BY <1>1, <1>3, <3>1 DEF PlainInvariant, LogHolds, LastLogged
  <2>4. ConnsKnown'
    BY <1>1, <1>2, <1>3, <1>4 DEF PlainInvariant, ConnsKnown
  <2> QED
    BY <2>1, <2>2, <2>3, <2>4
<1>7. ASSUME NEW patches \in Seq(TrPatches), \A l \in DOMAIN patches : patches[l].rev <= kernel.rev,
             NEW s \in Nat \ {0}, NEW r \in Nat, Tells(hist, patches, s, r)
      PROVE  Tells(hist', patches, s, r)
  <2>1. \A l \in DOMAIN patches : patches[l] \in TrPatches
    OBVIOUS
  <2>2. \A l \in DOMAIN patches : patches[l].rev < Len(hist)
    BY <1>2, <1>7, <2>1 DEF TrPatches
  <2>3. Len(hist) > 0
    BY <1>2
  <2> QED
    BY <1>2, <1>3, <1>7, <2>2, <2>3, TellsQuietly
<1>8. /\ \A l \in DOMAIN broker.log : broker.log[l].rev <= kernel.rev
      /\ \A l \in DOMAIN broker.out : broker.out[l].rev <= kernel.rev
  BY <1>1 DEF PlainInvariant, LogHolds, Sorted
<1>9. ASSUME NEW c \in TrClients, c \notin disturbed, replica[c].rev >= 0 PROVE ClientHolds(c)'
  <2>1. PICK r \in Nat : r = replica[c].rev /\ r <= kernel.rev
    BY <1>1, <1>2, <1>9 DEF PlainInvariant, ConnsKnown
  <2>2. ExactReplica(c) /\ OutIsTrue(r) /\ LogTells(r)
    BY <1>1, <1>9, <2>1 DEF TrSafe, ClientHolds
  <2>3. ExactReplica(c)'
    <3> SUFFICES ASSUME NEW k \in Keys
                 PROVE  replica[c].state[k] \in {hist'[r + 1][k],
                            IF r < kernel'.rev THEN hist'[r + 2][k] ELSE kernel'.state[k]}
      BY <1>3, <2>1 DEF ExactReplica
    <3>1. replica[c].state[k] \in {hist[r + 1][k], IF r < kernel.rev THEN hist[r + 2][k] ELSE kernel.state[k]}
      BY <2>1, <2>2 DEF ExactReplica
    <3>2. r + 1 \in 1..(kernel.rev + 1) /\ r < kernel'.rev
      BY <1>2, <1>4, <2>1
    <3>3. hist'[r + 1] = hist[r + 1]
      BY <1>5, <3>2
    <3>4. CASE r < kernel.rev
      <4>1. r + 2 \in 1..(kernel.rev + 1)
        BY <1>2, <3>4
      <4>2. hist'[r + 2] = hist[r + 2]
        BY <1>5, <4>1
      <4> QED
        BY <3>1, <3>2, <3>3, <3>4, <4>2
    <3>5. CASE r = kernel.rev
      BY <1>5, <3>1, <3>2, <3>3, <3>5
    <3> QED
      BY <1>2, <2>1, <3>4, <3>5
  <2>4. OutIsTrue(r)'
    <3> SUFFICES ASSUME NEW j \in DOMAIN broker.out, broker.out[j].rev > r, broker.out[j].sets # NoContent
                 PROVE  hist'[broker.out[j].rev + 1] = Set(hist'[broker.out[j].rev], broker.out[j].sets)
      BY <1>3 DEF OutIsTrue
    <3>1. PICK p \in TrPatches : p = broker.out[j]
      BY <1>2
    <3>2. p.rev \in Nat /\ p.rev > r /\ p.rev <= kernel.rev
      BY <1>8, <3>1 DEF TrPatches
    <3>3. p.rev \in 1..(kernel.rev + 1) /\ p.rev + 1 \in 1..(kernel.rev + 1)
      BY <1>2, <3>2
    <3>4. hist'[p.rev] = hist[p.rev] /\ hist'[p.rev + 1] = hist[p.rev + 1]
      BY <1>5, <3>3
    <3> QED
      BY <2>2, <3>1, <3>4 DEF OutIsTrue
  <2>5. LogTells(r)'
    <3> SUFFICES ASSUME NEW t \in Nat, t >= r, t >= broker.log[1].rev PROVE Tells(hist', broker.log, 1, t)
      BY <1>3 DEF LogTells
    <3>1. 1 \in Nat \ {0} /\ Tells(hist, broker.log, 1, t)
      BY <2>2 DEF LogTells
    <3> QED
      BY <1>2, <1>7, <1>8, <3>1
  <2> QED
    BY <1>3, <2>1, <2>3, <2>4, <2>5 DEF ClientHolds
<1>10. ASSUME NEW i \in DOMAIN conn, conn[i].up, conn[i].owner \notin disturbed PROVE ConnHolds(i)'
  <2>1. ConnHolds(i)
    BY <1>1, <1>10 DEF TrSafe
  <2>2. conn[i] \in TrConns
    BY <1>2
  <2>3. conn[i].owner \in TrClients /\ conn[i].next \in Nat
    BY <2>2 DEF TrConns
  <2>4. Replica(i).rev \in Int
    BY <1>2, <2>3 DEF Replica
  <2>5. Pending(i) \in Nat \ {0}
    BY DEF Pending
  <2>6. (Replica(i).rev >= 0 /\ OutLeads(i)) => OutLeads(i)'
    <3>1. ASSUME Replica(i).rev >= 0, Tells(hist, broker.out, Pending(i), Replica(i).rev)
          PROVE  Tells(hist', broker.out, Pending(i), Replica(i).rev)
      <4>1. PICK r \in Nat : r = Replica(i).rev
        BY <2>4, <3>1
      <4>2. PICK s \in Nat \ {0} : s = Pending(i)
        BY <2>5
      <4>3. Tells(hist', broker.out, s, r)
        BY <1>2, <1>7, <1>8, <3>1, <4>1, <4>2
      <4> QED
        BY <4>1, <4>2, <4>3
    <3> QED
      BY <1>3, <3>1 DEF OutLeads, Pending, Replica, LastLogged
  <2>7. (Replica(i).rev >= 0 /\ conn[i].next >= 1 /\ LogLeads(i)) => LogLeads(i)'
    <3>1. ASSUME Replica(i).rev >= 0, conn[i].next >= 1, Tells(hist, broker.log, conn[i].next, Replica(i).rev)
          PROVE  Tells(hist', broker.log, conn[i].next, Replica(i).rev)
      <4>1. PICK r \in Nat : r = Replica(i).rev
        BY <2>4, <3>1
      <4>2. PICK s \in Nat \ {0} : s = conn[i].next
        BY <2>3, <3>1
      <4>3. Tells(hist', broker.log, s, r)
        BY <1>2, <1>7, <1>8, <3>1, <4>1, <4>2
      <4> QED
        BY <4>1, <4>2, <4>3
    <3> QED
      BY <1>3, <3>1 DEF LogLeads, Replica
  <2> QED
    BY <1>3, <2>1, <2>6, <2>7 DEF ConnHolds, Replica
<1>11. TrSafe'
  <2>1. \A c \in TrClients : ClientHolds(c)'
    BY <1>3, <1>9 DEF ClientHolds
  <2> QED
    BY <1>3, <1>10, <2>1 DEF TrSafe
<1> QED
  BY <1>6, <1>11 DEF TrInvariant

\* A mutation that throws keeps the invariant: what it wrote stays torn until it is told.
LEMMA ThrowKeeps == ASSUME TrInvariant, MutationThrows PROVE TrInvariant'
<1>1. PlainInvariant
  BY DEF TrInvariant, PlainInvariant
<1>2. /\ kernel.rev \in Nat /\ hist \in Seq(TrStates) /\ Len(hist) = kernel.rev + 1 /\ kernel.state \in TrStates
      /\ HasProgram(kernel.state) /\ \A q \in DOMAIN hist : HasProgram(hist[q]) /\ conn \in Seq(TrConns)
  BY <1>1 DEF PlainInvariant, TrTypes, KernelHolds
<1>3. PICK none \in [by : {"none", "host", "direct", "torn"}, sets : TrSets] : none = NoneUnderWay /\ none.by = "none"
  <2>1. NoneUnderWay \in [by : {"none", "host", "direct", "torn"}, sets : TrSets] /\ NoneUnderWay.by = "none"
    BY NoContentIs DEF NoneUnderWay
  <2> QED
    BY <2>1
<1>4. /\ kernel' \in [rev : Nat, state : TrStates, saved : TrStates,
                      mutation : [by : {"none", "host", "direct", "torn"}, sets : TrSets]]
      /\ kernel'.rev = kernel.rev /\ kernel'.state = kernel.state /\ kernel'.saved = kernel.saved
      /\ kernel'.mutation.by = "none"
  <2>1. kernel' = [kernel EXCEPT !.mutation = none]
    BY <1>3 DEF MutationThrows
  <2> QED
    BY <1>1, <1>3, <2>1 DEF PlainInvariant, TrTypes
<1>5. /\ hist' \in Seq(TrStates) /\ Len(hist') = kernel.rev + 1 /\ hist'[kernel.rev + 1] = kernel.state
      /\ \A q \in DOMAIN hist' : HasProgram(hist'[q])
  BY <1>2 DEF MutationThrows
<1>6. /\ broker' \in [log : Seq(TrPatches), baselined : BOOLEAN, poisoned : BOOLEAN, waits : Nat,
                      out : Seq(TrPatches), served : SUBSET Nat, conns : SUBSET Nat]
      /\ broker'.log = broker.log /\ broker'.out = broker.out /\ broker'.served = broker.served
      /\ broker'.conns = broker.conns /\ broker'.baselined = broker.baselined
  <2>1. PICK poisoned \in BOOLEAN : poisoned = (broker.poisoned \/ kernel.mutation.by = "host")
    OBVIOUS
  <2>2. broker' = [broker EXCEPT !.poisoned = poisoned]
    BY <2>1 DEF MutationThrows
  <2> QED
    BY <1>1, <2>2 DEF PlainInvariant, TrTypes
<1>7. disturbed' = TrClients /\ conn' = conn /\ replica' = replica
  BY DEF MutationThrows
<1>8. TrTypes'
  BY <1>1, <1>4, <1>5, <1>6, <1>7 DEF PlainInvariant, TrTypes
<1>9. KernelHolds'
  BY <1>1, <1>4, <1>5 DEF PlainInvariant, KernelHolds
<1>10. LogHolds' /\ ConnsKnown'
  BY <1>1, <1>4, <1>6, <1>7 DEF PlainInvariant, LogHolds, Sorted, LastLogged, ConnsKnown
<1>11. TrSafe'
  <2>1. \A i \in DOMAIN conn : conn[i] \in TrConns
    BY <1>2
  <2>2. \A i \in DOMAIN conn : conn[i].owner \in TrClients
    BY <2>1 DEF TrConns
  <2> QED
    BY <1>7, <2>2 DEF TrSafe, ClientHolds
<1> QED
  BY <1>8, <1>9, <1>10, <1>11 DEF TrInvariant

(***************************************************************************)
(* A step of one connection.                                               *)
(***************************************************************************)
BrokerRecords == [log : Seq(TrPatches), baselined : BOOLEAN, poisoned : BOOLEAN, waits : Nat,
                  out : Seq(TrPatches), served : SUBSET Nat, conns : SUBSET Nat]
ReplicaFits(held) == held \in [rev : Int, state : TrStates] /\ held.rev >= -1 /\ held.rev <= kernel.rev

\* A step of one connection that received what fits keeps the invariant.
LEMMA ConnSteps ==
  ASSUME TrInvariant, NEW i \in DOMAIN conn, NEW c \in TrClients, c = conn[i].owner,
         NEW record \in TrConns, record.owner = c, record.phase = "replay" => record.next >= 1,
         record.up => conn[i].up, conn' = [conn EXCEPT ![i] = record],
         NEW held, ReplicaFits(held), Received(i, held), UNCHANGED <<kernel, hist>>,
         broker' \in BrokerRecords, broker'.log = broker.log, broker'.out = broker.out,
         broker'.baselined = broker.baselined, broker'.served \cup broker'.conns \subseteq DOMAIN conn,
         broker.out = <<>> => broker'.served = {},
         \A j \in DOMAIN conn : j # i => (j \in broker'.served <=> j \in broker.served),
         \A j \in DOMAIN conn : j # i => (j \in broker.conns => j \in broker'.conns),
         record.up => i \in broker'.conns,
         disturbed \subseteq disturbed', disturbed' \subseteq TrClients,
         (conn[i].up /\ c \notin disturbed') => ClientHolds(c)',
         (record.up /\ c \notin disturbed') => ConnHolds(i)'
  PROVE  TrInvariant'
<1>1. PlainInvariant /\ TrSafe
  BY DEF TrInvariant, PlainInvariant
<1>2. conn \in Seq(TrConns) /\ replica \in [TrClients -> [rev : Int, state : TrStates]]
  BY <1>1 DEF PlainInvariant, TrTypes
<1>3. /\ conn' \in Seq(TrConns) /\ DOMAIN conn' = DOMAIN conn /\ conn'[i] = record
      /\ \A j \in DOMAIN conn : j # i => conn'[j] = conn[j]
  BY <1>2
<1>4. \A j \in DOMAIN conn : conn[j].owner \in TrClients /\ conn'[j].owner = conn[j].owner
  <2>1. \A j \in DOMAIN conn : conn[j] \in TrConns
    BY <1>2
  <2> QED
    BY <1>3, <2>1 DEF TrConns
<1>5. \A j \in DOMAIN conn : conn'[j].up => conn[j].up
  BY <1>3
<1>6. /\ replica' \in [TrClients -> [rev : Int, state : TrStates]]
      /\ conn[i].up => replica'[c] = held
      /\ \A d \in TrClients : ~(conn[i].up /\ d = c) => replica'[d] = replica[d]
  <2>1. held \in [rev : Int, state : TrStates]
    BY DEF ReplicaFits
  <2> QED
    BY <1>2, <1>4, <2>1 DEF Received
<1>7. TrTypes' /\ KernelHolds' /\ LogHolds'
  BY <1>1, <1>3, <1>6 DEF PlainInvariant, TrTypes, BrokerRecords, KernelHolds, LogHolds, Sorted, LastLogged
<1>8. ConnsKnown'
  <2>1. broker.baselined
    BY <1>1 DEF PlainInvariant, ConnsKnown
  <2>2. \A j \in DOMAIN conn : /\ conn'[j].up => j \in broker'.conns
                               /\ conn'[j].phase = "replay" => conn'[j].next >= 1
    BY <1>1, <1>3, <1>5 DEF PlainInvariant, ConnsKnown
  <2>3. \A j, k \in DOMAIN conn : (conn'[j].up /\ conn'[k].up /\ conn'[j].owner = conn'[k].owner) => j = k
    BY <1>1, <1>4, <1>5 DEF PlainInvariant, ConnsKnown
  <2>4. \A d \in TrClients : replica'[d].rev >= -1 /\ replica'[d].rev <= kernel.rev
    BY <1>1, <1>6 DEF PlainInvariant, ConnsKnown, ReplicaFits
  <2> QED
    BY <1>3, <2>1, <2>2, <2>3, <2>4 DEF ConnsKnown
<1>9. ASSUME NEW d \in TrClients PROVE ClientHolds(d)'
  <2>1. CASE conn[i].up /\ d = c
    BY <2>1 DEF ClientHolds
  <2>2. CASE ~(conn[i].up /\ d = c)
    <3>1. replica'[d] = replica[d]
      BY <1>6, <2>2
    <3>2. d \notin disturbed' => d \notin disturbed
      OBVIOUS
    <3>3. ClientHolds(d)
      BY <1>1 DEF TrSafe
    <3>4. ExactReplica(d) => ExactReplica(d)'
      BY <3>1 DEF ExactReplica
    <3>5. PICK r : r = replica[d].rev /\ r = replica'[d].rev
      BY <3>1
    <3>6. OutIsTrue(r) => OutIsTrue(r)'
      BY DEF OutIsTrue
    <3>7. LogTells(r) => LogTells(r)'
      BY DEF LogTells
    <3>8. OutIsTrue(replica[d].rev)' <=> OutIsTrue(r)'
      BY <3>5 DEF OutIsTrue
    <3>9. LogTells(replica[d].rev)' <=> LogTells(r)'
      BY <3>5 DEF LogTells
    <3> QED
      BY <3>1, <3>2, <3>3, <3>4, <3>5, <3>6, <3>7, <3>8, <3>9 DEF ClientHolds
  <2> QED
    BY <2>1, <2>2
<1>10. ASSUME NEW j \in DOMAIN conn, conn'[j].up, conn'[j].owner \notin disturbed' PROVE ConnHolds(j)'
  <2>1. CASE j = i
    BY <1>3, <1>4, <1>10, <2>1
  <2>2. CASE j # i
    <3>1. conn'[j] = conn[j] /\ conn[j].up /\ conn[j].owner \notin disturbed
      BY <1>3, <1>10, <2>2
    <3>2. ConnHolds(j)
      BY <1>1, <3>1 DEF TrSafe
    <3>3. ~(conn[i].up /\ conn[j].owner = conn[i].owner)
      BY <1>1, <2>2, <3>1 DEF PlainInvariant, ConnsKnown
    <3>4. Replica(j)' = Replica(j)
      BY <1>4, <1>6, <3>1, <3>3 DEF Replica
    <3>5. Pending(j)' = Pending(j)
      BY <2>2 DEF Pending
    <3>6. OutLeads(j)' <=> OutLeads(j)
      BY <3>4, <3>5 DEF OutLeads, LastLogged
    <3>7. LogLeads(j)' <=> LogLeads(j)
      BY <3>1, <3>4 DEF LogLeads
    <3> QED
      BY <3>1, <3>2, <3>4, <3>6, <3>7 DEF ConnHolds
  <2> QED
    BY <2>1, <2>2
<1>11. TrSafe'
  BY <1>3, <1>9, <1>10 DEF TrSafe
<1> QED
  BY <1>7, <1>8, <1>11 DEF TrInvariant

\* What is known of a connection.
LEMMA ConnTyped ==
  ASSUME PlainInvariant, NEW i \in DOMAIN conn
  PROVE  /\ conn[i] \in TrConns /\ conn[i].owner \in TrClients /\ ReplicaFits(Replica(i)) /\ broker.baselined
         /\ conn[i].up \in BOOLEAN /\ conn[i].from \in Int /\ conn[i].next \in Nat /\ conn[i].program \in Int
         /\ \A record \in TrConns : record.owner = conn[i].owner => [conn EXCEPT ![i] = record] \in Seq(TrConns)
<1>1. conn \in Seq(TrConns)
  BY DEF PlainInvariant, TrTypes
<1>2. conn[i] \in TrConns
  BY <1>1
<1>3. conn[i].owner \in TrClients /\ conn[i].up \in BOOLEAN /\ conn[i].from \in Int /\ conn[i].next \in Nat /\ conn[i].program \in Int
  BY <1>2 DEF TrConns
<1>4. ReplicaFits(Replica(i))
  BY <1>3 DEF PlainInvariant, TrTypes, ConnsKnown, ReplicaFits, Replica
<1> QED
  BY <1>1, <1>2, <1>3, <1>4 DEF PlainInvariant, ConnsKnown

\* A connection that is opened or failed is a connection of the same client.
LEMMA OpenTyped ==
  ASSUME PlainInvariant, NEW i \in DOMAIN conn
  PROVE  /\ Open(i) \in TrConns /\ Open(i).owner = conn[i].owner /\ Open(i).up = conn[i].up /\ Open(i).phase = "open"
         /\ [Open(i) EXCEPT !.phase = "failed"] \in TrConns
         /\ [Open(i) EXCEPT !.phase = "failed"].owner = conn[i].owner
         /\ [Open(i) EXCEPT !.phase = "failed"].up = conn[i].up
         /\ [Open(i) EXCEPT !.phase = "failed"].phase = "failed"
         /\ [Open(i) EXCEPT !.up = FALSE] \in TrConns
         /\ [Open(i) EXCEPT !.up = FALSE].owner = conn[i].owner
         /\ [Open(i) EXCEPT !.up = FALSE].up = FALSE
         /\ [Open(i) EXCEPT !.up = FALSE].phase = "open"
<1>1. conn[i] \in TrConns
  BY ConnTyped
<1>2. Open(i) \in TrConns /\ Open(i).owner = conn[i].owner /\ Open(i).up = conn[i].up /\ Open(i).phase = "open"
  <2>1. PICK r \in TrConns : r = conn[i]
    BY <1>1
  <2>2. PICK a \in Int, n \in Nat : a = -2 /\ n = 0
    OBVIOUS
  <2>3. PICK b \in Int : b = -1
    OBVIOUS
  <2>4. PICK open \in TrConns : /\ open = [r EXCEPT !.phase = "open", !.from = a, !.next = n, !.program = b]
                                /\ open.owner = r.owner /\ open.up = r.up /\ open.phase = "open"
    <3>1. [r EXCEPT !.phase = "open", !.from = a, !.next = n, !.program = b] \in TrConns
      BY DEF TrConns
    <3> QED
      BY <3>1 DEF TrConns
  <2>5. Open(i) = open
    BY <2>1, <2>2, <2>3, <2>4 DEF Open
  <2> QED
    BY <2>1, <2>4, <2>5
<1>3. PICK no \in BOOLEAN : no = FALSE
  OBVIOUS
<1>4. PICK open \in TrConns : open = Open(i)
  BY <1>2
<1>5. /\ [open EXCEPT !.up = no] \in TrConns /\ [open EXCEPT !.up = no].owner = open.owner /\ [open EXCEPT !.up = no].up = no
      /\ [open EXCEPT !.up = no].phase = open.phase
  BY DEF TrConns
<1>6. /\ [open EXCEPT !.phase = "failed"] \in TrConns /\ [open EXCEPT !.phase = "failed"].owner = open.owner
      /\ [open EXCEPT !.phase = "failed"].up = open.up /\ [open EXCEPT !.phase = "failed"].phase = "failed"
  BY DEF TrConns
<1> QED
  BY <1>2, <1>3, <1>4, <1>5, <1>6

\* An onboarding that fails keeps the invariant: its replica is disturbed.
LEMMA FailureKeeps == ASSUME TrInvariant, NEW i \in DOMAIN conn, OnboardingFails(i) PROVE TrInvariant'
<1>1. PlainInvariant
  BY DEF TrInvariant, PlainInvariant
<1>2. PICK record \in TrConns : record = [Open(i) EXCEPT !.phase = "failed"] /\ record.owner = conn[i].owner /\ record.up = conn[i].up
                               /\ record.phase = "failed"
  BY <1>1, OpenTyped
<1>3. conn' = [conn EXCEPT ![i] = record] /\ UNCHANGED <<kernel, hist, broker, replica>> /\ disturbed' = disturbed \cup {conn[i].owner}
  BY <1>2 DEF OnboardingFails
<1>4. Received(i, Replica(i)) /\ ReplicaFits(Replica(i))
  BY <1>1, <1>3, ConnTyped DEF Received, Replica, PlainInvariant, TrTypes
<1>5. broker' \in BrokerRecords /\ disturbed' \subseteq TrClients
  BY <1>1, <1>3, ConnTyped DEF PlainInvariant, TrTypes, BrokerRecords
<1>6. broker.served \cup broker.conns \subseteq DOMAIN conn /\ (broker.out = <<>> => broker.served = {}) /\ (conn[i].up => i \in broker.conns)
  BY <1>1 DEF PlainInvariant, ConnsKnown
<1>7. PICK c \in TrClients : c = conn[i].owner
  BY <1>1, ConnTyped
<1> QED
  BY <1>2, <1>3, <1>4, <1>5, <1>6, <1>7, ConnSteps

\* A connection that closes keeps the invariant.
LEMMA ClosingKeeps == ASSUME TrInvariant, NEW i \in DOMAIN conn, Closed(i) PROVE TrInvariant'
<1>1. PlainInvariant /\ TrSafe
  BY DEF TrInvariant, PlainInvariant
<1>2. PICK record \in TrConns : record = [Open(i) EXCEPT !.up = FALSE] /\ record.owner = conn[i].owner /\ record.up = FALSE
                               /\ record.phase = "open"
  BY <1>1, OpenTyped
<1>3. conn' = [conn EXCEPT ![i] = record] /\ UNCHANGED <<kernel, hist, replica, disturbed>>
  BY <1>2 DEF Closed
<1>4. Received(i, Replica(i)) /\ ReplicaFits(Replica(i))
  BY <1>1, <1>3, ConnTyped DEF Received, Replica, PlainInvariant, TrTypes
<1>5. /\ broker' \in BrokerRecords /\ broker'.log = broker.log /\ broker'.out = broker.out
      /\ broker'.baselined = broker.baselined /\ broker'.served \in {broker.served, broker.served \ {i}}
      /\ broker'.conns \in {broker.conns, broker.conns \ {i}}
  <2>1. broker \in BrokerRecords
    BY <1>1 DEF PlainInvariant, TrTypes, BrokerRecords
  <2>2. broker' = [broker EXCEPT !.conns = broker.conns \ {i}, !.served = broker.served \ {i}] \/ broker' = broker
    BY DEF Closed
  <2> QED
    BY <2>1, <2>2 DEF BrokerRecords
<1>6. broker.served \cup broker.conns \subseteq DOMAIN conn /\ (broker.out = <<>> => broker.served = {}) /\ disturbed \subseteq TrClients
  BY <1>1 DEF PlainInvariant, ConnsKnown, TrTypes
<1>7. PICK c \in TrClients : c = conn[i].owner
  BY <1>1, ConnTyped
<1>8. ClientHolds(c)'
  <2>1. ClientHolds(c)
    BY <1>1, <1>7 DEF TrSafe
  <2> QED
    BY <1>3, <1>5, <2>1 DEF ClientHolds, ExactReplica, OutIsTrue, LogTells
<1> QED
  BY <1>2, <1>3, <1>4, <1>5, <1>6, <1>7, <1>8, ConnSteps

(***************************************************************************)
(* A patch reaches a replica.                                              *)
(***************************************************************************)
\* What is known of a client whose patches were not disturbed.
LEMMA KnownReplica ==
  ASSUME TrInvariant, NEW c \in TrClients, c \notin disturbed, NEW r \in Nat, r = replica[c].rev
  PROVE  /\ replica[c] \in [rev : Int, state : TrStates] /\ r <= kernel.rev /\ HasProgram(replica[c].state)
         /\ ExactReplica(c) /\ OutIsTrue(r) /\ LogTells(r)
         /\ broker.baselined /\ broker.log # <<>> /\ kernel.rev \in Nat
         /\ hist \in Seq(TrStates) /\ Len(hist) = kernel.rev + 1
         /\ broker.log \in Seq(TrPatches) /\ broker.out \in Seq(TrPatches)
<1>1. PlainInvariant /\ TrSafe
  BY DEF TrInvariant, PlainInvariant
<1>2. /\ replica \in [TrClients -> [rev : Int, state : TrStates]] /\ kernel.rev \in Nat
      /\ hist \in Seq(TrStates) /\ Len(hist) = kernel.rev + 1
      /\ broker.log \in Seq(TrPatches) /\ broker.out \in Seq(TrPatches)
  BY <1>1 DEF PlainInvariant, TrTypes
<1>3. r <= kernel.rev /\ broker.baselined /\ broker.log # <<>>
  BY <1>1 DEF PlainInvariant, ConnsKnown, LogHolds
<1>4. ExactReplica(c) /\ OutIsTrue(r) /\ LogTells(r)
  BY <1>1 DEF TrSafe, ClientHolds
<1>5. HasProgram(replica[c].state)
  <2>1. HasProgram(kernel.state) /\ \A q \in DOMAIN hist : HasProgram(hist[q])
    BY <1>1 DEF PlainInvariant, KernelHolds
  <2>2. r + 1 \in DOMAIN hist /\ (r < kernel.rev => r + 2 \in DOMAIN hist)
    BY <1>2, <1>3
  <2>3. replica[c].state["program"] \in {hist[r + 1]["program"],
            IF r < kernel.rev THEN hist[r + 2]["program"] ELSE kernel.state["program"]}
    BY <1>4 DEF ExactReplica, Keys
  <2> QED
    BY <2>1, <2>2, <2>3 DEF HasProgram
<1> QED
  BY <1>2, <1>3, <1>4, <1>5

\* A replica that stays, or is exact at a later revision.
LEMMA ReplicaMoves ==
  ASSUME TrInvariant, NEW c \in TrClients, c \notin disturbed, NEW r \in Nat, r = replica[c].rev,
         NEW t \in Nat, r <= t, t <= kernel.rev, UNCHANGED <<kernel, hist>>,
         broker'.log = broker.log, broker'.out = broker.out,
         replica'[c].rev = t, replica'[c] = replica[c] \/ replica'[c].state = hist[t + 1]
  PROVE  ClientHolds(c)'
<1>1. ExactReplica(c) /\ OutIsTrue(r) /\ LogTells(r) /\ broker.out \in Seq(TrPatches) /\ broker.log \in Seq(TrPatches)
      /\ broker.log # <<>>
  BY KnownReplica
<1>2. ExactReplica(c)'
  <2>1. CASE replica'[c] = replica[c]
    BY <1>1, <2>1 DEF ExactReplica
  <2>2. CASE replica'[c].state = hist[t + 1]
    BY <2>2 DEF ExactReplica
  <2> QED
    BY <2>1, <2>2
<1>3. OutIsTrue(t)'
  <2>1. \A j \in DOMAIN broker.out : broker.out[j] \in TrPatches
    BY <1>1
  <2>2. \A j \in DOMAIN broker.out : broker.out[j].rev \in Nat
    BY <2>1 DEF TrPatches
  <2>3. \A j \in DOMAIN broker.out : broker.out[j].rev > t => broker.out[j].rev > r
    BY <2>2
  <2> QED
    BY <1>1, <2>3 DEF OutIsTrue
<1>4. LogTells(t)'
  <2> SUFFICES ASSUME NEW u \in Nat, u >= t, u >= broker.log[1].rev PROVE Tells(hist, broker.log, 1, u)
    BY DEF LogTells
  <2>1. u >= r
    OBVIOUS
  <2> QED
    BY <1>1, <2>1 DEF LogTells
<1> QED
  BY <1>2, <1>3, <1>4 DEF ClientHolds

\* A patch that a replica may be sent: it is known, or what came between is.
IsNews(h, p, r) ==
    /\ \A q \in Nat : (r < q /\ q < p.rev) => h[q + 1] = h[q]
    /\ h[p.rev + 1] = Set(h[p.rev], p.sets)
Fits(r, p) ==
    /\ p.rev <= kernel.rev
    /\ p.rev = 0 => r = 0 /\ p.sets = NoContent
    /\ p.rev > r => IsNews(hist, p, r)

\* A patch that fits moves a replica to the state of the revision it makes, or not at all.
LEMMA PatchMoves ==
  ASSUME TrInvariant, NEW c \in TrClients, c \notin disturbed, NEW r \in Nat, r = replica[c].rev,
         NEW p \in TrPatches, Fits(r, p)
  PROVE  \E t \in Nat : /\ t = (IF p.rev > r THEN p.rev ELSE r) /\ t <= kernel.rev
                        /\ Patched(replica[c], p).rev = t
                        /\ Patched(replica[c], p) = replica[c] \/ Patched(replica[c], p).state = hist[t + 1]
<1>1. /\ replica[c] \in [rev : Int, state : TrStates] /\ r <= kernel.rev /\ HasProgram(replica[c].state)
      /\ ExactReplica(c) /\ kernel.rev \in Nat /\ hist \in Seq(TrStates) /\ Len(hist) = kernel.rev + 1
  BY KnownReplica
<1>2. p.rev \in Nat /\ p.sets \in TrSets
  BY DEF TrPatches
<1>3. CASE p.rev > r
  <2>1. \A k \in Keys : replica[c].state[k] \in {hist[replica[c].rev + 1][k], hist[replica[c].rev + 2][k]}
    BY <1>1, <1>2, <1>3 DEF ExactReplica, Fits
  <2>2. replica[c].rev < p.rev /\ p.rev < Len(hist) /\ replica[c].rev \in Nat
    BY <1>1, <1>2, <1>3 DEF Fits
  <2>3. /\ \A q \in Nat : (replica[c].rev < q /\ q < p.rev) => hist[q + 1] = hist[q]
        /\ hist[p.rev + 1] = Set(hist[p.rev], p.sets)
    BY <1>3 DEF Fits, IsNews
  <2>4. PICK held : held = replica[c]
    OBVIOUS
  <2>5. Patched(held, p) = [rev |-> p.rev, state |-> hist[p.rev + 1]]
    BY <1>1, <2>1, <2>2, <2>3, <2>4, PatchApplied
  <2> QED
    BY <1>2, <1>3, <2>4, <2>5 DEF Fits
<1>4. CASE ~(p.rev > r) /\ p.rev # 0
  BY <1>1, <1>2, <1>4 DEF Patched
<1>5. CASE p.rev = 0
  <2>1. r = 0 /\ p.sets = NoContent
    BY <1>5 DEF Fits
  <2>2. PICK state \in TrStates : state = replica[c].state /\ replica[c] = [rev |-> 0, state |-> state]
    BY <1>1, <2>1
  <2>3. Patched(replica[c], p) = [rev |-> 0, state |-> Set(state, NoContent)]
    BY <1>1, <1>5, <2>1, <2>2 DEF Patched, HasProgram
  <2>4. Set(state, NoContent) = state
    BY NoContentIs
  <2> QED
    BY <1>1, <1>5, <2>1, <2>2, <2>3, <2>4
<1> QED
  BY <1>2, <1>3, <1>4, <1>5

KnownBefore(patches, s, j, r) == \A l \in s..Len(patches) : l < j => patches[l].rev <= r

\* The next patch that is news to a replica fits it.
LEMMA FirstFits ==
  ASSUME NEW h, Len(h) \in Nat, NEW patches \in Seq(TrPatches), NEW s \in Nat \ {0}, NEW r \in Nat,
         NEW j \in s..Len(patches), NEW p \in TrPatches, p = patches[j],
         KnownBefore(patches, s, j, r), Tells(h, patches, s, r), p.rev > r, p.rev < Len(h)
  PROVE  IsNews(h, p, r)
<1> USE DEF KnownBefore
<1>1. p.rev \in Nat /\ j \in Nat /\ \A l \in s..Len(patches) : l \in Nat
  BY DEF TrPatches
<1>2. ASSUME NEW q \in Nat, r < q, q < p.rev PROVE h[q + 1] = h[q]
  <2>1. q \in 0..Len(h) /\ q < Len(h)
    BY <1>1, <1>2
  <2>2. Told(h, patches, s, q)
    BY <1>2, <2>1 DEF Tells
  <2>3. ASSUME NEW l \in s..Len(patches), First(patches, s, l, q) PROVE FALSE
    <3>1. patches[l].rev = q /\ (j < l => p.rev < q)
      BY <2>3 DEF First
    <3>2. l < j \/ l = j \/ j < l
      BY <1>1
    <3> QED
      BY <1>1, <1>2, <3>1, <3>2
  <2> QED
    BY <2>2, <2>3 DEF Told
<1>3. h[p.rev + 1] = Set(h[p.rev], p.sets)
  <2>1. PICK q \in Nat : q = p.rev
    BY <1>1
  <2>2. q \in 0..Len(h) /\ q < Len(h) /\ r < q
    BY <1>1, <2>1
  <2>3. Told(h, patches, s, q)
    BY <2>2 DEF Tells
  <2>4. ~Silent(patches, s, q)
    BY <2>1 DEF Silent
  <2>5. ASSUME NEW l \in s..Len(patches), First(patches, s, l, q) PROVE l = j
    <3>1. patches[l].rev = q /\ (j < l => p.rev < q)
      BY <2>5 DEF First
    <3>2. l < j \/ l = j \/ j < l
      BY <1>1
    <3> QED
      BY <1>1, <2>1, <2>2, <3>1, <3>2
  <2> QED
    BY <2>1, <2>3, <2>4, <2>5 DEF Told
<1> QED
  BY <1>2, <1>3 DEF IsNews

\* A patch that is sent leaves a replica that can be.
LEMMA PatchFits ==
  ASSUME PlainInvariant, NEW i \in DOMAIN conn, NEW p \in TrPatches, p.rev <= kernel.rev
  PROVE  ReplicaFits(Patched(Replica(i), p))
<1>1. ReplicaFits(Replica(i)) /\ kernel.rev \in Nat /\ p.rev \in Nat
  BY ConnTyped DEF PlainInvariant, TrTypes, TrPatches
<1>2. Patched(Replica(i), p) \in [rev : Int, state : TrStates]
  BY <1>1, PatchedTyped DEF ReplicaFits
<1>3. Patched(Replica(i), p).rev \in {Replica(i).rev, p.rev}
  BY DEF Patched
<1> QED
  BY <1>1, <1>2, <1>3 DEF ReplicaFits

\* What a patch does to a connection that has onboarded, or waits for nothing but the queue.
LEMMA QueueServes ==
  ASSUME TrInvariant, NEW i \in DOMAIN conn, NEW c \in TrClients, c = conn[i].owner, c \notin disturbed,
         NEW r \in Nat, r = replica[c].rev, broker.out # <<>>, i \notin broker.served,
         NEW p \in TrPatches, p = Head(broker.out), ~(p.rev = 0 /\ r > 0), OutLeads(i)
  PROVE  /\ Fits(r, p)
         /\ \A t \in Nat : t = (IF p.rev > r THEN p.rev ELSE r) =>
               /\ Tells(hist, broker.out, 2, t)
               /\ LastLogged <= t \/ \E j \in 2..Len(broker.out) : broker.out[j].rev >= LastLogged
<1>1. /\ kernel.rev \in Nat /\ hist \in Seq(TrStates) /\ Len(hist) = kernel.rev + 1
      /\ broker.log \in Seq(TrPatches) /\ broker.log # <<>>
  BY KnownReplica
<1>2. PICK out \in Seq(TrPatches) : out = broker.out
  BY KnownReplica
<1>3. Len(out) \in Nat \ {0} /\ 1 \in 1..Len(out) /\ DOMAIN out = 1..Len(out) /\ p = out[1]
  BY <1>2
<1>4. Replica(i) = replica[c] /\ Pending(i) = 1
  BY DEF Replica, Pending
<1>5. Tells(hist, out, 1, r) /\ (LastLogged <= r \/ \E j \in 1..Len(out) : out[j].rev >= LastLogged)
  BY <1>2, <1>4 DEF OutLeads
<1>6. p.rev <= kernel.rev /\ (p.rev = 0 => p.sets = NoContent) /\ p.rev \in Nat
  BY <1>2, <1>3 DEF TrInvariant, LogHolds, Sorted, TrPatches
<1>7. KnownBefore(out, 1, 1, r)
  BY DEF KnownBefore
<1>8. Len(hist) \in Nat /\ 1 \in Nat \ {0}
  BY <1>1
<1>9. Fits(r, p)
  <2>1. p.rev > r => IsNews(hist, p, r)
    <3> SUFFICES ASSUME p.rev > r PROVE IsNews(hist, p, r)
      OBVIOUS
    <3>1. p.rev < Len(hist)
      BY <1>1, <1>6
    <3>2. Tells(hist, out, 1, r) /\ 1 \in 1..Len(out) /\ p = out[1]
      BY <1>3, <1>5
    <3> QED
      BY <1>7, <1>8, <3>1, <3>2, FirstFits
  <2> QED
    BY <1>6, <2>1 DEF Fits
<1>10. ASSUME NEW t \in Nat, t = (IF p.rev > r THEN p.rev ELSE r)
       PROVE  /\ Tells(hist, out, 2, t)
              /\ LastLogged <= t \/ \E j \in 2..Len(out) : out[j].rev >= LastLogged
  <2>1. r <= t /\ p.rev <= t
    BY <1>6, <1>10
  <2>2. Tells(hist, out, 1, t)
    BY <1>5, <1>8, <2>1, TellsLater
  <2>3. \A l \in 1..Len(out) : l < 2 => out[l].rev <= t
    BY <1>3, <2>1
  <2>4. 1 \in Nat /\ 2 \in Nat /\ 1 <= 2
    OBVIOUS
  <2>5. Tells(hist, out, 2, t)
    BY <1>8, <2>2, <2>3, <2>4, TellsOn
  <2>6. LastLogged \in Nat
    <3>1. Len(broker.log) \in DOMAIN broker.log
      BY <1>1
    <3>2. broker.log[Len(broker.log)] \in TrPatches
      BY <1>1, <3>1
    <3> QED
      BY <3>2 DEF LastLogged, TrPatches
  <2>7. CASE LastLogged <= r
    BY <2>1, <2>5, <2>6, <2>7
  <2>8. CASE \E j \in 1..Len(out) : out[j].rev >= LastLogged
    <3>1. PICK j \in 1..Len(out) : out[j].rev >= LastLogged
      BY <2>8
    <3>2. CASE j = 1
      BY <1>3, <1>6, <2>1, <2>5, <2>6, <3>1, <3>2
    <3>3. CASE j # 1
      <4>1. j \in 2..Len(out)
        BY <3>3
      <4> QED
        BY <2>5, <3>1, <4>1
    <3> QED
      BY <3>2, <3>3
  <2> QED
    BY <1>5, <2>7, <2>8
<1> QED
  BY <1>2, <1>9, <1>10

\* What a patch does to a connection that is still being replayed the log, and is not overtaken.
LEMMA LogServes ==
  ASSUME TrInvariant, NEW i \in DOMAIN conn, NEW c \in TrClients, c = conn[i].owner, c \notin disturbed,
         NEW r \in Nat, r = replica[c].rev, broker.out # <<>>,
         NEW p \in TrPatches, p = Head(broker.out), ~Overtakes(i, p), conn[i].phase = "replay", LogLeads(i),
         conn[i].from >= 0, r >= conn[i].from, conn[i].next >= 1
  PROVE  Fits(r, p)
<1>1. /\ kernel.rev \in Nat /\ hist \in Seq(TrStates) /\ Len(hist) = kernel.rev + 1 /\ broker.log # <<>>
      /\ OutIsTrue(r)
  BY KnownReplica
<1>2. PICK out \in Seq(TrPatches), log \in Seq(TrPatches) : out = broker.out /\ log = broker.log
  BY KnownReplica
<1>3. Len(out) \in Nat \ {0} /\ 1 \in DOMAIN out /\ p = out[1] /\ Len(log) \in Nat \ {0} /\ DOMAIN log = 1..Len(log)
  BY <1>1, <1>2
<1>4. PICK from \in Int, s \in Nat : from = conn[i].from /\ s = conn[i].next /\ from >= 0 /\ r >= from /\ s >= 1
  BY ConnTyped DEF TrInvariant, PlainInvariant
<1>5. Replica(i) = replica[c]
  BY DEF Replica
<1>6. Tells(hist, log, s, r) /\ \A l \in DOMAIN log : l < s => log[l].rev <= r
  BY <1>2, <1>4, <1>5 DEF LogLeads
<1>7. /\ ~(p.rev = 0 /\ r > 0)
      /\ \A j \in s..Len(log) : log[j].rev > from =>
            ~(log[j].rev < p.rev) /\ ~(log[j].rev = p.rev /\ p.sets = NoContent /\ log[j].sets # NoContent)
  BY <1>2, <1>4, <1>5 DEF Overtakes
<1>8. /\ p.rev <= kernel.rev /\ (p.rev = 0 => p.sets = NoContent) /\ p.rev \in Nat
      /\ p.rev <= log[Len(log)].rev
  BY <1>2, <1>3 DEF TrInvariant, LogHolds, Sorted, TrPatches, LastLogged
<1>9. \A l \in DOMAIN log : log[l].rev \in Nat
  <2>1. \A l \in DOMAIN log : log[l] \in TrPatches
    OBVIOUS
  <2> QED
    BY <2>1 DEF TrPatches
<1>10. ASSUME p.rev > r
       PROVE  /\ \A q \in Nat : (r < q /\ q < p.rev) => hist[q + 1] = hist[q]
              /\ hist[p.rev + 1] = Set(hist[p.rev], p.sets)
  <2>1. ASSUME NEW q \in Nat, r < q, q < p.rev PROVE hist[q + 1] = hist[q]
    <3>1. q \in 0..Len(hist) /\ q < Len(hist)
      BY <1>1, <1>8, <2>1
    <3>2. Told(hist, log, s, q)
      BY <1>6, <2>1, <3>1 DEF Tells
    <3>3. \A l \in s..Len(log) : ~First(log, s, l, q)
      <4> SUFFICES ASSUME NEW l \in s..Len(log), log[l].rev = q PROVE FALSE
        BY DEF First
      <4> QED
        BY <1>4, <1>7, <2>1, SMTT(30)
    <3> QED
      BY <3>2, <3>3 DEF Told
  <2>2. hist[p.rev + 1] = Set(hist[p.rev], p.sets)
    <3>1. CASE p.sets # NoContent
      BY <1>2, <1>3, <1>1, <1>10, <3>1 DEF OutIsTrue
    <3>2. CASE p.sets = NoContent
      <4>1. PICK q \in Nat : q = p.rev
        BY <1>8
      <4>2. q \in 0..Len(hist) /\ q < Len(hist) /\ q \in 1..Len(hist) /\ r < q
        BY <1>1, <1>8, <1>10, <4>1, SMTT(30)
      <4>3. Told(hist, log, s, q)
        BY <1>6, <4>2 DEF Tells
      <4>4. hist[q] \in TrStates
        BY <1>1, <4>2
      <4>5. Set(hist[q], NoContent) = hist[q]
        BY <4>4, NoContentIs
      <4>6. ASSUME NEW l \in s..Len(log), First(log, s, l, q) PROVE log[l].sets = NoContent
        <5>1. log[l].rev = q
          BY <4>6 DEF First
        <5>2. log[l].rev > from
          BY <1>4, <4>2, <5>1
        <5> QED
          BY <1>7, <3>2, <4>1, <5>1, <5>2
      <4>7. hist[q + 1] = hist[q]
        BY <4>3, <4>5, <4>6 DEF Told
      <4> QED
        BY <3>2, <4>1, <4>5, <4>7
    <3> QED
      BY <3>1, <3>2
  <2> QED
    BY <2>1, <2>2
<1> QED
  BY <1>7, <1>8, <1>10 DEF Fits, IsNews

\* The first patch of the queue is sent to one connection.
LEMMA BroadcastKeeps == ASSUME TrInvariant, NEW i \in DOMAIN conn, Broadcast(i) PROVE TrInvariant'
<1>1. PlainInvariant /\ TrSafe
  BY DEF TrInvariant, PlainInvariant
<1>2. PICK c \in TrClients : c = conn[i].owner
  BY <1>1, ConnTyped
<1>3. PICK record \in TrConns : record = conn[i]
  BY <1>1, ConnTyped
<1>4. /\ broker.out # <<>> /\ i \in broker.conns /\ conn[i].up /\ i \notin broker.served
      /\ UNCHANGED <<kernel, hist, conn, left>>
  BY DEF Broadcast, NextServed, Unserved
<1>5. conn' = [conn EXCEPT ![i] = record] /\ (record.phase = "replay" => record.next >= 1)
  <2>1. conn \in Seq(TrConns)
    BY <1>1 DEF PlainInvariant, TrTypes
  <2> QED
    BY <1>1, <1>3, <1>4, <2>1 DEF PlainInvariant, ConnsKnown
<1>6. PICK p \in TrPatches : p = Head(broker.out) /\ p.rev <= kernel.rev
  <2>1. broker.out \in Seq(TrPatches) /\ \A j \in DOMAIN broker.out : broker.out[j].rev <= kernel.rev
    BY <1>1 DEF PlainInvariant, TrTypes, LogHolds, Sorted
  <2>2. 1 \in DOMAIN broker.out /\ Head(broker.out) = broker.out[1] /\ broker.out[1] \in TrPatches
    BY <1>4, <2>1
  <2> QED
    BY <2>1, <2>2
<1>7. PICK held : held = Patched(Replica(i), p)
  OBVIOUS
<1>8. ReplicaFits(held) /\ Received(i, held)
  BY <1>1, <1>6, <1>7, PatchFits DEF Broadcast
<1>9. /\ broker' \in BrokerRecords /\ broker'.log = broker.log /\ broker'.out = broker.out
      /\ broker'.baselined = broker.baselined /\ broker'.conns = broker.conns
      /\ broker'.served = broker.served \cup {i}
  <2>1. broker \in BrokerRecords
    BY <1>1 DEF PlainInvariant, TrTypes, BrokerRecords
  <2>2. PICK served \in SUBSET Nat : served = broker.served \cup {i}
    <3>1. i \in Nat /\ broker.served \subseteq Nat
      BY <1>1, <2>1 DEF PlainInvariant, TrTypes, BrokerRecords
    <3> QED
      BY <3>1
  <2>3. broker' = [broker EXCEPT !.served = served]
    BY <2>2 DEF Broadcast
  <2> QED
    BY <2>1, <2>2, <2>3 DEF BrokerRecords
<1>10. /\ broker.served \cup broker.conns \subseteq DOMAIN conn /\ disturbed \subseteq TrClients
       /\ \A d \in TrClients : replica[d].rev \in Int /\ replica \in [TrClients -> [rev : Int, state : TrStates]]
  BY <1>1 DEF PlainInvariant, ConnsKnown, TrTypes
<1>11. /\ disturbed \subseteq disturbed' /\ disturbed' \subseteq TrClients
       /\ c \notin disturbed' => c \notin disturbed /\ ~Overtakes(i, p)
  BY <1>2, <1>6, <1>10 DEF Broadcast
<1>12. replica'[c] = held /\ Replica(i) = replica[c] /\ Replica(i)' = held
  BY <1>2, <1>4, <1>8, <1>10 DEF Received, Replica
<1>13. ASSUME c \notin disturbed' PROVE ClientHolds(c)' /\ ConnHolds(i)'
  <2>1. ConnHolds(i)
    BY <1>1, <1>2, <1>4, <1>11, <1>13 DEF TrSafe
  <2>2. conn[i].phase \in {"open", "replay"}
    <3>1. conn[i].phase \in {"open", "replay", "vocabulary", "program", "failed"}
      BY <1>3 DEF TrConns
    <3> QED
      BY <1>11, <1>13, <2>1, <3>1 DEF ConnHolds, Overtakes
  <2>3. PICK r \in Nat : r = replica[c].rev
    BY <1>10, <1>12, <2>1, <2>2 DEF ConnHolds
  <2>4. /\ kernel.rev \in Nat /\ broker.log \in Seq(TrPatches) /\ p.rev \in Nat
    BY <1>1 DEF PlainInvariant, TrTypes, TrPatches
  <2>5. ~(p.rev = 0 /\ r > 0)
    BY <1>11, <1>12, <1>13, <2>3 DEF Overtakes
  <2>6. Fits(r, p)
    <3>1. CASE OutLeads(i)
      BY <1>2, <1>4, <1>6, <1>11, <1>13, <2>3, <2>5, <3>1, QueueServes
    <3>2. CASE ~OutLeads(i)
      <4>1. /\ conn[i].phase = "replay" /\ LogLeads(i) /\ conn[i].from >= 0 /\ r >= conn[i].from /\ conn[i].next >= 1
        BY <1>12, <2>1, <2>2, <2>3, <3>2 DEF ConnHolds
      <4> QED
        BY <1>2, <1>4, <1>6, <1>11, <1>13, <2>3, <4>1, LogServes
    <3> QED
      BY <3>1, <3>2
  <2>7. PICK t \in Nat : /\ t = (IF p.rev > r THEN p.rev ELSE r) /\ t <= kernel.rev
                         /\ Patched(replica[c], p).rev = t
                         /\ Patched(replica[c], p) = replica[c] \/ Patched(replica[c], p).state = hist[t + 1]
    BY <1>11, <1>13, <2>3, <2>6, PatchMoves
  <2>8. r <= t /\ replica'[c].rev = t /\ (replica'[c] = replica[c] \/ replica'[c].state = hist[t + 1])
    BY <1>7, <1>12, <2>4, <2>7
  <2>9. ClientHolds(c)'
    BY <1>4, <1>9, <1>11, <1>13, <2>3, <2>7, <2>8, ReplicaMoves
  <2>10. OutLeads(i) => OutLeads(i)'
    <3>1. Pending(i)' = 2
      BY <1>9 DEF Pending
    <3>2. OutLeads(i) => /\ Tells(hist, broker.out, 2, t)
                         /\ LastLogged <= t \/ \E j \in 2..Len(broker.out) : broker.out[j].rev >= LastLogged
      BY <1>2, <1>4, <1>6, <1>11, <1>13, <2>3, <2>5, <2>7, QueueServes
    <3>3. LastLogged' = LastLogged /\ Replica(i)'.rev = t
      BY <1>9, <1>12, <2>8 DEF LastLogged
    <3> QED
      BY <1>4, <1>9, <3>1, <3>2, <3>3 DEF OutLeads
  <2>11. (LogLeads(i) /\ conn[i].next >= 1) => LogLeads(i)'
    <3> SUFFICES ASSUME LogLeads(i), conn[i].next >= 1 PROVE LogLeads(i)'
      OBVIOUS
    <3>1. PICK s \in Nat : s = conn[i].next
      BY <1>1, ConnTyped
    <3>2. Tells(hist, broker.log, s, r) /\ \A l \in DOMAIN broker.log : l < s => broker.log[l].rev <= r
      BY <1>12, <2>3, <3>1 DEF LogLeads
    <3>3. Len(hist) \in Nat
      BY <1>1 DEF PlainInvariant, TrTypes
    <3>4. Tells(hist, broker.log, s, t)
      BY <2>8, <3>2, <3>3, TellsLater
    <3>5. \A l \in DOMAIN broker.log : l < s => broker.log[l].rev <= t
      <4>1. \A l \in DOMAIN broker.log : broker.log[l] \in TrPatches
        BY <2>4
      <4>2. \A l \in DOMAIN broker.log : broker.log[l].rev \in Nat
        BY <4>1 DEF TrPatches
      <4> QED
        BY <2>8, <3>2, <4>2
    <3>6. conn' = conn /\ hist' = hist /\ broker'.log = broker.log /\ Replica(i)'.rev = t
      BY <1>4, <1>9, <1>12, <2>8
    <3> QED
      BY <3>1, <3>4, <3>5, <3>6 DEF LogLeads
  <2>12. ConnHolds(i)'
    <3>1. Replica(i)'.rev = t /\ Replica(i).rev = r /\ conn' = conn /\ broker'.log = broker.log
      BY <1>4, <1>9, <1>12, <2>3, <2>8
    <3>2. conn[i].from \in Int
      BY <1>1, ConnTyped
    <3>3. CASE conn[i].phase = "open"
      BY <2>1, <2>10, <3>1, <3>3 DEF ConnHolds
    <3>4. CASE conn[i].phase = "replay"
      <4>1. /\ conn[i].from >= 0 /\ r >= conn[i].from /\ conn[i].next >= 1 /\ conn[i].next <= Len(broker.log) + 1
            /\ LogLeads(i) \/ (conn[i].next > Len(broker.log) /\ Len(broker.log) >= MaxLog /\ OutLeads(i))
        BY <2>1, <3>1, <3>4 DEF ConnHolds
      <4>2. t >= conn[i].from /\ t >= 0
        BY <2>8, <3>2, <4>1
      <4>3. LogLeads(i)' \/ (conn[i].next > Len(broker.log) /\ Len(broker.log) >= MaxLog /\ OutLeads(i)')
        BY <2>10, <2>11, <4>1
      <4> QED
        BY <3>1, <3>4, <4>1, <4>2, <4>3 DEF ConnHolds
    <3> QED
      BY <2>2, <3>3, <3>4
  <2> QED
    BY <2>9, <2>12
<1>14. \A j \in DOMAIN conn : j # i => (j \in broker'.served <=> j \in broker.served)
  BY <1>9
<1>15. broker'.served \cup broker'.conns \subseteq DOMAIN conn /\ (broker.out = <<>> => broker'.served = {})
  BY <1>4, <1>9, <1>10
<1>16. record.owner = c /\ (record.up => conn[i].up) /\ (record.up => i \in broker'.conns)
       /\ \A j \in DOMAIN conn : j # i => (j \in broker.conns => j \in broker'.conns)
  BY <1>2, <1>3, <1>4, <1>9
<1>17. (conn[i].up /\ c \notin disturbed' => ClientHolds(c)') /\ (record.up /\ c \notin disturbed' => ConnHolds(i)')
  BY <1>13
<1> QED
  BY <1>2, <1>4, <1>5, <1>8, <1>9, <1>11, <1>14, <1>15, <1>16, <1>17, ConnSteps

\* The place in the log a replay goes on at.
LEMMA NextReplayIs ==
  ASSUME NEW log \in Seq(TrPatches), NEW from \in Int, NEW at \in Nat \ {0}, NEW j, j = NextReplay(log, from, at)
  PROVE  \/ j = Len(log) + 1 /\ \A l \in at..Len(log) : log[l].rev <= from
         \/ /\ j \in Nat /\ at <= j /\ j <= Len(log) /\ log[j].rev > from
            /\ \A l \in at..Len(log) : l < j => log[l].rev <= from
<1> DEFINE rest == {l \in at..Len(log) : log[l].rev > from}
<1>1. \A l \in at..Len(log) : l \in Nat /\ log[l].rev \in Nat
  <2>1. \A l \in at..Len(log) : l \in Nat /\ log[l] \in TrPatches
    OBVIOUS
  <2> QED
    BY <2>1 DEF TrPatches
<1>2. j = IF rest = {} THEN Len(log) + 1 ELSE CHOOSE l \in rest : \A m \in rest : l <= m
  BY DEF NextReplay
<1>3. CASE rest = {}
  <2>1. \A l \in at..Len(log) : log[l].rev <= from
    BY <1>1, <1>3
  <2> QED
    BY <1>2, <1>3, <2>1
<1>4. CASE rest # {}
  <2>1. rest \in SUBSET Nat
    BY <1>1
  <2>2. PICK T : T = rest
    OBVIOUS
  <2>3. \E l \in T : \A m \in T : l <= m
    BY <1>4, <2>1, <2>2, LeastOf
  <2>4. j = CHOOSE l \in T : \A m \in T : l <= m
    BY <1>2, <1>4, <2>2
  <2>5. j \in T /\ \A m \in T : j <= m
    BY <2>3, <2>4
  <2>6. j \in rest /\ \A m \in rest : j <= m
    BY <2>2, <2>5
  <2>7. j \in at..Len(log) /\ j \in Nat /\ log[j].rev > from
    BY <1>1, <2>6
  <2>8. \A l \in at..Len(log) : l < j => log[l].rev <= from
    <3> SUFFICES ASSUME NEW l \in at..Len(log), l < j PROVE log[l].rev <= from
      OBVIOUS
    <3>1. l \notin rest
      BY <1>1, <2>6, <2>7
    <3> QED
      BY <1>1, <3>1
  <2> QED
    BY <2>7, <2>8
<1> QED
  BY <1>3, <1>4

\* The last patch of the log.
LEMMA LastLoggedIs ==
  ASSUME PlainInvariant, broker.log # <<>>
  PROVE  /\ LastLogged \in Nat /\ LastLogged <= kernel.rev
         /\ \A r \in Int : (\A l \in DOMAIN broker.log : broker.log[l].rev <= r) => LastLogged <= r
<1>1. broker.log \in Seq(TrPatches)
  BY DEF PlainInvariant, TrTypes
<1>2. Len(broker.log) \in DOMAIN broker.log
  BY <1>1
<1>3. broker.log[Len(broker.log)] \in TrPatches
  BY <1>1, <1>2
<1> QED
  BY <1>2, <1>3 DEF LastLogged, TrPatches, PlainInvariant, LogHolds, Sorted

\* The queue has nothing for a replica that has the whole log.
LEMMA WholeLogLeads ==
  ASSUME TrInvariant, NEW i \in DOMAIN conn, NEW c \in TrClients, c = conn[i].owner, c \notin disturbed,
         NEW r \in Nat, r = replica[c].rev, NEW s \in Nat \ {0}, Tells(hist, broker.log, s, r),
         \A l \in DOMAIN broker.log : broker.log[l].rev <= r, NEW t \in Nat \ {0}
  PROVE  Tells(hist, broker.out, t, r) /\ LastLogged <= r
<1>1. /\ broker.log \in Seq(TrPatches) /\ broker.out \in Seq(TrPatches) /\ broker.log # <<>>
      /\ kernel.rev \in Nat /\ Len(hist) = kernel.rev + 1
  BY KnownReplica
<1>2. PlainInvariant
  BY DEF TrInvariant, PlainInvariant
<1>3. LastLogged \in Nat /\ LastLogged <= r
  <2>1. LastLogged \in Nat /\ \A m \in Int : (\A l \in DOMAIN broker.log : broker.log[l].rev <= m) => LastLogged <= m
    BY <1>1, <1>2, LastLoggedIs
  <2>2. r \in Int
    OBVIOUS
  <2> QED
    BY <2>1, <2>2
<1>4. \A j \in DOMAIN broker.out : broker.out[j].rev <= r
  <2>1. \A j \in DOMAIN broker.out : broker.out[j] \in TrPatches
    BY <1>1
  <2>2. \A j \in DOMAIN broker.out : broker.out[j].rev \in Nat /\ broker.out[j].rev <= LastLogged
    BY <1>2, <2>1 DEF PlainInvariant, LogHolds, TrPatches
  <2> QED
    BY <1>3, <2>2
<1>5. Len(hist) \in Nat
  BY <1>1
<1> QED
  BY <1>1, <1>3, <1>4, <1>5, TellsNothing

\* A connection is sent the next patch of the log, or has been sent them all.
LEMMA ReplayKeeps == ASSUME TrInvariant, NEW i \in DOMAIN conn, Replay(i) PROVE TrInvariant'
<1>1. PlainInvariant /\ TrSafe
  BY DEF TrInvariant, PlainInvariant
<1>2. PICK c \in TrClients : c = conn[i].owner
  BY <1>1, ConnTyped
<1>3. PICK old \in TrConns : old = conn[i]
  BY <1>1, ConnTyped
<1>4. conn[i].phase = "replay" /\ UNCHANGED <<kernel, hist, broker, disturbed, left>>
  BY DEF Replay
<1>5. PICK from \in Int, at \in Nat \ {0} : from = conn[i].from /\ at = conn[i].next
  BY <1>1, <1>4, ConnTyped DEF PlainInvariant, ConnsKnown
<1>6. PICK log \in Seq(TrPatches) : log = broker.log
  BY <1>1 DEF PlainInvariant, TrTypes
<1>7. PICK j : j = NextReplay(log, from, at)
  OBVIOUS
<1>8. \/ j = Len(log) + 1 /\ \A l \in at..Len(log) : log[l].rev <= from
      \/ /\ j \in Nat /\ at <= j /\ j <= Len(log) /\ log[j].rev > from
         /\ \A l \in at..Len(log) : l < j => log[l].rev <= from
  BY <1>7, NextReplayIs
<1>9. /\ broker' \in BrokerRecords /\ broker' = broker /\ disturbed' = disturbed /\ disturbed \subseteq TrClients
      /\ broker.served \cup broker.conns \subseteq DOMAIN conn /\ (broker.out = <<>> => broker.served = {})
      /\ (conn[i].up => i \in broker.conns) /\ kernel' = kernel /\ hist' = hist
      /\ kernel.rev \in Nat /\ Len(hist) = kernel.rev + 1
      /\ replica \in [TrClients -> [rev : Int, state : TrStates]] /\ conn \in Seq(TrConns)
      /\ \A l \in DOMAIN log : log[l].rev <= kernel.rev
  BY <1>1, <1>4, <1>6 DEF PlainInvariant, ConnsKnown, TrTypes, BrokerRecords, LogHolds, Sorted
<1>10. Replica(i) = replica[c]
  BY <1>2 DEF Replica
<1>11. Len(log) \in Nat /\ DOMAIN log = 1..Len(log) /\ \A l \in 1..Len(log) : log[l].rev \in Nat
  <2>1. \A l \in 1..Len(log) : log[l] \in TrPatches
    OBVIOUS
  <2> QED
    BY <2>1 DEF TrPatches
<1>12. ASSUME conn[i].up, c \notin disturbed
       PROVE  \E r \in Nat : /\ r = replica[c].rev /\ from >= 0 /\ r >= from /\ at <= Len(log) + 1
                             /\ \/ Tells(hist, log, at, r) /\ \A l \in DOMAIN log : l < at => log[l].rev <= r
                                \/ at > Len(log) /\ OutLeads(i)
  <2>1. ConnHolds(i)
    BY <1>1, <1>2, <1>12 DEF TrSafe
  <2>2. replica[c].rev \in Nat
    BY <1>4, <1>9, <1>10, <2>1 DEF ConnHolds, Replica
  <2> QED
    BY <1>2, <1>4, <1>5, <1>6, <2>1, <2>2 DEF ConnHolds, LogLeads, Replica
<1>13. CASE j > Len(log)
  <2>1. conn' = [conn EXCEPT ![i] = Open(i)] /\ replica' = replica
    BY <1>5, <1>6, <1>7, <1>13 DEF Replay
  <2>2. PICK record \in TrConns : record = Open(i) /\ record.owner = c /\ record.up = conn[i].up /\ record.phase = "open"
    BY <1>1, <1>2, OpenTyped
  <2>3. conn'[i] = record /\ conn' = [conn EXCEPT ![i] = record]
    BY <1>9, <2>1, <2>2
  <2>4. \A l \in at..Len(log) : log[l].rev <= from
    BY <1>8, <1>11, <1>13
  <2>5. ClientHolds(c)'
    <3>1. ClientHolds(c)
      BY <1>1 DEF TrSafe
    <3> QED
      BY <1>9, <2>1, <3>1 DEF ClientHolds, ExactReplica, OutIsTrue, LogTells
  <2>6. ASSUME record.up, c \notin disturbed' PROVE ConnHolds(i)'
    <3>1. PICK r \in Nat : /\ r = replica[c].rev /\ from >= 0 /\ r >= from /\ at <= Len(log) + 1
                           /\ \/ Tells(hist, log, at, r) /\ \A l \in DOMAIN log : l < at => log[l].rev <= r
                              \/ at > Len(log) /\ OutLeads(i)
      BY <1>9, <1>12, <2>2, <2>6
    <3>2. OutLeads(i)
      <4>1. CASE Tells(hist, log, at, r) /\ \A l \in DOMAIN log : l < at => log[l].rev <= r
        <5>1. \A l \in DOMAIN log : log[l].rev <= r
          <6> SUFFICES ASSUME NEW l \in DOMAIN log PROVE log[l].rev <= r
            OBVIOUS
          <6>1. CASE l < at
            BY <4>1, <6>1
          <6>2. CASE ~(l < at)
            <7>1. l \in at..Len(log)
              BY <1>11, <6>2
            <7> QED
              BY <1>11, <2>4, <3>1, <7>1
          <6> QED
            BY <6>1, <6>2
        <5>2. PICK t \in Nat \ {0} : t = Pending(i)
          BY DEF Pending
        <5>3. Tells(hist, broker.out, t, r) /\ LastLogged <= r
          BY <1>2, <1>6, <1>9, <2>6, <3>1, <4>1, <5>1, WholeLogLeads
        <5> QED
          BY <1>10, <3>1, <5>2, <5>3, <1>2 DEF OutLeads, Replica
      <4> QED
        BY <3>1, <4>1
    <3>3. Replica(i)' = replica[c] /\ Replica(i) = replica[c]
      BY <1>2, <2>1, <2>2, <2>3 DEF Replica
    <3>4. OutLeads(i)'
      BY <1>9, <3>2, <3>3 DEF OutLeads, Pending, LastLogged
    <3> QED
      BY <2>2, <2>3, <3>1, <3>3, <3>4 DEF ConnHolds
  <2>7. Received(i, Replica(i)) /\ ReplicaFits(Replica(i))
    BY <1>1, <1>9, <2>1, ConnTyped DEF Received, Replica
  <2>8. record.phase = "replay" => record.next >= 1
    BY <2>2
  <2>9. record.up => conn[i].up /\ i \in broker'.conns
    BY <1>9, <2>2
  <2> QED
    BY <1>2, <1>9, <2>2, <2>3, <2>5, <2>6, <2>7, <2>8, <2>9, ConnSteps
<1>14. CASE ~(j > Len(log))
  <2>1. /\ j \in Nat /\ at <= j /\ j <= Len(log) /\ log[j].rev > from /\ j \in 1..Len(log)
        /\ \A l \in at..Len(log) : l < j => log[l].rev <= from
    BY <1>8, <1>11, <1>14
  <2>2. PICK p \in TrPatches : p = log[j] /\ p.rev <= kernel.rev /\ p.rev \in Nat
    BY <1>9, <1>11, <2>1
  <2>3. conn' = [conn EXCEPT ![i].next = j + 1] /\ Received(i, Patched(Replica(i), p))
    BY <1>5, <1>6, <1>7, <1>14, <2>2 DEF Replay
  <2>4. PICK next \in Nat : next = j + 1
    BY <2>1
  <2>5. PICK record \in TrConns : /\ record = [old EXCEPT !.next = next] /\ record.owner = c /\ record.up = conn[i].up
                                  /\ record.phase = "replay" /\ record.from = from /\ record.next = next
    <3>1. [old EXCEPT !.next = next] \in TrConns
      BY DEF TrConns
    <3> QED
      BY <1>2, <1>3, <1>4, <1>5, <3>1 DEF TrConns
  <2>6. conn'[i] = record /\ conn' = [conn EXCEPT ![i] = record]
    BY <1>3, <1>9, <2>3, <2>4, <2>5
  <2>7. PICK held : held = Patched(Replica(i), p)
    OBVIOUS
  <2>8. ReplicaFits(held) /\ Received(i, held)
    BY <1>1, <2>2, <2>3, <2>7, PatchFits
  <2>9. ASSUME conn[i].up, c \notin disturbed' PROVE ClientHolds(c)' /\ ConnHolds(i)'
    <3>1. PICK r \in Nat : /\ r = replica[c].rev /\ from >= 0 /\ r >= from /\ at <= Len(log) + 1
                           /\ \/ Tells(hist, log, at, r) /\ \A l \in DOMAIN log : l < at => log[l].rev <= r
                              \/ at > Len(log) /\ OutLeads(i)
      BY <1>9, <1>12, <2>9
    <3>2. Tells(hist, log, at, r) /\ \A l \in DOMAIN log : l < at => log[l].rev <= r
      BY <1>11, <2>1, <3>1
    <3>3. \A l \in DOMAIN log : l < j => log[l].rev <= r
      <4> SUFFICES ASSUME NEW l \in DOMAIN log, l < j PROVE log[l].rev <= r
        OBVIOUS
      <4>1. CASE l < at
        BY <3>2, <4>1
      <4>2. CASE ~(l < at)
        <5>1. l \in at..Len(log)
          BY <1>11, <4>2
        <5> QED
          BY <1>11, <2>1, <3>1, <5>1
      <4> QED
        BY <4>1, <4>2
    <3>4. Fits(r, p)
      <4>1. p.rev # 0
        BY <2>1, <2>2, <3>1
      <4>2. ASSUME p.rev > r
            PROVE  IsNews(hist, p, r)
        <5>1. p.rev < Len(hist) /\ Len(hist) \in Nat /\ j \in at..Len(log)
          BY <1>9, <2>1, <2>2
        <5>2. PICK k \in at..Len(log) : k = j
          BY <5>1
        <5>3. KnownBefore(log, at, k, r)
          BY <1>11, <3>3, <5>2 DEF KnownBefore
        <5>4. Tells(hist, log, at, r) /\ p = log[k]
          BY <2>2, <3>2, <5>2
        <5> QED
          BY <4>2, <5>1, <5>3, <5>4, FirstFits
      <4> QED
        BY <2>2, <4>1, <4>2 DEF Fits
    <3>5. PICK t \in Nat : /\ t = (IF p.rev > r THEN p.rev ELSE r) /\ t <= kernel.rev
                           /\ Patched(replica[c], p).rev = t
                           /\ Patched(replica[c], p) = replica[c] \/ Patched(replica[c], p).state = hist[t + 1]
      <4>1. c \notin disturbed /\ r = replica[c].rev
        BY <1>9, <2>9, <3>1
      <4> QED
        BY <3>4, <4>1, PatchMoves
    <3>6. replica'[c] = held /\ Replica(i)' = held /\ Replica(i) = replica[c]
      BY <1>2, <1>9, <2>5, <2>6, <2>8, <2>9 DEF Received, Replica
    <3>7. r <= t /\ p.rev <= t /\ held.rev = t /\ (replica'[c] = replica[c] \/ replica'[c].state = hist[t + 1])
      BY <2>2, <2>7, <3>5, <3>6
    <3>8. ClientHolds(c)'
      BY <1>9, <2>9, <3>1, <3>5, <3>6, <3>7, ReplicaMoves
    <3>9. \A l \in DOMAIN log : l < next => log[l].rev <= t
      <4> SUFFICES ASSUME NEW l \in DOMAIN log, l < next PROVE log[l].rev <= t
        OBVIOUS
      <4>1. l < j \/ l = j
        BY <1>11, <2>1, <2>4
      <4> QED
        BY <1>11, <2>2, <3>3, <3>7, <4>1
    <3>10. Tells(hist, log, next, t)
      <4>1. Len(hist) \in Nat /\ at \in Nat /\ at <= next
        BY <1>9, <2>1, <2>4
      <4>2. Tells(hist, log, at, t)
        BY <3>2, <3>7, <4>1, TellsLater
      <4>3. \A l \in at..Len(log) : l < next => log[l].rev <= t
        BY <1>11, <3>9
      <4> QED
        BY <4>1, <4>2, <4>3, TellsOn
    <3>11. LogLeads(i)'
      <4>1. hist' = hist /\ broker'.log = log /\ conn'[i].next = next /\ Replica(i)'.rev = t
        BY <1>6, <1>9, <2>5, <2>6, <3>6, <3>7
      <4> QED
        BY <3>9, <3>10, <4>1 DEF LogLeads
    <3>12. next >= 1 /\ next <= Len(log) + 1 /\ t >= 0 /\ t >= from
      BY <1>11, <2>1, <2>4, <3>1, <3>7
    <3> QED
      BY <1>6, <1>9, <2>5, <2>6, <3>1, <3>6, <3>7, <3>8, <3>11, <3>12 DEF ConnHolds
  <2>10. (conn[i].up /\ c \notin disturbed' => ClientHolds(c)') /\ (record.up /\ c \notin disturbed' => ConnHolds(i)')
    BY <2>5, <2>9
  <2>11. /\ record.phase = "replay" => record.next >= 1
         /\ record.up => conn[i].up /\ i \in broker'.conns
    BY <1>9, <2>1, <2>4, <2>5
  <2> QED
    BY <1>2, <1>9, <2>5, <2>6, <2>8, <2>10, <2>11, ConnSteps
<1> QED
  BY <1>13, <1>14

\* The frame of a step of one connection that leaves the broker as it is.
LEMMA BrokerRests ==
  ASSUME TrInvariant, NEW i \in DOMAIN conn, broker' = broker
  PROVE  /\ broker' \in BrokerRecords /\ broker.served \cup broker.conns \subseteq DOMAIN conn /\ disturbed \subseteq TrClients
         /\ broker.out = <<>> => broker.served = {}
         /\ conn[i].up => i \in broker.conns
BY DEF TrInvariant, ConnsKnown, TrTypes, BrokerRecords

\* A renderer that begins anew is sent the program.
LEMMA ProgramKeeps == ASSUME TrInvariant, NEW i \in DOMAIN conn, SendProgram(i) PROVE TrInvariant'
<1>1. PlainInvariant /\ TrSafe
  BY DEF TrInvariant, PlainInvariant
<1>2. PICK c \in TrClients : c = conn[i].owner
  BY <1>1, ConnTyped
<1>3. PICK old \in TrConns, program \in Int : old = conn[i] /\ program = conn[i].program
  BY <1>1, ConnTyped
<1>4. /\ conn[i].phase = "vocabulary" /\ UNCHANGED <<kernel, hist, broker, disturbed, left>>
      /\ conn' = [conn EXCEPT ![i].phase = "program"]
      /\ Received(i, WithProgram(Replica(i), program))
  BY <1>3 DEF SendProgram
<1>5. PICK record \in TrConns : /\ record = [old EXCEPT !.phase = "program"] /\ record.owner = c
                                /\ record.up = conn[i].up /\ record.phase = "program" /\ record.program = program
  <2>1. [old EXCEPT !.phase = "program"] \in TrConns
    BY DEF TrConns
  <2> QED
    BY <1>2, <1>3, <2>1 DEF TrConns
<1>6. conn \in Seq(TrConns) /\ replica \in [TrClients -> [rev : Int, state : TrStates]]
  BY <1>1 DEF PlainInvariant, TrTypes
<1>7. conn'[i] = record /\ conn' = [conn EXCEPT ![i] = record]
  BY <1>3, <1>4, <1>5, <1>6
<1>8. PICK held : held = WithProgram(Replica(i), program)
  OBVIOUS
<1>9. ReplicaFits(held) /\ held.rev = Replica(i).rev /\ held.state["program"] = program
  <2>1. PICK was \in [rev : Int, state : TrStates] : was = Replica(i) /\ ReplicaFits(was)
    BY <1>1, ConnTyped DEF ReplicaFits
  <2>2. PICK state \in TrStates : state = [was.state EXCEPT !["program"] = program] /\ state["program"] = program
    <3>1. [was.state EXCEPT !["program"] = program] \in TrStates
      BY DEF TrStates
    <3> QED
      BY <3>1 DEF TrStates, Keys
  <2>3. held = [was EXCEPT !.state = state]
    BY <1>8, <2>1, <2>2 DEF WithProgram
  <2> QED
    BY <2>1, <2>2, <2>3 DEF ReplicaFits
<1>10. ASSUME conn[i].up, c \notin disturbed' PROVE ClientHolds(c)' /\ ConnHolds(i)'
  <2>1. ConnHolds(i)
    BY <1>1, <1>2, <1>4, <1>10 DEF TrSafe
  <2>2. Replica(i).rev = -1
    BY <1>4, <2>1 DEF ConnHolds
  <2>3. replica'[c] = held /\ Replica(i)' = held
    <3>1. Received(i, held)
      BY <1>4, <1>8
    <3> QED
      BY <1>2, <1>5, <1>6, <1>7, <1>10, <3>1 DEF Received, Replica
  <2>4. ClientHolds(c)'
    BY <1>9, <2>2, <2>3 DEF ClientHolds
  <2>5. ConnHolds(i)'
    BY <1>5, <1>7, <1>9, <2>2, <2>3 DEF ConnHolds
  <2> QED
    BY <2>4, <2>5
<1>11. (conn[i].up /\ c \notin disturbed' => ClientHolds(c)') /\ (record.up /\ c \notin disturbed' => ConnHolds(i)')
  BY <1>5, <1>10
<1>12. /\ broker' \in BrokerRecords /\ broker.served \cup broker.conns \subseteq DOMAIN conn /\ disturbed \subseteq TrClients
       /\ broker.out = <<>> => broker.served = {}
       /\ conn[i].up => i \in broker.conns
  BY <1>4, BrokerRests
<1>13. Received(i, held) /\ (record.phase = "replay" => record.next >= 1)
  BY <1>4, <1>5, <1>8
<1>14. kernel' = kernel /\ hist' = hist /\ broker' = broker /\ disturbed' = disturbed
  BY <1>4
<1>15. record.owner = c /\ (record.up => conn[i].up) /\ ReplicaFits(held)
  BY <1>5, <1>9
<1> QED
  BY <1>2, <1>7, <1>11, <1>12, <1>13, <1>14, <1>15, ConnSteps

\* A renderer that begins anew is sent the snapshot.
LEMMA SnapshotKeeps == ASSUME TrInvariant, NEW i \in DOMAIN conn, SendSnapshot(i) PROVE TrInvariant'
<1>1. PlainInvariant /\ TrSafe
  BY DEF TrInvariant, PlainInvariant
<1>2. PICK c \in TrClients : c = conn[i].owner
  BY <1>1, ConnTyped
<1>3. /\ conn[i].phase = "program" /\ UNCHANGED <<kernel, hist, broker, left>>
      /\ conn' = [conn EXCEPT ![i] = Open(i)]
      /\ Received(i, Patched(Replica(i), Snapshot))
  BY DEF SendSnapshot
<1>4. PICK record \in TrConns : record = Open(i) /\ record.owner = c /\ record.up = conn[i].up /\ record.phase = "open"
  BY <1>1, <1>2, OpenTyped
<1>5. /\ conn \in Seq(TrConns) /\ replica \in [TrClients -> [rev : Int, state : TrStates]]
      /\ kernel.rev \in Nat /\ kernel.state \in TrStates /\ hist \in Seq(TrStates) /\ Len(hist) = kernel.rev + 1
      /\ broker.log \in Seq(TrPatches) /\ broker.out \in Seq(TrPatches) /\ disturbed \subseteq TrClients
  BY <1>1 DEF PlainInvariant, TrTypes
<1>6. conn'[i] = record /\ conn' = [conn EXCEPT ![i] = record]
  BY <1>3, <1>4, <1>5
<1>7. PICK p \in TrPatches : p = Snapshot /\ p.rev = kernel.rev /\ p.sets = Only(kernel.state, Data)
  <2>1. Data \in SUBSET Keys /\ Data \subseteq DOMAIN kernel.state /\ \A k \in Data : kernel.state[k] \in Int
    BY <1>5 DEF TrStates, Data, Keys
  <2>2. Only(kernel.state, Data) \in TrSets
    BY <2>1, OnlyTyped
  <2>3. [rev |-> kernel.rev, sets |-> Only(kernel.state, Data)] \in TrPatches
    BY <1>5, <2>2 DEF TrPatches
  <2> QED
    BY <2>3 DEF Snapshot
<1>8. PICK held : held = Patched(Replica(i), p)
  OBVIOUS
<1>9. ReplicaFits(held) /\ Received(i, held)
  <2>1. p.rev <= kernel.rev
    BY <1>5, <1>7
  <2> QED
    BY <1>1, <1>3, <1>7, <1>8, <2>1, PatchFits
<1>10. /\ disturbed \subseteq disturbed' /\ disturbed' \subseteq TrClients
       /\ c \notin disturbed' => c \notin disturbed /\ conn[i].program = hist[kernel.rev + 1]["program"]
  BY <1>2, <1>5 DEF SendSnapshot
<1>11. ASSUME conn[i].up, c \notin disturbed' PROVE ClientHolds(c)' /\ ConnHolds(i)'
  <2>1. ConnHolds(i)
    BY <1>1, <1>2, <1>10, <1>11 DEF TrSafe
  <2>2. PICK was \in [rev : Int, state : TrStates] : was = Replica(i) /\ was.rev = -1
    BY <1>1, <1>3, <2>1, ConnTyped DEF ConnHolds, ReplicaFits
  <2>3. was.state["program"] = hist[kernel.rev + 1]["program"]
    BY <1>3, <1>10, <1>11, <2>1, <2>2 DEF ConnHolds
  <2>4. was.state.program # -1
    <3>1. kernel.rev + 1 \in DOMAIN hist
      BY <1>5
    <3> QED
      BY <1>1, <2>3, <3>1 DEF PlainInvariant, KernelHolds, HasProgram
  <2>5. held = [rev |-> kernel.rev, state |-> Set(was.state, Only(kernel.state, Data))]
    BY <1>5, <1>7, <1>8, <2>2, <2>4 DEF Patched
  <2>6. replica'[c] = held /\ Replica(i)' = held
    BY <1>2, <1>4, <1>5, <1>6, <1>9, <1>11 DEF Received, Replica
  <2>7. ASSUME NEW k \in Keys PROVE held.state[k] \in {hist[kernel.rev + 1][k], kernel.state[k]}
    <3>1. CASE k \in Data
      BY <2>5, <3>1 DEF Set, Only
    <3>2. CASE k \notin Data
      BY <2>3, <2>5, <3>2 DEF Set, Only, Data, Keys
    <3> QED
      BY <3>1, <3>2
  <2>8. ASSUME NEW patches \in Seq(TrPatches), NEW s PROVE Tells(hist, patches, s, kernel.rev)
    BY <1>5 DEF Tells
  <2>9. /\ replica'[c].rev = kernel.rev /\ kernel' = kernel /\ hist' = hist /\ broker' = broker
    BY <1>3, <2>5, <2>6
  <2>10. ExactReplica(c)'
    BY <2>6, <2>7, <2>9, <1>5 DEF ExactReplica
  <2>11. OutIsTrue(kernel.rev)'
    <3>1. \A j \in DOMAIN broker.out : broker.out[j] \in TrPatches /\ broker.out[j].rev <= kernel.rev
      BY <1>1, <1>5 DEF PlainInvariant, LogHolds, Sorted
    <3>2. \A j \in DOMAIN broker.out : ~(broker.out[j].rev > kernel.rev)
      BY <1>5, <3>1 DEF TrPatches
    <3> QED
      BY <2>9, <3>2 DEF OutIsTrue
  <2>12. LogTells(kernel.rev)'
    <3> SUFFICES ASSUME NEW t \in Nat, t >= kernel.rev PROVE Tells(hist, broker.log, 1, t)
      BY <2>9 DEF LogTells
    <3> QED
      BY <1>5 DEF Tells
  <2>13. ClientHolds(c)'
    BY <2>9, <2>10, <2>11, <2>12 DEF ClientHolds
  <2>14. OutLeads(i)'
    <3>1. LastLogged <= kernel.rev
      <4>1. broker.log # <<>>
        BY <1>1, ConnTyped DEF PlainInvariant, LogHolds
      <4> QED
        BY <1>1, <4>1, LastLoggedIs
    <3>2. Tells(hist, broker.out, Pending(i), kernel.rev)
      BY <1>5, <2>8
    <3>3. Replica(i)'.rev = kernel.rev
      BY <2>5, <2>6
    <3> QED
      BY <2>9, <3>1, <3>2, <3>3 DEF OutLeads, Pending, LastLogged
  <2>15. ConnHolds(i)'
    BY <1>4, <1>5, <1>6, <2>5, <2>6, <2>14 DEF ConnHolds
  <2> QED
    BY <2>13, <2>15
<1>12. (conn[i].up /\ c \notin disturbed' => ClientHolds(c)') /\ (record.up /\ c \notin disturbed' => ConnHolds(i)')
  BY <1>4, <1>11
<1>13. /\ broker' \in BrokerRecords /\ broker.served \cup broker.conns \subseteq DOMAIN conn
       /\ broker.out = <<>> => broker.served = {}
       /\ conn[i].up => i \in broker.conns
  BY <1>3, BrokerRests
<1>14. record.phase = "replay" => record.next >= 1
  BY <1>4
<1> QED
  BY <1>2, <1>3, <1>4, <1>6, <1>9, <1>10, <1>12, <1>13, <1>14, ConnSteps, ZenonT(30)

(***************************************************************************)
(* A patch leaves the queue.                                               *)
(***************************************************************************)
LEMMA QueueShrinks ==
  ASSUME TrInvariant, broker.out # <<>>, broker' = BroadcastOver(broker), UNCHANGED <<kernel, hist, conn, replica>>,
         disturbed \subseteq disturbed', disturbed' \subseteq TrClients,
         \A i \in Unserved : conn[i].owner \in disturbed'
  PROVE  TrInvariant'
<1>1. PlainInvariant /\ TrSafe
  BY DEF TrInvariant, PlainInvariant
<1>2. PICK out \in Seq(TrPatches) : out = broker.out
  BY <1>1 DEF PlainInvariant, TrTypes
<1>3. PICK rest \in Seq(TrPatches) : /\ rest = Tail(out) /\ Len(rest) = Len(out) - 1 /\ Len(out) \in Nat \ {0}
                                     /\ \A j \in 1..(Len(out) - 1) : rest[j] = out[j + 1]
  <2>1. out # <<>>
    BY <1>2
  <2>2. Tail(out) \in Seq(TrPatches) /\ Len(Tail(out)) = Len(out) - 1 /\ Len(out) \in Nat \ {0}
    BY <2>1
  <2>3. \A j \in 1..(Len(out) - 1) : Tail(out)[j] = out[j + 1]
    BY <2>1
  <2> QED
    BY <2>2, <2>3
<1>4. /\ broker' \in BrokerRecords /\ broker'.log = broker.log /\ broker'.out = rest /\ broker'.served = {}
      /\ broker'.baselined = broker.baselined /\ broker'.conns = broker.conns
  <2>1. broker \in BrokerRecords
    BY <1>1 DEF PlainInvariant, TrTypes, BrokerRecords
  <2>2. PICK waits \in Nat : waits = IF broker.waits = 0 THEN 0 ELSE broker.waits - 1
    BY <2>1 DEF BrokerRecords
  <2>3. PICK served \in SUBSET Nat : served = {}
    OBVIOUS
  <2>4. broker' = [broker EXCEPT !.out = rest, !.served = served, !.waits = waits]
    BY <1>2, <1>3, <2>2, <2>3 DEF BroadcastOver
  <2> QED
    BY <2>1, <2>3, <2>4 DEF BrokerRecords
<1>5. DOMAIN rest = 1..(Len(out) - 1) /\ DOMAIN out = 1..Len(out) /\ \A j \in DOMAIN rest : j + 1 \in DOMAIN out /\ rest[j] = out[j + 1]
  BY <1>3
<1>6. TrTypes' /\ KernelHolds'
  BY <1>1, <1>4 DEF PlainInvariant, TrTypes, BrokerRecords, KernelHolds
<1>7. LogHolds'
  <2>1. Sorted(broker.out)'
    <3>1. Sorted(out)
      BY <1>1, <1>2 DEF PlainInvariant, LogHolds
    <3>2. \A a, b \in DOMAIN rest : a <= b => a + 1 <= b + 1
      BY <1>5
    <3> QED
      BY <1>4, <1>5, <3>1, <3>2 DEF Sorted
  <2>2. Sorted(broker.log)'
    BY <1>1, <1>4 DEF PlainInvariant, LogHolds, Sorted
  <2>3. \A j \in DOMAIN out : /\ broker.log # <<>> /\ out[j].rev <= LastLogged
                              /\ out[j].rev = 0 => out[j].sets = NoContent
    BY <1>1, <1>2 DEF PlainInvariant, LogHolds
  <2>4. \A j \in DOMAIN rest : /\ broker.log # <<>> /\ rest[j].rev <= LastLogged
                               /\ rest[j].rev = 0 => rest[j].sets = NoContent
    BY <1>5, <2>3
  <2> QED
    BY <1>1, <1>4, <2>1, <2>2, <2>4 DEF PlainInvariant, LogHolds, LastLogged
<1>8. ConnsKnown'
  BY <1>1, <1>4 DEF PlainInvariant, ConnsKnown
<1>9. ASSUME NEW c \in TrClients PROVE ClientHolds(c)'
  <2>1. ClientHolds(c) /\ (c \notin disturbed' => c \notin disturbed)
    BY <1>1 DEF TrSafe
  <2>2. OutIsTrue(replica[c].rev) => OutIsTrue(replica[c].rev)'
    <3> SUFFICES ASSUME OutIsTrue(replica[c].rev), NEW j \in DOMAIN rest, rest[j].rev > replica[c].rev, rest[j].sets # NoContent
                 PROVE  hist[rest[j].rev + 1] = Set(hist[rest[j].rev], rest[j].sets)
      BY <1>4 DEF OutIsTrue
    <3>1. j + 1 \in DOMAIN broker.out /\ rest[j] = broker.out[j + 1]
      BY <1>2, <1>5
    <3> QED
      BY <3>1 DEF OutIsTrue
  <2>3. ExactReplica(c) => ExactReplica(c)'
    BY DEF ExactReplica
  <2>4. LogTells(replica[c].rev) => LogTells(replica[c].rev)'
    BY <1>4 DEF LogTells
  <2> QED
    BY <2>1, <2>2, <2>3, <2>4 DEF ClientHolds
<1>10. ASSUME NEW i \in DOMAIN conn, conn[i].up, conn[i].owner \notin disturbed' PROVE ConnHolds(i)'
  <2>1. ConnHolds(i)
    BY <1>1, <1>10 DEF TrSafe
  <2>2. i \in broker.served
    BY <1>1, <1>10 DEF Unserved, PlainInvariant, ConnsKnown
  <2>3. Pending(i) = 2 /\ Pending(i)' = 1
    BY <1>4, <2>2 DEF Pending
  <2>4. Replica(i)' = Replica(i) /\ LastLogged' = LastLogged /\ ReplicaFits(Replica(i))
    BY <1>1, <1>4, ConnTyped DEF Replica, LastLogged
  <2>5. ASSUME Replica(i).rev >= 0, OutLeads(i) PROVE OutLeads(i)'
    <3>1. PICK r \in Nat : r = Replica(i).rev
      BY <2>4, <2>5 DEF ReplicaFits
    <3>2. Tells(hist, out, 2, r) /\ (LastLogged <= r \/ \E j \in 2..Len(out) : out[j].rev >= LastLogged)
      BY <1>2, <2>3, <2>5, <3>1 DEF OutLeads
    <3>3. Tells(hist, rest, 1, r)
      <4>1. Len(hist) \in Nat /\ out # <<>>
        BY <1>1, <1>2 DEF PlainInvariant, TrTypes
      <4>2. 2 \in Nat /\ 2 >= 2 /\ 2 - 1 = 1
        OBVIOUS
      <4>3. Tells(hist, Tail(out), 2 - 1, r)
        BY <3>2, <4>1, <4>2, TellsInTail
      <4> QED
        BY <1>3, <4>2, <4>3
    <3>4. LastLogged <= r \/ \E j \in 1..Len(rest) : rest[j].rev >= LastLogged
      <4>1. ASSUME NEW j \in 2..Len(out), out[j].rev >= LastLogged PROVE \E l \in 1..Len(rest) : rest[l].rev >= LastLogged
        <5>1. j - 1 \in 1..Len(rest) /\ rest[j - 1] = out[(j - 1) + 1] /\ (j - 1) + 1 = j
          BY <1>3
        <5> QED
          BY <4>1, <5>1
      <4> QED
        BY <3>2, <4>1
    <3> QED
      BY <1>4, <2>3, <2>4, <3>1, <3>3, <3>4 DEF OutLeads
  <2>6. LogLeads(i) => LogLeads(i)'
    BY <1>4, <2>4 DEF LogLeads
  <2> QED
    BY <1>4, <2>1, <2>4, <2>5, <2>6 DEF ConnHolds
<1>11. TrSafe'
  BY <1>9, <1>10 DEF TrSafe
<1> QED
  BY <1>6, <1>7, <1>8, <1>11 DEF TrInvariant

\* All connections were sent the patch, or the send to one of them is rejected.
LEMMA BroadcastOverKeeps == ASSUME TrInvariant, BroadcastEnds \/ BroadcastFails PROVE TrInvariant'
<1>1. disturbed \subseteq TrClients /\ conn \in Seq(TrConns)
  BY DEF TrInvariant, TrTypes
<1>2. CASE BroadcastEnds
  <2>1. /\ broker.out # <<>> /\ broker' = BroadcastOver(broker) /\ UNCHANGED <<kernel, hist, conn, replica>>
        /\ disturbed \subseteq disturbed' /\ disturbed' \subseteq TrClients
        /\ \A i \in Unserved : conn[i].owner \in disturbed'
    BY <1>1, <1>2 DEF BroadcastEnds
  <2> QED
    BY <2>1, QueueShrinks
<1>3. CASE BroadcastFails
  <2>1. \A i \in DOMAIN conn : conn[i].owner \in TrClients
    <3>1. \A i \in DOMAIN conn : conn[i] \in TrConns
      BY <1>1
    <3> QED
      BY <3>1 DEF TrConns
  <2>2. Unserved \subseteq DOMAIN conn
    BY DEF Unserved, TrInvariant, ConnsKnown
  <2>3. /\ UNCHANGED <<kernel, hist, conn, replica>> /\ broker.out # <<>> /\ broker' = BroadcastOver(broker)
        /\ disturbed' = disturbed \cup {conn[i].owner : i \in Unserved}
    BY <1>3 DEF BroadcastFails
  <2>4. /\ disturbed \subseteq disturbed' /\ disturbed' \subseteq TrClients
        /\ \A i \in Unserved : conn[i].owner \in disturbed'
    BY <1>1, <2>1, <2>2, <2>3
  <2> QED
    BY <2>3, <2>4, QueueShrinks
<1> QED
  BY <1>2, <1>3

(***************************************************************************)
(* A renderer attaches.                                                    *)
(***************************************************************************)
\* The kernel and the broker after an attach, which may seed the machines.
LEMMA Seeded ==
  ASSUME TrInvariant,
         kernel' = [kernel EXCEPT !.state = Baseline,
                                  !.mutation.by = IF kernel.state # Baseline /\ @ # "none" THEN "torn" ELSE @],
         hist' = BaselinedHist,
         broker' = [broker EXCEPT !.log = BaselinedLog, !.baselined = TRUE, !.conns = @ \cup {Len(conn) + 1}]
  PROVE  /\ kernel' \in [rev : Nat, state : TrStates, saved : TrStates,
                         mutation : [by : {"none", "host", "direct", "torn"}, sets : TrSets]]
         /\ kernel'.rev = kernel.rev /\ hist' \in Seq(TrStates) /\ Len(hist') = kernel.rev + 1
         /\ broker' \in BrokerRecords /\ broker'.baselined /\ broker'.log = BaselinedLog /\ broker'.out = broker.out
         /\ broker'.served = broker.served /\ broker'.conns = broker.conns \cup {Len(conn) + 1}
         /\ KernelHolds' /\ LogHolds'
         /\ broker.baselined => kernel' = kernel /\ hist' = hist /\ broker'.log = broker.log
<1>1. PlainInvariant
  BY DEF TrInvariant, PlainInvariant
<1>2. /\ kernel \in [rev : Nat, state : TrStates, saved : TrStates,
                     mutation : [by : {"none", "host", "direct", "torn"}, sets : TrSets]]
      /\ broker \in BrokerRecords /\ conn \in Seq(TrConns)
  BY <1>1 DEF PlainInvariant, TrTypes, BrokerRecords
<1>3. PICK m \in [by : {"none", "host", "direct", "torn"}, sets : TrSets] : m = kernel.mutation
  BY <1>2
<1>4. PICK by \in {"none", "host", "direct", "torn"} : by = IF kernel.state # Baseline /\ m.by # "none" THEN "torn" ELSE m.by
  OBVIOUS
<1>5. PICK n \in [by : {"none", "host", "direct", "torn"}, sets : TrSets] : n = [m EXCEPT !.by = by] /\ n.by = by /\ n.sets = m.sets
  <2>1. [m EXCEPT !.by = by] \in [by : {"none", "host", "direct", "torn"}, sets : TrSets]
    OBVIOUS
  <2> QED
    BY <2>1
<1>6. PICK base \in TrStates : base = Baseline /\ HasProgram(base)
  BY <1>1, BaselineIs
<1>7. /\ kernel' \in [rev : Nat, state : TrStates, saved : TrStates,
                      mutation : [by : {"none", "host", "direct", "torn"}, sets : TrSets]]
      /\ kernel'.rev = kernel.rev /\ kernel'.state = base /\ kernel'.mutation = n /\ kernel'.saved = kernel.saved
  <2>1. kernel' = [kernel EXCEPT !.state = base, !.mutation = n]
    BY <1>2, <1>3, <1>4, <1>5, <1>6
  <2> QED
    BY <1>2, <2>1
<1>8. PICK log \in Seq(TrPatches) : log = BaselinedLog /\ log # <<>>
  BY <1>1, BaselinedLogIs
<1>9. /\ broker' \in BrokerRecords /\ broker'.baselined /\ broker'.log = log /\ broker'.out = broker.out
      /\ broker'.served = broker.served /\ broker'.conns = broker.conns \cup {Len(conn) + 1}
  <2>1. PICK conns \in SUBSET Nat : conns = broker.conns \cup {Len(conn) + 1}
    <3>1. Len(conn) + 1 \in Nat /\ broker.conns \subseteq Nat
      BY <1>2 DEF BrokerRecords
    <3> QED
      BY <3>1
  <2>2. PICK yes \in BOOLEAN : yes = TRUE
    OBVIOUS
  <2>3. broker' = [broker EXCEPT !.log = log, !.baselined = yes, !.conns = conns]
    BY <1>8, <2>1, <2>2
  <2> QED
    BY <1>2, <2>1, <2>2, <2>3 DEF BrokerRecords
<1>10. /\ hist' \in Seq(TrStates) /\ Len(hist') = kernel.rev + 1 /\ \A q \in DOMAIN hist' : HasProgram(hist'[q])
       /\ hist'[kernel.rev + 1] = IF kernel.mutation.by = "none" THEN base ELSE hist[kernel.rev + 1]
  BY <1>1, <1>6, BaselineIs
<1>11. KernelHolds'
  <2>1. kernel'.mutation.by = "none" => kernel'.state = hist'[kernel'.rev + 1]
    BY <1>3, <1>4, <1>5, <1>7, <1>10
  <2>2. ASSUME kernel'.mutation.by \in {"host", "direct"}
        PROVE  kernel'.state = Set(hist'[kernel'.rev + 1], kernel'.mutation.sets)
    <3>1. kernel.mutation.by \in {"host", "direct"} /\ kernel.state = base /\ kernel'.mutation.sets = kernel.mutation.sets
      BY <1>3, <1>4, <1>5, <1>6, <1>7, <2>2
    <3>2. kernel.state = Set(hist[kernel.rev + 1], kernel.mutation.sets)
      BY <1>1, <3>1 DEF PlainInvariant, KernelHolds
    <3>3. hist'[kernel.rev + 1] = hist[kernel.rev + 1]
      BY <1>10, <3>1
    <3> QED
      BY <1>7, <3>1, <3>2, <3>3
  <2>3. kernel.saved = Nothing \/ HasProgram(kernel.saved)
    BY <1>1 DEF PlainInvariant, KernelHolds
  <2> QED
    BY <1>6, <1>7, <1>10, <2>1, <2>2, <2>3 DEF KernelHolds
<1>12. LogHolds'
  <2>1. Sorted(broker.log)'
    BY <1>1, <1>7, <1>8, <1>9, BaselinedLogIs DEF Sorted
  <2>2. Sorted(broker.out)'
    BY <1>1, <1>7, <1>9 DEF PlainInvariant, LogHolds, Sorted
  <2>3. \A j \in DOMAIN broker.out : /\ log # <<>> /\ broker.out[j].rev <= log[Len(log)].rev
                                     /\ broker.out[j].rev = 0 => broker.out[j].sets = NoContent
    BY <1>1, <1>8, BaselinedLogIs DEF PlainInvariant, LogHolds
  <2> QED
    BY <1>8, <1>9, <2>1, <2>2, <2>3 DEF LogHolds, LastLogged
<1>13. ASSUME broker.baselined PROVE kernel' = kernel /\ hist' = hist /\ broker'.log = broker.log
  <2>1. Baseline = kernel.state /\ BaselinedLog = broker.log /\ BaselinedHist = hist
    BY <1>1, <1>13, BaselineIs
  <2>2. n = m
    BY <1>4, <1>5, <2>1
  <2>3. kernel' = [kernel EXCEPT !.state = base, !.mutation = n]
    BY <1>2, <1>3, <1>4, <1>5, <1>6
  <2>4. base = kernel.state /\ n = kernel.mutation /\ broker'.log = broker.log /\ hist' = hist
    BY <1>3, <1>6, <1>8, <1>9, <2>1, <2>2
  <2>5. kernel' = kernel
    BY <1>2, <2>3, <2>4
  <2> QED
    BY <2>4, <2>5
<1> QED
  BY <1>7, <1>8, <1>9, <1>10, <1>11, <1>12, <1>13

\* What an attach does to the invariant, given what it does to its renderer.
LEMMA AttachSteps ==
  ASSUME TrInvariant, NEW c \in TrClients, ~Linked(c), NEW record \in TrConns, record.owner = c,
         record.phase = "replay" => record.next >= 1, conn' = Append(conn, record),
         kernel' = [kernel EXCEPT !.state = Baseline,
                                  !.mutation.by = IF kernel.state # Baseline /\ @ # "none" THEN "torn" ELSE @],
         hist' = BaselinedHist,
         broker' = [broker EXCEPT !.log = BaselinedLog, !.baselined = TRUE, !.conns = @ \cup {Len(conn) + 1}],
         NEW held, ReplicaFits(held), replica' = [replica EXCEPT ![c] = held],
         disturbed' \in {disturbed, disturbed \ {c}},
         NEW new, new = Len(conn) + 1,
         c \notin disturbed' => ClientHolds(c)' /\ ConnHolds(new)'
  PROVE  TrInvariant'
<1>1. PlainInvariant /\ TrSafe
  BY DEF TrInvariant, PlainInvariant
<1>2. conn \in Seq(TrConns) /\ replica \in [TrClients -> [rev : Int, state : TrStates]] /\ disturbed \subseteq TrClients
  BY <1>1 DEF PlainInvariant, TrTypes
<1>3. PICK n \in Nat : n = Len(conn) /\ DOMAIN conn = 1..n
  BY <1>2
<1>4. /\ conn' \in Seq(TrConns) /\ DOMAIN conn' = 1..(n + 1) /\ conn'[n + 1] = record
      /\ \A j \in 1..n : conn'[j] = conn[j]
  BY <1>2, <1>3
<1>5. /\ replica' \in [TrClients -> [rev : Int, state : TrStates]] /\ replica'[c] = held
      /\ \A d \in TrClients : d # c => replica'[d] = replica[d]
  <2>1. held \in [rev : Int, state : TrStates]
    BY DEF ReplicaFits
  <2> QED
    BY <1>2, <2>1
<1>6. /\ kernel' \in [rev : Nat, state : TrStates, saved : TrStates,
                      mutation : [by : {"none", "host", "direct", "torn"}, sets : TrSets]]
      /\ kernel'.rev = kernel.rev /\ hist' \in Seq(TrStates) /\ Len(hist') = kernel.rev + 1
      /\ broker' \in BrokerRecords /\ broker'.baselined /\ broker'.log = BaselinedLog /\ broker'.out = broker.out
      /\ broker'.served = broker.served /\ broker'.conns = broker.conns \cup {n + 1}
      /\ KernelHolds' /\ LogHolds'
      /\ broker.baselined => kernel' = kernel /\ hist' = hist /\ broker'.log = broker.log
  BY <1>3, Seeded
<1>7. TrTypes'
  BY <1>2, <1>4, <1>5, <1>6 DEF TrTypes, BrokerRecords
<1>8. \A j \in 1..n : conn[j].up => conn[j].owner # c /\ conn[j].owner \in TrClients
  <2>1. \A j \in 1..n : conn[j] \in TrConns
    BY <1>2, <1>3
  <2> QED
    BY <1>3, <2>1 DEF Linked, TrConns
<1>9. ConnsKnown'
  <2>1. \A j \in 1..n : /\ conn[j].up => j \in broker.conns
                        /\ conn[j].phase = "replay" => conn[j].next >= 1
    BY <1>1, <1>3 DEF PlainInvariant, ConnsKnown
  <2>2. \A j \in DOMAIN conn' : /\ conn'[j].up => j \in broker'.conns
                                /\ conn'[j].phase = "replay" => conn'[j].next >= 1
    <3> SUFFICES ASSUME NEW j \in DOMAIN conn' PROVE /\ conn'[j].up => j \in broker'.conns
                                                     /\ conn'[j].phase = "replay" => conn'[j].next >= 1
      OBVIOUS
    <3>1. CASE j = n + 1
      BY <1>4, <1>6, <3>1
    <3>2. CASE j # n + 1
      <4>1. j \in 1..n
        BY <1>4, <3>2
      <4> QED
        BY <1>4, <1>6, <2>1, <4>1
    <3> QED
      BY <3>1, <3>2
  <2>3. \A i, j \in DOMAIN conn' : (conn'[i].up /\ conn'[j].up /\ conn'[i].owner = conn'[j].owner) => i = j
    <3>1. \A i, j \in 1..n : (conn[i].up /\ conn[j].up /\ conn[i].owner = conn[j].owner) => i = j
      BY <1>1, <1>3 DEF PlainInvariant, ConnsKnown
    <3>2. \A j \in DOMAIN conn' : j = n + 1 \/ j \in 1..n
      BY <1>4
    <3> QED
      BY <1>4, <1>8, <3>1, <3>2
  <2>4. broker'.served \cup broker'.conns \subseteq DOMAIN conn'
    <3>1. broker.served \cup broker.conns \subseteq 1..n
      BY <1>1, <1>3 DEF PlainInvariant, ConnsKnown
    <3>2. 1..n \subseteq 1..(n + 1) /\ n + 1 \in 1..(n + 1)
      OBVIOUS
    <3> QED
      BY <1>4, <1>6, <3>1, <3>2
  <2>5. \A d \in TrClients : replica'[d].rev >= -1 /\ replica'[d].rev <= kernel'.rev
    BY <1>1, <1>5, <1>6 DEF PlainInvariant, ConnsKnown, ReplicaFits
  <2>6. broker'.out = <<>> => broker'.served = {}
    BY <1>1, <1>6 DEF PlainInvariant, ConnsKnown
  <2> QED
    BY <1>6, <2>2, <2>3, <2>4, <2>5, <2>6 DEF ConnsKnown
<1>10. ASSUME NEW d \in TrClients PROVE ClientHolds(d)'
  <2>1. CASE d = c
    BY <2>1 DEF ClientHolds
  <2>2. CASE d # c
    <3>1. replica'[d] = replica[d] /\ (d \notin disturbed' => d \notin disturbed) /\ ClientHolds(d)
      BY <1>1, <1>5, <2>2 DEF TrSafe
    <3>2. CASE broker.baselined
      <4>1. ExactReplica(d) => ExactReplica(d)'
        BY <1>6, <3>1, <3>2 DEF ExactReplica
      <4>2. OutIsTrue(replica[d].rev) => OutIsTrue(replica[d].rev)'
        <5>1. PICK r : r = replica[d].rev
          OBVIOUS
        <5>2. broker'.out = broker.out /\ hist' = hist
          BY <1>6, <3>2
        <5>3. OutIsTrue(r) => OutIsTrue(r)'
          BY <5>2 DEF OutIsTrue
        <5> QED
          BY <3>1, <5>1, <5>3
      <4>3. LogTells(replica[d].rev) => LogTells(replica[d].rev)'
        BY <1>6, <3>1, <3>2 DEF LogTells
      <4> QED
        BY <3>1, <4>1, <4>2, <4>3 DEF ClientHolds
    <3>3. CASE ~broker.baselined
      BY <1>1, <3>1, <3>3 DEF ClientHolds, PlainInvariant, ConnsKnown
    <3> QED
      BY <3>2, <3>3
  <2> QED
    BY <2>1, <2>2
<1>11. ASSUME NEW j \in DOMAIN conn', conn'[j].up, conn'[j].owner \notin disturbed' PROVE ConnHolds(j)'
  <2>1. CASE j = n + 1
    <3>1. c \notin disturbed'
      BY <1>4, <1>11, <2>1
    <3> QED
      BY <1>3, <2>1, <3>1
  <2>2. CASE j # n + 1
    <3>1. j \in 1..n
      BY <1>4, <2>2
    <3>2. conn'[j] = conn[j] /\ conn[j].up /\ conn[j].owner # c /\ conn[j].owner \in TrClients
      BY <1>4, <1>8, <1>11, <3>1
    <3>3. conn[j].owner \notin disturbed
      BY <1>11, <3>2
    <3>4. broker.baselined
      BY <1>1, <1>3, <3>1 DEF PlainInvariant, ConnsKnown
    <3>5. ConnHolds(j)
      BY <1>1, <1>3, <3>1, <3>2, <3>3 DEF TrSafe
    <3>6. Replica(j)' = Replica(j)
      BY <1>5, <3>2 DEF Replica
    <3>7. OutLeads(j)' <=> OutLeads(j)
      BY <1>6, <3>4, <3>6 DEF OutLeads, Pending, LastLogged
    <3>8. LogLeads(j)' <=> LogLeads(j)
      BY <1>6, <3>2, <3>4, <3>6 DEF LogLeads
    <3> QED
      BY <1>6, <3>2, <3>4, <3>5, <3>6, <3>7, <3>8 DEF ConnHolds
  <2> QED
    BY <2>1, <2>2
<1>12. TrSafe'
  BY <1>10, <1>11 DEF TrSafe
<1> QED
  BY <1>6, <1>7, <1>9, <1>12 DEF TrInvariant

\* A renderer that resumes is sent the log from its revision on.
LEMMA ResumeHolds ==
  ASSUME TrInvariant, NEW c \in TrClients, c \notin disturbed, NEW r \in Nat, r = replica[c].rev,
         NEW log \in Seq(TrPatches), log = broker.log, log[1].rev <= r,
         NEW j, j = NextReplay(log, r, 1), NEW n, n \notin broker.served,
         conn'[n].owner = c, UNCHANGED <<kernel, hist>>, broker'.log = log, broker'.out = broker.out,
         broker'.served = broker.served,
         NEW held, held = (IF j > Len(log) THEN replica[c] ELSE Patched(replica[c], log[j])), replica'[c] = held,
         j > Len(log) => conn'[n].phase = "open",
         ~(j > Len(log)) => conn'[n].phase = "replay" /\ conn'[n].from = r /\ conn'[n].next = j + 1
  PROVE  ClientHolds(c)' /\ ConnHolds(n)'
<1>1. /\ kernel.rev \in Nat /\ hist \in Seq(TrStates) /\ Len(hist) = kernel.rev + 1 /\ log # <<>>
      /\ LogTells(r) /\ r <= kernel.rev /\ broker.out \in Seq(TrPatches)
  BY KnownReplica
<1>2. PlainInvariant
  BY DEF TrInvariant, PlainInvariant
<1>3. /\ Len(log) \in Nat \ {0} /\ DOMAIN log = 1..Len(log) /\ \A l \in 1..Len(log) : log[l].rev \in Nat
      /\ \A l \in DOMAIN log : log[l].rev <= kernel.rev
  <2>1. \A l \in DOMAIN log : log[l] \in TrPatches
    OBVIOUS
  <2> QED
    BY <1>1, <1>2, <2>1 DEF TrPatches, PlainInvariant, LogHolds, Sorted
<1>4. Tells(hist, log, 1, r) /\ Len(hist) \in Nat /\ 1 \in Nat \ {0} /\ r \in Int
  BY <1>1 DEF LogTells
<1>5. \/ j = Len(log) + 1 /\ \A l \in 1..Len(log) : log[l].rev <= r
      \/ /\ j \in Nat /\ 1 <= j /\ j <= Len(log) /\ log[j].rev > r
         /\ \A l \in 1..Len(log) : l < j => log[l].rev <= r
  <2>1. 1 \in Nat \ {0} /\ r \in Int
    OBVIOUS
  <2> QED
    BY <2>1, NextReplayIs, SMTT(30)
<1>6. Replica(n)' = held
  BY DEF Replica
<1>7. CASE j > Len(log)
  <2>1. \A l \in DOMAIN log : log[l].rev <= r
    BY <1>3, <1>5, <1>7
  <2>2. replica'[c] = replica[c] /\ held.rev = r
    BY <1>7
  <2>3. Tells(hist, broker.out, 1, r) /\ LastLogged <= r
    <3>1. LastLogged \in Nat /\ \A m \in Int : (\A l \in DOMAIN log : log[l].rev <= m) => LastLogged <= m
      BY <1>1, <1>2, LastLoggedIs
    <3>2. LastLogged <= r
      BY <1>4, <2>1, <3>1
    <3>3. \A l \in DOMAIN broker.out : broker.out[l].rev <= r
      <4>1. \A l \in DOMAIN broker.out : broker.out[l] \in TrPatches
        BY <1>1
      <4>2. \A l \in DOMAIN broker.out : broker.out[l].rev \in Nat /\ broker.out[l].rev <= LastLogged
        BY <1>2, <4>1 DEF PlainInvariant, LogHolds, TrPatches
      <4> QED
        BY <3>1, <3>2, <4>2
    <3> QED
      BY <1>1, <1>4, <2>1, <3>2, <3>3, TellsNothing
  <2>4. OutLeads(n)'
    <3>1. Pending(n)' = 1 /\ LastLogged' = LastLogged /\ hist' = hist /\ Replica(n)'.rev = r
      BY <1>6, <2>2 DEF Pending, LastLogged
    <3> QED
      BY <2>3, <3>1 DEF OutLeads
  <2>5. ClientHolds(c)'
    <3>1. r <= r /\ replica'[c].rev = r
      BY <2>2
    <3> QED
      BY <1>1, <2>2, <3>1, ReplicaMoves
  <2> QED
    BY <1>6, <1>7, <2>2, <2>4, <2>5 DEF ConnHolds
<1>8. CASE ~(j > Len(log))
  <2>1. PICK k \in 1..Len(log) : k = j /\ log[k].rev > r /\ \A l \in 1..Len(log) : l < k => log[l].rev <= r
    BY <1>3, <1>5, <1>8
  <2>2. PICK p \in TrPatches : p = log[k] /\ p.rev <= kernel.rev /\ p.rev \in Nat /\ p.rev > r
    BY <1>3, <2>1
  <2>3. Fits(r, p)
    <3>1. KnownBefore(log, 1, k, r)
      BY <2>1 DEF KnownBefore
    <3>2. p.rev < Len(hist)
      BY <1>1, <2>2
    <3>3. IsNews(hist, p, r)
      BY <1>4, <2>2, <3>1, <3>2, FirstFits
    <3> QED
      BY <2>2, <3>3 DEF Fits
  <2>4. PICK t \in Nat : /\ t = (IF p.rev > r THEN p.rev ELSE r) /\ t <= kernel.rev
                         /\ Patched(replica[c], p).rev = t
                         /\ Patched(replica[c], p) = replica[c] \/ Patched(replica[c], p).state = hist[t + 1]
    BY <2>3, PatchMoves
  <2>5. t = p.rev /\ r <= t /\ held.rev = t /\ (replica'[c] = replica[c] \/ replica'[c].state = hist[t + 1]) /\ replica'[c].rev = t
    <3>1. t = p.rev /\ r <= t
      BY <1>1, <2>2, <2>4
    <3>2. held = Patched(replica[c], p) /\ replica'[c] = held
      BY <1>8, <2>1, <2>2
    <3> QED
      BY <2>4, <3>1, <3>2
  <2>6. ClientHolds(c)'
    BY <2>4, <2>5, ReplicaMoves
  <2>7. PICK next \in Nat : next = k + 1
    BY <2>1
  <2>8. \A l \in DOMAIN log : l < next => log[l].rev <= t
    <3> SUFFICES ASSUME NEW l \in DOMAIN log, l < next PROVE log[l].rev <= t
      OBVIOUS
    <3>1. l < k \/ l = k
      BY <1>3, <2>1, <2>7
    <3> QED
      BY <1>3, <2>1, <2>2, <2>5, <3>1, SMTT(30)
  <2>9. Tells(hist, log, next, t)
    <3>1. Tells(hist, log, 1, t)
      BY <1>4, <2>5, TellsLater
    <3>2. \A l \in 1..Len(log) : l < next => log[l].rev <= t
      BY <1>3, <2>8
    <3>3. 1 \in Nat /\ 1 <= next
      BY <2>1, <2>7
    <3> QED
      BY <1>4, <3>1, <3>2, <3>3, TellsOn
  <2>10. LogLeads(n)'
    <3>1. hist' = hist /\ broker'.log = log /\ conn'[n].next = next /\ Replica(n)'.rev = t
      BY <1>6, <1>8, <2>1, <2>5, <2>7
    <3> QED
      BY <2>8, <2>9, <3>1 DEF LogLeads
  <2>11. /\ Replica(n)'.rev = t /\ t >= 0 /\ t >= r /\ r >= 0 /\ next >= 1 /\ next <= Len(log) + 1
         /\ conn'[n].phase = "replay" /\ conn'[n].from = r /\ conn'[n].next = next /\ broker'.log = log
    BY <1>3, <1>6, <1>8, <2>1, <2>5, <2>7
  <2> QED
    BY <2>6, <2>10, <2>11 DEF ConnHolds
<1> QED
  BY <1>7, <1>8

\* A renderer attaches and resumes, or begins anew.
LEMMA AttachKeeps == ASSUME TrInvariant, NEW c \in TrClients, Attach(c) PROVE TrInvariant'
<1>1. PlainInvariant /\ TrSafe
  BY DEF TrInvariant, PlainInvariant
<1>a. PICK log : log = BaselinedLog
  OBVIOUS
<1>2. PICK from \in {-2, replica[c].rev} :
         LET resumes == from >= log[1].rev /\ from <= log[Len(log)].rev
             j == NextReplay(log, from, 1)
         IN /\ log = BaselinedLog
            /\ conn' = Append(conn,
                  IF resumes
                  THEN IF j > Len(log)
                       THEN [owner |-> c, up |-> TRUE, from |-> -2, next |-> 0, program |-> -1, phase |-> "open"]
                       ELSE [owner |-> c, up |-> TRUE, from |-> from, next |-> j + 1, program |-> -1,
                             phase |-> "replay"]
                  ELSE [owner |-> c, up |-> TRUE, from |-> -2, next |-> 0,
                        program |-> kernel.state.program, phase |-> "vocabulary"])
            /\ replica' = [replica EXCEPT ![c] =
                  IF ~resumes THEN Renew(@) ELSE IF j > Len(log) THEN @ ELSE Patched(@, log[j])]
            /\ disturbed' = (IF resumes THEN disturbed ELSE disturbed \ {c})
            /\ broker' = [broker EXCEPT !.log = log, !.baselined = TRUE, !.conns = @ \cup {Len(conn) + 1}]
  BY <1>a DEF Attach
<1>3. /\ ~Linked(c) /\ hist' = BaselinedHist
      /\ kernel' = [kernel EXCEPT !.state = Baseline,
                                  !.mutation.by = IF kernel.state # Baseline /\ @ # "none" THEN "torn" ELSE @]
      /\ broker' = [broker EXCEPT !.log = BaselinedLog, !.baselined = TRUE, !.conns = @ \cup {Len(conn) + 1}]
  BY <1>2 DEF Attach
<1>4. /\ conn \in Seq(TrConns) /\ replica \in [TrClients -> [rev : Int, state : TrStates]] /\ kernel.rev \in Nat
      /\ kernel.state \in TrStates /\ replica[c].rev >= -1 /\ replica[c].rev <= kernel.rev
  BY <1>1 DEF PlainInvariant, TrTypes, ConnsKnown
<1>5. PICK was \in [rev : Int, state : TrStates] : was = replica[c]
  BY <1>4
<1>6. /\ log \in Seq(TrPatches) /\ log # <<>> /\ Len(log) \in Nat \ {0} /\ DOMAIN log = 1..Len(log) /\ log = BaselinedLog
      /\ \A l \in 1..Len(log) : log[l] \in TrPatches /\ log[l].rev \in Nat /\ log[l].rev <= kernel.rev
  <2>1. log \in Seq(TrPatches) /\ log # <<>> /\ log = BaselinedLog
    BY <1>1, <1>2, BaselinedLogIs
  <2>2. Len(log) \in Nat \ {0} /\ DOMAIN log = 1..Len(log) /\ \A l \in 1..Len(log) : log[l] \in TrPatches
    BY <2>1
  <2> QED
    BY <1>1, <2>1, <2>2, BaselinedLogIs DEF TrPatches
<1>7. PICK new \in Nat : new = Len(conn) + 1
  BY <1>4
<1>8. /\ \A record \in TrConns : conn' = Append(conn, record) => conn'[new] = record
      /\ new \notin broker.served
  <2>1. new \notin DOMAIN conn
    BY <1>4, <1>7
  <2> QED
    BY <1>1, <1>4, <1>7, <2>1 DEF PlainInvariant, ConnsKnown
<1>9. PICK a \in Int, z \in Nat, b \in Int, yes \in BOOLEAN : a = -2 /\ z = 0 /\ b = -1 /\ yes = TRUE
  <2>1. -2 \in Int /\ 0 \in Nat /\ -1 \in Int /\ TRUE \in BOOLEAN
    OBVIOUS
  <2> QED
    BY <2>1
<1>10. CASE from >= log[1].rev /\ from <= log[Len(log)].rev
  <2>1. PICK r \in Nat : r = from /\ r = replica[c].rev /\ log[1].rev <= r
    <3>1. log[1].rev \in Nat
      BY <1>6
    <3>2. from # -2
      BY <1>10, <3>1
    <3>3. from = was.rev /\ was.rev \in Int
      BY <1>2, <1>5, <3>2
    <3> QED
      BY <1>5, <1>10, <3>1, <3>3
  <2>2. broker.baselined
    BY <1>1, <2>1 DEF PlainInvariant, ConnsKnown
  <2>3. log = broker.log /\ kernel' = kernel /\ hist' = hist
    BY <1>1, <1>3, <1>6, <2>2, BaselineIs, Seeded
  <2>4. PICK j : j = NextReplay(log, r, 1)
    OBVIOUS
  <2>5. j \in Nat /\ (~(j > Len(log)) => j \in 1..Len(log))
    <3>1. 1 \in Nat \ {0} /\ r \in Int
      OBVIOUS
    <3>2. \/ j = Len(log) + 1 /\ \A l \in 1..Len(log) : log[l].rev <= r
          \/ /\ j \in Nat /\ 1 <= j /\ j <= Len(log) /\ log[j].rev > r
             /\ \A l \in 1..Len(log) : l < j => log[l].rev <= r
      BY <1>6, <2>4, <3>1, NextReplayIs
    <3> QED
      BY <1>6, <3>2
  <2>6. PICK held : /\ held = (IF j > Len(log) THEN replica[c] ELSE Patched(replica[c], log[j]))
                    /\ replica' = [replica EXCEPT ![c] = held] /\ ReplicaFits(held)
    <3>1. PICK held : held = IF j > Len(log) THEN was ELSE Patched(was, log[j])
      OBVIOUS
    <3>2. replica' = [replica EXCEPT ![c] = held]
      BY <1>2, <1>4, <1>5, <1>10, <2>1, <2>4, <3>1
    <3>3. ReplicaFits(held)
      <4>1. CASE j > Len(log)
        BY <1>4, <1>5, <3>1, <4>1 DEF ReplicaFits
      <4>2. CASE ~(j > Len(log))
        <5>1. PICK p \in TrPatches : p = log[j] /\ p.rev \in Nat /\ p.rev <= kernel.rev
          BY <1>6, <2>5, <4>2
        <5>2. held = Patched(was, p)
          BY <3>1, <4>2, <5>1
        <5>3. held \in [rev : Int, state : TrStates] /\ held.rev \in {was.rev, p.rev}
          BY <5>2, PatchedTyped DEF Patched
        <5> QED
          BY <1>4, <1>5, <5>1, <5>3 DEF ReplicaFits
      <4> QED
        BY <4>1, <4>2
    <3> QED
      BY <1>5, <3>1, <3>2, <3>3
  <2>7. PICK record \in TrConns :
           /\ conn' = Append(conn, record) /\ record.owner = c /\ (record.phase = "replay" => record.next >= 1)
           /\ j > Len(log) => record.phase = "open"
           /\ ~(j > Len(log)) => record.phase = "replay" /\ record.from = r /\ record.next = j + 1
    <3>1. CASE j > Len(log)
      <4>1. PICK record : record = [owner |-> c, up |-> yes, from |-> a, next |-> z, program |-> b, phase |-> "open"]
        OBVIOUS
      <4>2. record \in TrConns
        BY <4>1 DEF TrConns
      <4>3. conn' = Append(conn, record)
        BY <1>2, <1>9, <1>10, <2>1, <2>4, <3>1, <4>1
      <4> QED
        BY <3>1, <4>1, <4>2, <4>3
    <3>2. CASE ~(j > Len(log))
      <4>1. PICK next \in Nat : next = j + 1 /\ next >= 1
        BY <2>5
      <4>2. PICK record : record = [owner |-> c, up |-> yes, from |-> r, next |-> next, program |-> b, phase |-> "replay"]
        OBVIOUS
      <4>3. record \in TrConns
        BY <4>2 DEF TrConns
      <4>4. conn' = Append(conn, record)
        BY <1>2, <1>9, <1>10, <2>1, <2>4, <3>2, <4>1, <4>2
      <4> QED
        BY <3>2, <4>1, <4>2, <4>3, <4>4
    <3> QED
      BY <3>1, <3>2
  <2>8. conn'[new] = record
    BY <1>8, <2>7
  <2>9. disturbed' = disturbed
    BY <1>2, <1>10
  <2>10. broker'.log = log /\ broker'.out = broker.out /\ broker'.served = broker.served
    BY <1>3, <1>6, Seeded
  <2>11. replica'[c] = held
    BY <1>4, <2>6
  <2>12. c \notin disturbed' => ClientHolds(c)' /\ ConnHolds(new)'
    <3> SUFFICES ASSUME c \notin disturbed PROVE ClientHolds(c)' /\ ConnHolds(new)'
      BY <2>9
    <3>1. /\ j > Len(log) => conn'[new].phase = "open"
          /\ ~(j > Len(log)) => conn'[new].phase = "replay" /\ conn'[new].from = r /\ conn'[new].next = j + 1
          /\ conn'[new].owner = c /\ new \notin broker.served
      BY <1>8, <2>7, <2>8
    <3>2. log \in Seq(TrPatches) /\ log = broker.log /\ log[1].rev <= r /\ r = replica[c].rev
      BY <1>6, <2>1, <2>3
    <3>3. kernel' = kernel /\ hist' = hist
      BY <2>3
    <3>4. replica'[c] = held /\ held = (IF j > Len(log) THEN replica[c] ELSE Patched(replica[c], log[j]))
      BY <2>6, <2>11
    <3> QED
      BY <2>4, <2>10, <3>1, <3>2, <3>3, <3>4, ResumeHolds
  <2> QED
    BY <1>3, <1>7, <2>6, <2>7, <2>9, <2>12, AttachSteps
<1>11. CASE ~(from >= log[1].rev /\ from <= log[Len(log)].rev)
  <2>1. PICK record : record = [owner |-> c, up |-> yes, from |-> a, next |-> z, program |-> kernel.state["program"], phase |-> "vocabulary"]
    OBVIOUS
  <2>2. record \in TrConns
    <3>1. kernel.state["program"] \in Int
      BY <1>4 DEF TrStates, Keys
    <3> QED
      BY <2>1, <3>1 DEF TrConns
  <2>3. conn' = Append(conn, record)
    BY <1>2, <1>9, <1>11, <2>1
  <2>4. PICK held : held = Renew(was)
    OBVIOUS
  <2>5. replica' = [replica EXCEPT ![c] = held] /\ replica'[c] = held
    BY <1>2, <1>4, <1>5, <1>11, <2>4
  <2>6. ReplicaFits(held) /\ held.rev = -1
    <3>1. was.state["program"] \in Int
      BY DEF TrStates, Keys
    <3>2. [Nothing EXCEPT !["program"] = was.state["program"]] \in TrStates
      BY <3>1 DEF Nothing, TrStates, Keys
    <3>3. PICK state \in TrStates : state = [Nothing EXCEPT !["program"] = was.state["program"]]
      BY <3>2
    <3>4. held = [rev |-> b, state |-> state]
      BY <1>9, <2>4, <3>3 DEF Renew
    <3>5. held \in [rev : Int, state : TrStates] /\ held.rev = b
      BY <3>4
    <3> QED
      BY <1>4, <1>9, <3>5 DEF ReplicaFits
  <2>7. disturbed' = disturbed \ {c}
    BY <1>2, <1>11
  <2>8. conn'[new] = record
    BY <1>8, <2>2, <2>3
  <2>9. ClientHolds(c)' /\ ConnHolds(new)'
    <3>1. ClientHolds(c)'
      BY <2>5, <2>6 DEF ClientHolds
    <3>2. ConnHolds(new)'
      BY <2>1, <2>5, <2>6, <2>8 DEF ConnHolds, Replica
    <3> QED
      BY <3>1, <3>2
  <2>10. record.owner = c /\ record.phase # "replay"
    BY <2>1
  <2> QED
    BY <1>3, <1>7, <2>2, <2>3, <2>5, <2>6, <2>7, <2>9, <2>10, AttachSteps
<1> QED
  BY <1>10, <1>11

(***************************************************************************)
(* The invariant, and what it means to the renderers.                      *)
(***************************************************************************)
\* Nothing is logged and nobody attached.
LEMMA TrInitial == ASSUME TrInit PROVE TrInvariant
<1>1. PICK zero \in Int, minus \in Int, none \in Nat, no \in BOOLEAN : zero = 0 /\ minus = -1 /\ none = 0 /\ no = FALSE
  <2>1. 0 \in Int /\ -1 \in Int /\ 0 \in Nat /\ FALSE \in BOOLEAN
    OBVIOUS
  <2> QED
    BY <2>1
<1>2. PICK nothing \in TrStates : nothing = Nothing
  <2>1. -1 \in Int
    OBVIOUS
  <2>2. Nothing \in TrStates
    BY <2>1 DEF Nothing, TrStates
  <2> QED
    BY <2>2
<1>3. PICK state \in TrStates : state = [machine |-> minus, value |-> zero, program |-> zero] /\ HasProgram(state)
  <2>1. PICK s : s = [machine |-> minus, value |-> zero, program |-> zero]
    OBVIOUS
  <2>2. s = [k \in Keys |-> s[k]] /\ \A k \in Keys : s[k] \in Int
    BY <2>1 DEF Keys
  <2>3. s \in TrStates
    BY <2>2 DEF TrStates
  <2>4. s["program"] = zero
    BY <2>1
  <2> QED
    BY <1>1, <2>1, <2>3, <2>4 DEF HasProgram
<1>4. PICK m \in [by : {"none", "host", "direct", "torn"}, sets : TrSets] : m = NoneUnderWay /\ m.by = "none"
  <2>1. NoneUnderWay \in [by : {"none", "host", "direct", "torn"}, sets : TrSets] /\ NoneUnderWay.by = "none"
    BY NoContentIs DEF NoneUnderWay
  <2> QED
    BY <2>1
<1>5. /\ kernel \in [rev : Nat, state : TrStates, saved : TrStates,
                     mutation : [by : {"none", "host", "direct", "torn"}, sets : TrSets]]
      /\ kernel.rev = 0 /\ kernel.state = state /\ kernel.mutation = m /\ kernel.saved = nothing
  <2>1. kernel = [rev |-> none, state |-> state, mutation |-> m, saved |-> nothing]
    BY <1>1, <1>2, <1>3, <1>4 DEF TrInit
  <2> QED
    BY <1>1, <2>1
<1>6. hist = <<state>> /\ hist \in Seq(TrStates) /\ Len(hist) = 1 /\ hist[1] = state /\ DOMAIN hist = {1}
  BY <1>5 DEF TrInit
<1>7. /\ broker \in BrokerRecords /\ broker.log = <<>> /\ broker.out = <<>> /\ broker.served = {} /\ broker.conns = {}
      /\ broker.baselined = FALSE
  <2>1. PICK empty \in Seq(TrPatches), nobody \in SUBSET Nat : empty = <<>> /\ nobody = {}
    <3>1. <<>> \in Seq(TrPatches) /\ {} \in SUBSET Nat
      OBVIOUS
    <3> QED
      BY <3>1
  <2>2. broker = [log |-> empty, baselined |-> no, poisoned |-> no, waits |-> none,
                  out |-> empty, served |-> nobody, conns |-> nobody]
    BY <1>1, <2>1 DEF TrInit
  <2> QED
    BY <1>1, <2>1, <2>2 DEF BrokerRecords
<1>8. conn = <<>> /\ conn \in Seq(TrConns) /\ disturbed = {} /\ DOMAIN conn = {}
  BY DEF TrInit
<1>9. replica \in [TrClients -> [rev : Int, state : TrStates]] /\ \A c \in TrClients : replica[c].rev = -1
  BY <1>1, <1>2 DEF TrInit
<1>10. TrTypes
  BY <1>5, <1>6, <1>7, <1>8, <1>9 DEF TrTypes, BrokerRecords
<1>11. KernelHolds
  BY <1>2, <1>3, <1>4, <1>5, <1>6 DEF KernelHolds
<1>12. LogHolds /\ ConnsKnown /\ TrSafe
  BY <1>5, <1>7, <1>8, <1>9 DEF LogHolds, Sorted, ConnsKnown, TrSafe, ClientHolds
<1> QED
  BY <1>10, <1>11, <1>12 DEF TrInvariant

\* Every step of the kernel, the broker and the renderers keeps the invariant.
LEMMA TrKept == ASSUME TrInvariant, [TrNext]_trVars PROVE TrInvariant'
<1>1. CASE UNCHANGED trVars
  <2>1. UNCHANGED <<kernel, hist, broker, conn, replica, disturbed>>
    BY <1>1 DEF trVars
  <2>2. TrTypes' /\ KernelHolds' /\ LogHolds' /\ ConnsKnown'
    BY <2>1 DEF TrInvariant, TrTypes, KernelHolds, LogHolds, Sorted, LastLogged, ConnsKnown
  <2>3. TrSafe'
    BY <2>1, SafeAtRest
  <2> QED
    BY <2>2, <2>3 DEF TrInvariant
<1>2. CASE Restore \/ \E keys \in Changes : HostDispatch(keys) \/ DirectMutation(keys)
  BY <1>2, BeginsKeep
<1>3. CASE TakeCheckpoint
  BY <1>3, CheckpointKeeps
<1>4. CASE CommitPatch \/ SyncNothing
  BY <1>4, CommitKeeps
<1>5. CASE CommitQuietly
  BY <1>5, QuietKeeps
<1>6. CASE MutationThrows
  BY <1>6, ThrowKeeps
<1>7. ASSUME NEW c \in TrClients, Attach(c) PROVE TrInvariant'
  BY <1>7, AttachKeeps
<1>8. ASSUME NEW i \in DOMAIN conn,
             Replay(i) \/ SendProgram(i) \/ SendSnapshot(i) \/ OnboardingFails(i) \/ Closed(i) \/ Broadcast(i)
      PROVE  TrInvariant'
  BY <1>8, ReplayKeeps, ProgramKeeps, SnapshotKeeps, FailureKeeps, ClosingKeeps, BroadcastKeeps
<1>9. CASE BroadcastEnds \/ BroadcastFails
  BY <1>9, BroadcastOverKeeps
<1> QED
  BY <1>1, <1>2, <1>3, <1>4, <1>5, <1>6, <1>7, <1>8, <1>9 DEF TrNext

\* A replica is exact, and has the newest patch when nothing is on its way to it.
LEMMA SafeReplicas == ASSUME TrInvariant PROVE ReplicaExact /\ ReplicaCurrent
<1>1. PlainInvariant /\ TrSafe
  BY DEF TrInvariant, PlainInvariant
<1>2. ReplicaExact
  BY <1>1 DEF TrSafe, ClientHolds, ExactReplica, ReplicaExact
<1>3. ReplicaCurrent
  <2> SUFFICES ASSUME NEW i \in DOMAIN conn, conn[i].up, conn[i].phase = "open", broker.out = <<>>,
                      conn[i].owner \notin disturbed
               PROVE  replica[conn[i].owner].rev >= broker.log[Len(broker.log)].rev
    BY DEF ReplicaCurrent
  <2>1. OutLeads(i)
    BY <1>1 DEF TrSafe, ConnHolds
  <2>2. i \notin broker.served /\ Pending(i) = 1
    BY <1>1 DEF PlainInvariant, ConnsKnown, Pending
  <2>3. ~ \E j \in Pending(i)..Len(broker.out) : broker.out[j].rev >= LastLogged
    BY <2>2
  <2>4. LastLogged <= Replica(i).rev
    BY <2>1, <2>3 DEF OutLeads
  <2>5. LastLogged \in Nat /\ Replica(i).rev \in Int
    BY <1>1, ConnTyped, LastLoggedIs DEF PlainInvariant, LogHolds, ReplicaFits
  <2> QED
    BY <2>4, <2>5 DEF LastLogged, Replica
<1> QED
  BY <1>2, <1>3

\* A patch takes a replica back only if it is one of revision 0.
LEMMA PatchedForward ==
  ASSUME NEW held \in [rev : Int, state : TrStates], NEW patch \in TrPatches, patch.rev # 0 \/ held.rev <= 0
  PROVE  Patched(held, patch).rev >= held.rev
BY DEF Patched, TrPatches

\* No step takes a replica back, but to begin anew or by a patch that overtakes.
LEMMA ForwardHolds == ASSUME TrInvariant, [TrNext]_trVars PROVE ReplicaForward \/ UNCHANGED trVars
<1>1. PlainInvariant /\ TrSafe /\ replica \in [TrClients -> [rev : Int, state : TrStates]] /\ conn \in Seq(TrConns)
  BY DEF TrInvariant, PlainInvariant, TrTypes
<1>2. ASSUME replica' = replica PROVE ReplicaForward
  <2>1. \A c \in TrClients : replica[c].rev \in Int
    BY <1>1
  <2> QED
    BY <1>2, <2>1 DEF ReplicaForward
<1>3. ASSUME NEW i \in DOMAIN conn, NEW held, Received(i, held),
             \A c \in TrClients : (c = conn[i].owner /\ conn[i].up /\ c \notin disturbed') => held.rev >= replica[c].rev
      PROVE  ReplicaFits(held) => ReplicaForward
  <2>1. \A c \in TrClients : replica[c].rev \in Int
    BY <1>1
  <2>2. conn[i].owner \in TrClients
    BY <1>1, ConnTyped
  <2>3. CASE conn[i].up
    <3>1. replica' = [replica EXCEPT ![conn[i].owner] = held]
      BY <1>3, <2>3 DEF Received
    <3>2. \A d \in TrClients : replica'[d] = IF d = conn[i].owner THEN held ELSE replica[d]
      BY <1>1, <2>2, <3>1
    <3> QED
      BY <1>3, <2>1, <2>3, <3>2 DEF ReplicaForward
  <2>4. CASE ~conn[i].up
    BY <1>2, <1>3, <2>4 DEF Received
  <2> QED
    BY <2>3, <2>4
<1>4. /\ \A l \in DOMAIN broker.log : broker.log[l] \in TrPatches /\ broker.log[l].rev <= kernel.rev
      /\ \A j \in DOMAIN broker.out : broker.out[j] \in TrPatches /\ broker.out[j].rev <= kernel.rev
      /\ kernel.rev \in Nat /\ broker.log \in Seq(TrPatches) /\ broker.out \in Seq(TrPatches) /\ kernel.state \in TrStates
  <2>1. broker.log \in Seq(TrPatches) /\ broker.out \in Seq(TrPatches) /\ kernel.rev \in Nat /\ kernel.state \in TrStates
    BY <1>1 DEF PlainInvariant, TrTypes
  <2> QED
    BY <1>1, <2>1 DEF PlainInvariant, LogHolds, Sorted
<1>5. ASSUME NEW i \in DOMAIN conn, NEW p \in TrPatches, p.rev <= kernel.rev, Received(i, Patched(Replica(i), p)),
             (conn[i].up /\ conn[i].owner \notin disturbed') => p.rev # 0 \/ Replica(i).rev <= 0
      PROVE  ReplicaForward
  <2>1. PICK was \in [rev : Int, state : TrStates] : was = Replica(i)
    BY <1>1, ConnTyped DEF ReplicaFits
  <2>2. PICK held : held = Patched(was, p)
    OBVIOUS
  <2>3. p.rev # 0 \/ was.rev <= 0 => held.rev >= was.rev
    BY <2>2, PatchedForward
  <2>4. \A c \in TrClients : (c = conn[i].owner /\ conn[i].up /\ c \notin disturbed') => held.rev >= replica[c].rev
    BY <1>5, <2>1, <2>3 DEF Replica
  <2>5. ReplicaFits(held)
    BY <1>1, <1>5, <2>1, <2>2, PatchFits
  <2>6. Received(i, held)
    BY <1>5, <2>1, <2>2
  <2> QED
    BY <1>3, <2>4, <2>5, <2>6
<1>6. ASSUME NEW i \in DOMAIN conn, Broadcast(i) PROVE ReplicaForward
  <2>1. PICK p \in TrPatches : p = Head(broker.out) /\ p.rev <= kernel.rev
    <3>1. broker.out # <<>>
      BY <1>6 DEF Broadcast
    <3>2. 1 \in DOMAIN broker.out /\ Head(broker.out) = broker.out[1]
      BY <1>4, <3>1
    <3> QED
      BY <1>4, <3>2
  <2>2. conn[i].owner \notin disturbed' => ~(p.rev = 0 /\ Replica(i).rev > 0)
    BY <1>6, <2>1 DEF Broadcast, Overtakes
  <2>3. Replica(i).rev \in Int
    BY <1>1, ConnTyped DEF ReplicaFits
  <2>4. conn[i].owner \notin disturbed' => p.rev # 0 \/ Replica(i).rev <= 0
    BY <2>2, <2>3
  <2>5. Received(i, Patched(Replica(i), p))
    BY <1>6, <2>1 DEF Broadcast
  <2> QED
    BY <1>5, <2>1, <2>4, <2>5
<1>7. ASSUME NEW i \in DOMAIN conn, SendProgram(i) PROVE ReplicaForward
  <2>1. PICK was \in [rev : Int, state : TrStates], program \in Int :
           was = Replica(i) /\ program = conn[i].program /\ ReplicaFits(was)
    BY <1>1, ConnTyped DEF ReplicaFits
  <2>2. PICK held : held = WithProgram(was, program)
    OBVIOUS
  <2>3. held.rev = was.rev /\ Received(i, held) /\ was.rev \in Int
    BY <1>7, <2>1, <2>2 DEF SendProgram, WithProgram
  <2>4. ReplicaFits(held)
    <3>1. PICK state \in TrStates : state = [was.state EXCEPT !["program"] = program]
      <4>1. [was.state EXCEPT !["program"] = program] \in TrStates
        BY DEF TrStates
      <4> QED
        BY <4>1
    <3>2. held = [was EXCEPT !.state = state]
      BY <2>2, <3>1 DEF WithProgram
    <3> QED
      BY <2>1, <3>2 DEF ReplicaFits
  <2>5. \A c \in TrClients : (c = conn[i].owner /\ conn[i].up /\ c \notin disturbed') => held.rev >= replica[c].rev
    BY <2>1, <2>3 DEF Replica
  <2> QED
    BY <1>3, <2>3, <2>4, <2>5
<1>8. ASSUME NEW i \in DOMAIN conn, SendSnapshot(i) PROVE ReplicaForward
  <2>1. PICK p \in TrPatches : p = Snapshot /\ p.rev = kernel.rev
    <3>1. Data \in SUBSET Keys /\ Data \subseteq DOMAIN kernel.state /\ \A k \in Data : kernel.state[k] \in Int
      BY <1>4 DEF TrStates, Data, Keys
    <3>2. Only(kernel.state, Data) \in TrSets
      BY <3>1, OnlyTyped
    <3>3. [rev |-> kernel.rev, sets |-> Only(kernel.state, Data)] \in TrPatches
      BY <1>4, <3>2 DEF TrPatches
    <3> QED
      BY <3>3 DEF Snapshot
  <2>2. Received(i, Patched(Replica(i), p))
    BY <1>8, <2>1 DEF SendSnapshot
  <2>3. Replica(i).rev \in Int /\ Replica(i).rev <= kernel.rev
    BY <1>1, ConnTyped DEF ReplicaFits
  <2>4. p.rev <= kernel.rev /\ (p.rev # 0 \/ Replica(i).rev <= 0)
    BY <1>4, <2>1, <2>3
  <2> QED
    BY <1>5, <2>1, <2>2, <2>4
<1>9. ASSUME NEW i \in DOMAIN conn, Replay(i) PROVE ReplicaForward
  <2>1. PICK from \in Int, at \in Nat \ {0} : from = conn[i].from /\ at = conn[i].next
    BY <1>1, <1>9, ConnTyped DEF Replay, PlainInvariant, ConnsKnown
  <2>2. PICK log \in Seq(TrPatches) : log = broker.log
    BY <1>4
  <2>3. PICK j : j = NextReplay(log, from, at)
    OBVIOUS
  <2>4. \/ j = Len(log) + 1 /\ \A l \in at..Len(log) : log[l].rev <= from
        \/ /\ j \in Nat /\ at <= j /\ j <= Len(log) /\ log[j].rev > from
           /\ \A l \in at..Len(log) : l < j => log[l].rev <= from
    BY <2>3, NextReplayIs
  <2>5. CASE j > Len(log)
    BY <1>2, <1>9, <2>1, <2>2, <2>3, <2>5 DEF Replay
  <2>6. CASE ~(j > Len(log))
    <3>1. j \in 1..Len(log) /\ log[j].rev > from
      BY <2>4, <2>6
    <3>2. PICK p \in TrPatches : p = log[j] /\ p.rev <= kernel.rev
      BY <1>4, <2>2, <3>1
    <3>3. Received(i, Patched(Replica(i), p))
      BY <1>9, <2>1, <2>2, <2>3, <2>6, <3>2 DEF Replay
    <3>4. (conn[i].up /\ conn[i].owner \notin disturbed') => from >= 0
      BY <1>1, <1>9, <2>1 DEF TrSafe, ConnHolds, Replay
    <3>5. (conn[i].up /\ conn[i].owner \notin disturbed') => p.rev # 0 \/ Replica(i).rev <= 0
      BY <3>1, <3>2, <3>4
    <3> QED
      BY <1>5, <3>2, <3>3, <3>5
  <2> QED
    BY <2>5, <2>6
<1>10. ASSUME NEW c \in TrClients, Attach(c) PROVE ReplicaForward
  <2>a. PICK log : log = BaselinedLog
    OBVIOUS
  <2>1. PICK from \in {-2, replica[c].rev} :
           LET resumes == from >= log[1].rev /\ from <= log[Len(log)].rev
               j == NextReplay(log, from, 1)
           IN /\ log = BaselinedLog
              /\ replica' = [replica EXCEPT ![c] =
                    IF ~resumes THEN Renew(@) ELSE IF j > Len(log) THEN @ ELSE Patched(@, log[j])]
    BY <1>10, <2>a DEF Attach
  <2>2. /\ log \in Seq(TrPatches) /\ log # <<>> /\ log = BaselinedLog
        /\ 1 \in DOMAIN log /\ Len(log) \in Nat
        /\ \A l \in DOMAIN log : log[l] \in TrPatches /\ log[l].rev \in Nat
    <3>1. log \in Seq(TrPatches) /\ log # <<>> /\ log = BaselinedLog
      BY <1>1, <2>1, BaselinedLogIs
    <3>2. /\ 1 \in DOMAIN log /\ Len(log) \in Nat
          /\ \A l \in DOMAIN log : log[l] \in TrPatches
      BY <3>1
    <3> QED
      BY <3>1, <3>2 DEF TrPatches
  <2>3. PICK was \in [rev : Int, state : TrStates] : was = replica[c]
    BY <1>1
  <2>4. PICK j : j = NextReplay(log, from, 1)
    OBVIOUS
  <2>5. \A d \in TrClients : d # c => replica'[d] = replica[d] /\ replica[d].rev \in Int
    BY <1>1, <2>1
  <2>6. replica'[c] = IF ~(from >= log[1].rev /\ from <= log[Len(log)].rev) THEN Renew(was)
                      ELSE IF j > Len(log) THEN was ELSE Patched(was, log[j])
    BY <1>1, <2>1, <2>2, <2>3, <2>4
  <2>7. CASE ~(from >= log[1].rev /\ from <= log[Len(log)].rev)
    BY <2>5, <2>6, <2>7 DEF ReplicaForward, Renew
  <2>8. CASE from >= log[1].rev /\ from <= log[Len(log)].rev
    <3>1. log[1].rev \in Nat
      BY <2>2
    <3>2. from \in Nat /\ from = was.rev
      BY <2>1, <2>3, <2>8, <3>1
    <3>3. replica'[c].rev >= was.rev
      <4>1. CASE j > Len(log)
        BY <2>6, <2>8, <4>1
      <4>2. CASE ~(j > Len(log))
        <5>1. 1 \in Nat \ {0} /\ from \in Int
          BY <3>2
        <5>2. \/ j = Len(log) + 1 /\ \A l \in 1..Len(log) : log[l].rev <= from
              \/ /\ j \in Nat /\ 1 <= j /\ j <= Len(log) /\ log[j].rev > from
                 /\ \A l \in 1..Len(log) : l < j => log[l].rev <= from
          BY <2>2, <2>4, <5>1, NextReplayIs
        <5>3. j \in 1..Len(log) /\ log[j].rev > from
          BY <2>2, <4>2, <5>2
        <5>4. PICK p \in TrPatches : p = log[j] /\ p.rev > from
          BY <2>2, <5>3
        <5>5. p.rev # 0
          BY <3>2, <5>4
        <5> QED
          BY <2>6, <2>8, <4>2, <5>4, <5>5, PatchedForward
      <4> QED
        BY <4>1, <4>2
    <3>4. \A d \in TrClients : replica'[d].rev >= replica[d].rev
      BY <2>3, <2>5, <3>3
    <3> QED
      BY <3>4 DEF ReplicaForward
  <2> QED
    BY <2>7, <2>8
<1>11. ASSUME \/ Restore \/ \E keys \in Changes : HostDispatch(keys) \/ DirectMutation(keys)
              \/ TakeCheckpoint \/ CommitPatch \/ SyncNothing \/ CommitQuietly \/ MutationThrows
              \/ \E i \in DOMAIN conn : OnboardingFails(i) \/ Closed(i)
              \/ BroadcastEnds \/ BroadcastFails
       PROVE  ReplicaForward
  <2>1. replica' = replica
    BY <1>11 DEF Restore, HostDispatch, DirectMutation, TakeCheckpoint, CommitPatch, SyncNothing, CommitQuietly,
              MutationThrows, OnboardingFails, Closed, BroadcastEnds, BroadcastFails
  <2> QED
    BY <1>2, <2>1
<1>12. CASE UNCHANGED trVars
  BY <1>12
<1> QED
  BY <1>6, <1>7, <1>8, <1>9, <1>10, <1>11, <1>12 DEF TrNext

\* A replica is the state of its revision and up to date, or its patches were disturbed.
THEOREM ReplicasStaySafe == TrSpec => []ReplicaSafe
<1>1. TrInit => TrInvariant
  BY TrInitial
<1>2. TrInvariant /\ [TrNext]_trVars => TrInvariant'
  BY TrKept
<1>3. TrInvariant => ReplicaSafe
  BY SafeReplicas DEF ReplicaSafe
<1> QED
  BY <1>1, <1>2, <1>3, PTL DEF TrSpec

\* A replica goes back only to begin anew, or its patches were disturbed.
THEOREM ReplicasGoForward == TrSpec => [][ReplicaForward]_trVars
<1>1. TrInit => TrInvariant
  BY TrInitial
<1>2. TrInvariant /\ [TrNext]_trVars => TrInvariant'
  BY TrKept
<1>3. TrInvariant /\ [TrNext]_trVars => [ReplicaForward]_trVars
  BY ForwardHolds
<1> QED
  BY <1>1, <1>2, <1>3, PTL DEF TrSpec
================================================================================
