------------------------ MODULE KernelInvocationsProofs -------------------------
(***************************************************************************)
(* Proofs that a source executes one request at a time, that its newest    *)
(* request is the one that starts, that a source in flight has somebody to *)
(* complete it, and that what was cancelled does not succeed, for any      *)
(* sources and bounds.                                                     *)
(***************************************************************************)
EXTENDS KernelInvocations, TLAPS

Elems(q) == {q[k] : k \in 1..Len(q)}

\* Mutation m is the settlement or the cancellation of invocation i.
Ends(m, i) == m.kind # "request" /\ m.invocation = i

\* The end of i is queued or running.
Spent(i) == \E m \in Elems(queue) \cup {mutation} : Ends(m, i)

RunOrdered(run, bound) ==
    /\ run.completed <= run.requested
    /\ run.requested <= run.queue
    /\ run.queue <= bound

RunsOrdered == \A s \in Sources : RunOrdered(runs[s], MaxToken[s])

\* Nobody was asked twice: requests in the registry are the executing ones.
ActiveInFlight ==
    \A i \in active \ closed :
        /\ runs[i.source].requested = i.token
        /\ runs[i.source].completed # i.token

ActivePast == \A i \in active : i.token <= runs[i.source].requested

FiredInFlight ==
    \A i \in fired :
        /\ runs[i.source].requested = i.token
        /\ runs[i.source].completed # i.token
        /\ i \notin active /\ ~Spent(i)

SpentIsOver ==
    \A i \in Invocations : Spent(i) =>
        i \notin active \ closed /\ i.token <= runs[i.source].requested

\* A folded settlement or cancellation has completed its request.
FoldedCompletes ==
    step = "folded" =>
        \A i \in Invocations : Ends(mutation, i) =>
            (runs[i.source].requested = i.token => runs[i.source].completed = i.token)

IdleIsEmpty ==
    /\ step = "idle" => mutation = NoMutation
    /\ step # "folded" => fired = {}

KernelInvariant ==
    /\ KernelTypeOK /\ RunsOrdered /\ ActiveInFlight /\ ActivePast
    /\ FiredInFlight /\ SpentIsOver /\ FoldedCompletes /\ IdleIsEmpty

-------------------------------------------------------------------------------
(***************************************************************************)
(* Sequences as the sets of their elements.                                *)
(***************************************************************************)
LEMMA AppendElems ==
    ASSUME NEW S, NEW q \in Seq(S), NEW x
    PROVE  Elems(Append(q, x)) = Elems(q) \cup {x}
<1>1. Len(Append(q, x)) = Len(q) + 1 /\ Len(q) \in Nat
  OBVIOUS
<1>2. \A k \in 1..Len(q) : Append(q, x)[k] = q[k]
  OBVIOUS
<1>3. Append(q, x)[Len(q) + 1] = x
  OBVIOUS
<1> QED
  BY <1>1, <1>2, <1>3 DEF Elems

LEMMA HeadTailElems ==
    ASSUME NEW S, NEW q \in Seq(S), q # <<>>
    PROVE  /\ Head(q) \in S /\ Tail(q) \in Seq(S)
           /\ Elems(q) = {Head(q)} \cup Elems(Tail(q))
<1>1. /\ Len(q) \in Nat \ {0} /\ Head(q) = q[1] /\ Tail(q) \in Seq(S)
      /\ Len(Tail(q)) = Len(q) - 1
  OBVIOUS
<1>2. \A k \in 1..(Len(q) - 1) : Tail(q)[k] = q[k + 1]
  OBVIOUS
<1>3. \A k \in 2..Len(q) : k - 1 \in 1..(Len(q) - 1) /\ Tail(q)[k - 1] = q[k]
  BY <1>1, <1>2
<1> QED
  BY <1>1, <1>2, <1>3 DEF Elems

LEMMA InvocationType ==
    ASSUME NEW i \in Invocations
    PROVE  /\ i.source \in Sources /\ i.token \in 1..MaxToken[i.source]
           /\ i.token \in Nat \ {0}
           /\ i = [source |-> i.source, token |-> i.token]
  BY KernelBounds DEF Invocations

LEMMA MutationType ==
    ASSUME NEW m \in Mutations
    PROVE  \/ m \in Requests /\ m.kind = "request"
           \/ m \in Settlements /\ m.kind = "settle"
           \/ m \in Cancellations /\ m.kind = "cancel"
  BY DEF Mutations, Requests, Settlements, Cancellations

-------------------------------------------------------------------------------
(***************************************************************************)
(* What admission and promotion do to one run state.                       *)
(***************************************************************************)
LEMMA PromoteRun ==
    ASSUME NEW run \in RunStates, NEW bound \in Nat, RunOrdered(run, bound),
           HasPending(run)
    PROVE  /\ Promote(run) \in RunStates /\ RunOrdered(Promote(run), bound)
           /\ Promote(run).requested > run.requested
           /\ Promote(run).requested = Promote(run).queue
           /\ Promote(run).completed = run.completed
           /\ Promote(run).status = run.status
  BY DEF Promote, HasPending, RunStates, RunOrdered

LEMMA AdmitRun ==
    ASSUME NEW run \in RunStates, NEW bound \in Nat,
           RunOrdered(run, bound), run.queue < bound
    PROVE  /\ Admit(run, 0) \in RunStates /\ RunOrdered(Admit(run, 0), bound)
           /\ Admit(run, 0).completed = run.completed
           /\ Admit(run, 0).status = run.status
           /\ \/ Admit(run, 0).requested = run.requested
              \/ /\ ~IsInFlight(run)
                 /\ Admit(run, 0).requested > run.requested
                 /\ Admit(run, 0).requested = Admit(run, 0).queue
<1>1. NextToken(run.queue, 0) = run.queue + 1
  BY DEF NextToken, RunStates
<1>2. /\ run.completed \in Nat /\ run.requested \in Nat /\ run.queue \in Nat
      /\ run.completed <= run.requested /\ run.requested <= run.queue
      /\ run.queue + 1 <= bound
  BY DEF RunStates, RunOrdered
<1> DEFINE queued == [run EXCEPT !.queue = run.queue + 1]
<1>3. /\ queued \in RunStates
      /\ queued.queue = run.queue + 1 /\ queued.requested = run.requested
      /\ queued.completed = run.completed /\ queued.status = run.status
  BY <1>2 DEF RunStates
<1>4. RunOrdered(queued, bound)
  BY <1>2, <1>3 DEF RunOrdered
<1>5. CASE IsInFlight(run)
  BY <1>1, <1>3, <1>4, <1>5 DEF Admit
<1>6. CASE ~IsInFlight(run)
  <2>1. Admit(run, 0) = Promote(queued)
    BY <1>1, <1>6 DEF Admit
  <2>2. HasPending(queued)
    BY <1>2, <1>3 DEF HasPending
  <2> QED
    BY <1>3, <1>4, <1>6, <2>1, <2>2, PromoteRun
<1> QED
  BY <1>5, <1>6

LEMMA CompleteRun ==
    ASSUME NEW run \in RunStates, NEW bound \in Nat, RunOrdered(run, bound),
           NEW token \in Nat, NEW outcome \in Outcomes
    PROVE  LET done == Complete(run, token, outcome) IN
           /\ done \in RunStates /\ RunOrdered(done, bound)
           /\ done.requested = run.requested /\ done.queue = run.queue
           /\ \/ /\ run.requested = token
                 /\ done.completed = token /\ done.status = outcome
              \/ /\ run.requested # token
                 /\ done.completed = run.completed /\ done.status = run.status
<1>1. CASE run.requested = token
  <2>1. /\ Complete(run, token, outcome) \in RunStates
        /\ Complete(run, token, outcome).completed = token
        /\ Complete(run, token, outcome).status = outcome
        /\ Complete(run, token, outcome).queue = run.queue
        /\ Complete(run, token, outcome).requested = run.requested
    BY <1>1 DEF Complete, RunStates
  <2> QED
    BY <1>1, <2>1 DEF RunOrdered, RunStates
<1>2. CASE run.requested # token
  BY <1>2 DEF Complete
<1> QED
  BY <1>1, <1>2

-------------------------------------------------------------------------------
(***************************************************************************)
(* What a fold does to the run state of each source.                       *)
(***************************************************************************)
EndsCurrent(q) == Ends(mutation, [source |-> q, token |-> runs[q].requested])

Starts(q) ==
    /\ runs'[q].requested > runs[q].requested
    /\ runs'[q].requested = runs'[q].queue
    /\ ~IsInFlight(runs[q]) \/ EndsCurrent(q)

Completes(q) ==
    \/ /\ EndsCurrent(q)
       /\ runs'[q].completed = runs[q].requested
       /\ runs'[q].status = OutcomeOf(mutation)
    \/ /\ ~EndsCurrent(q)
       /\ runs'[q].completed = runs[q].completed
       /\ runs'[q].status = runs[q].status

Advances(q) ==
    /\ runs'[q] \in RunStates /\ RunOrdered(runs'[q], MaxToken[q])
    /\ runs'[q].requested = runs[q].requested \/ Starts(q)
    /\ Completes(q)

LEMMA AdmittedAdvances ==
    ASSUME NEW q \in Sources, runs[q] \in RunStates,
           RunOrdered(runs[q], MaxToken[q]), ~EndsCurrent(q),
           \/ runs'[q] = runs[q]
           \/ q \in Askable /\ runs'[q] = Admit(runs[q], 0)
    PROVE  Advances(q)
<1>1. MaxToken[q] \in Nat
  BY KernelBounds
<1>2. CASE runs'[q] = runs[q]
  BY <1>2 DEF Advances, Completes
<1>3. CASE q \in Askable /\ runs'[q] = Admit(runs[q], 0)
  <2>1. runs[q].queue < MaxToken[q]
    BY <1>3 DEF Askable
  <2>2. /\ runs'[q] \in RunStates /\ RunOrdered(runs'[q], MaxToken[q])
        /\ runs'[q].completed = runs[q].completed
        /\ runs'[q].status = runs[q].status
        /\ \/ runs'[q].requested = runs[q].requested
           \/ /\ ~IsInFlight(runs[q])
              /\ runs'[q].requested > runs[q].requested
              /\ runs'[q].requested = runs'[q].queue
    BY <1>1, <1>3, <2>1, AdmitRun
  <2> QED
    BY <2>2 DEF Advances, Completes, Starts
<1> QED
  BY <1>2, <1>3

LEMMA RequestAdvances ==
    ASSUME KernelTypeOK, RunsOrdered, Fold, mutation.kind = "request"
    PROVE  runs' = [q \in Sources |-> runs'[q]] /\ \A q \in Sources : Advances(q)
<1>1. runs' = Requested(mutation.emitting \cap Askable)
  BY DEF Fold
<1>2. runs' = [s \in Sources |-> IF s \in mutation.emitting \cap Askable
                                THEN Admit(runs[s], 0) ELSE runs[s]]
  BY <1>1 DEF Requested
<1>3. ASSUME NEW q \in Sources PROVE Advances(q)
  <2>1. \/ runs'[q] = runs[q]
        \/ q \in Askable /\ runs'[q] = Admit(runs[q], 0)
    BY <1>2
  <2>2. ~EndsCurrent(q)
    BY DEF EndsCurrent, Ends
  <2> QED
    BY <2>1, <2>2, AdmittedAdvances DEF KernelTypeOK, RunsOrdered
<1> QED
  BY <1>2, <1>3

LEMMA CompletionAdvances ==
    ASSUME KernelTypeOK, RunsOrdered, Fold, mutation.kind # "request"
    PROVE  runs' = [q \in Sources |-> runs'[q]] /\ \A q \in Sources : Advances(q)
<1> DEFINE i == mutation.invocation
           outcome == OutcomeOf(mutation)
           done == Complete(runs[i.source], i.token, outcome)
<1>1. i \in Invocations /\ outcome \in Outcomes
  <2>1. mutation \in Mutations
    BY DEF KernelTypeOK
  <2>2. \/ mutation \in Settlements
        \/ mutation \in Cancellations /\ mutation.kind = "cancel"
    BY <2>1, MutationType
  <2> QED
    BY <2>1, <2>2 DEF Settlements, Cancellations, OutcomeOf, Outcomes
<1>2. /\ i.source \in Sources /\ i.token \in Nat
      /\ i = [source |-> i.source, token |-> i.token]
  BY <1>1, InvocationType
<1>3. PICK emitting \in SUBSET (Askable \cup {i.source}) :
          runs' = CompleteAndPromote(runs, i.source, i.token, outcome, emitting, 0)
  BY DEF Fold
<1>4. DOMAIN runs = Sources
  BY DEF KernelTypeOK
<1>5. ASSUME NEW q \in Sources, q # i.source PROVE Advances(q)
  <2>1. \/ runs'[q] = runs[q]
        \/ q \in emitting /\ runs'[q] = Admit(runs[q], 0)
    BY <1>3, <1>4, <1>5 DEF CompleteAndPromote
  <2>2. ~EndsCurrent(q)
    BY <1>2, <1>5 DEF EndsCurrent, Ends
  <2>3. q \in emitting => q \in Askable
    BY <1>3, <1>5
  <2> QED
    BY <2>1, <2>2, <2>3, AdmittedAdvances DEF KernelTypeOK, RunsOrdered
<1>6. Advances(i.source)
  <2> DEFINE s == i.source
  <2>1. /\ runs[s] \in RunStates /\ RunOrdered(runs[s], MaxToken[s])
        /\ MaxToken[s] \in Nat
    BY <1>2, KernelBounds DEF KernelTypeOK, RunsOrdered
  <2>2. /\ done \in RunStates /\ RunOrdered(done, MaxToken[s])
        /\ done.requested = runs[s].requested /\ done.queue = runs[s].queue
        /\ \/ /\ runs[s].requested = i.token
              /\ done.completed = i.token /\ done.status = outcome
           \/ /\ runs[s].requested # i.token
              /\ done.completed = runs[s].completed /\ done.status = runs[s].status
    BY <1>1, <1>2, <2>1, CompleteRun
  <2>3. \/ runs'[s] = done
        \/ runs[s].requested = i.token /\ HasPending(done) /\ runs'[s] = Promote(done)
    BY <1>2, <1>3, <1>4 DEF CompleteAndPromote
  <2>4. EndsCurrent(s) <=> runs[s].requested = i.token
    BY <1>2 DEF EndsCurrent, Ends
  <2>5. CASE runs'[s] = done
    BY <2>2, <2>4, <2>5 DEF Advances, Completes
  <2>6. CASE /\ runs[s].requested = i.token /\ HasPending(done)
             /\ runs'[s] = Promote(done)
    <3>1. /\ runs'[s] \in RunStates /\ RunOrdered(runs'[s], MaxToken[s])
          /\ runs'[s].requested > done.requested
          /\ runs'[s].requested = runs'[s].queue
          /\ runs'[s].completed = done.completed /\ runs'[s].status = done.status
      BY <2>1, <2>2, <2>6, PromoteRun
    <3> QED
      BY <2>2, <2>4, <2>6, <3>1 DEF Advances, Completes, Starts
  <2> QED
    BY <2>3, <2>5, <2>6
<1> QED
  BY <1>2, <1>3, <1>4, <1>5, <1>6 DEF CompleteAndPromote

LEMMA FoldAdvances ==
    ASSUME KernelTypeOK, RunsOrdered, Fold
    PROVE  runs' = [q \in Sources |-> runs'[q]] /\ \A q \in Sources : Advances(q)
  BY RequestAdvances, CompletionAdvances

-------------------------------------------------------------------------------
(***************************************************************************)
(* The invariant, action by action.  First the ones that only queue.       *)
(***************************************************************************)
LEMMA InitKeeps == Init => KernelInvariant
<1> SUFFICES ASSUME Init PROVE KernelInvariant
  OBVIOUS
<1> USE DEF Init
<1>1. InitialRun \in RunStates
  BY DEF InitialRun, RunStates
<1>2. NoMutation \in Mutations /\ NoMutation.kind = "request"
  BY DEF NoMutation, Mutations, Requests
<1>3. KernelTypeOK
  BY <1>1, <1>2, KernelBounds DEF KernelTypeOK
<1>4. RunsOrdered
  BY KernelBounds DEF RunsOrdered, RunOrdered, InitialRun
<1>5. \A i : ~Spent(i)
  BY <1>2 DEF Spent, Ends, Elems
<1> QED
  BY <1>2, <1>3, <1>4, <1>5 DEF KernelInvariant, ActiveInFlight, ActivePast,
     FiredInFlight, SpentIsOver, FoldedCompletes, IdleIsEmpty

LEMMA SpentByAppend ==
    ASSUME KernelTypeOK, NEW m \in Mutations,
           queue' = Append(queue, m), UNCHANGED mutation
    PROVE  /\ queue' \in Seq(Mutations)
           /\ \A i : Spent(i)' <=> Spent(i) \/ Ends(m, i)
<1>1. queue \in Seq(Mutations)
  BY DEF KernelTypeOK
<1>2. queue' \in Seq(Mutations)
  BY <1>1
<1>3. Elems(queue') = Elems(queue) \cup {m}
  BY <1>1, AppendElems
<1> QED
  BY <1>2, <1>3 DEF Spent

LEMMA RequestKeeps ==
    ASSUME KernelInvariant, Request
    PROVE  KernelInvariant'
<1> USE DEF KernelInvariant
<1>1. PICK emitting \in SUBSET Sources :
          queue' = Append(queue, [kind |-> "request", emitting |-> emitting])
  BY DEF Request
<1> DEFINE m == [kind |-> "request", emitting |-> emitting]
<1>2. UNCHANGED <<store, registry, work, failures, revoked>>
  BY DEF Request
<1>3. m \in Mutations /\ \A i : ~Ends(m, i)
  BY DEF Mutations, Requests, Ends
<1>4. queue' \in Seq(Mutations) /\ \A i : Spent(i)' <=> Spent(i)
  BY <1>1, <1>2, <1>3, SpentByAppend DEF work
<1>5. KernelTypeOK'
  BY <1>2, <1>4 DEF KernelTypeOK, store, registry, work
<1> QED
  BY <1>2, <1>4, <1>5 DEF store, registry, work, RunsOrdered, ActiveInFlight,
     ActivePast, FiredInFlight, SpentIsOver, FoldedCompletes, IdleIsEmpty

LEMMA EmitKeeps ==
    ASSUME KernelInvariant, NEW i \in Invocations, NEW outcome \in Outcomes,
           Emit(i, outcome)
    PROVE  KernelInvariant'
<1> USE DEF KernelInvariant
<1> DEFINE m == [kind |-> "settle", invocation |-> i, outcome |-> outcome]
<1>1. /\ i \in active \ closed /\ closed' = closed \cup {i}
      /\ queue' = Append(queue, m)
      /\ UNCHANGED <<store, active, aborted, work, failures, revoked>>
  BY DEF Emit, MayEmit
<1>2. m \in Mutations /\ \A j : Ends(m, j) <=> j = i
  BY DEF Mutations, Settlements, Ends
<1>3. queue' \in Seq(Mutations) /\ \A j : Spent(j)' <=> Spent(j) \/ j = i
  BY <1>1, <1>2, SpentByAppend DEF work
<1>4. KernelTypeOK'
  BY <1>1, <1>3 DEF KernelTypeOK, store, work
<1>5. SpentIsOver'
  BY <1>1, <1>3 DEF SpentIsOver, ActivePast, store
<1>6. FiredInFlight'
  BY <1>1, <1>3 DEF FiredInFlight, store, work
<1> QED
  BY <1>1, <1>4, <1>5, <1>6 DEF store, work, RunsOrdered, ActiveInFlight,
     ActivePast, FoldedCompletes, IdleIsEmpty

LEMMA CancelKeeps ==
    ASSUME KernelInvariant, NEW i \in active, Cancel(i)
    PROVE  KernelInvariant'
<1> USE DEF KernelInvariant
<1> DEFINE m == [kind |-> "cancel", invocation |-> i]
<1>1. /\ aborted' = aborted \cup {i} /\ active' = active \ {i}
      /\ closed' = closed \ {i} /\ queue' = Append(queue, m)
      /\ revoked' \subseteq revoked \cup {i}
      /\ UNCHANGED <<store, work, failures>>
  BY DEF Cancel, QueueCancellation
<1>2. m \in Mutations /\ \A j : Ends(m, j) <=> j = i
  BY DEF Mutations, Cancellations, Ends, KernelTypeOK
<1>3. queue' \in Seq(Mutations) /\ \A j : Spent(j)' <=> Spent(j) \/ j = i
  BY <1>1, <1>2, SpentByAppend DEF work
<1>4. KernelTypeOK'
  BY <1>1, <1>3 DEF KernelTypeOK, store, work
<1>5. SpentIsOver'
  BY <1>1, <1>3 DEF SpentIsOver, ActivePast, store
<1>6. FiredInFlight'
  BY <1>1, <1>3 DEF FiredInFlight, store, work
<1> QED
  BY <1>1, <1>4, <1>5, <1>6 DEF store, work, RunsOrdered, ActiveInFlight,
     ActivePast, FoldedCompletes, IdleIsEmpty

-------------------------------------------------------------------------------
(***************************************************************************)
(* The actions in the life of a mutation.                                  *)
(***************************************************************************)
LEMMA BeginKeeps ==
    ASSUME KernelInvariant, Begin
    PROVE  KernelInvariant'
<1> USE DEF KernelInvariant
<1>1. /\ step = "idle" /\ queue # <<>> /\ queue' = Tail(queue)
      /\ UNCHANGED <<store, registry, failures, revoked>>
  BY DEF Begin
<1>2. /\ Head(queue) \in Mutations /\ Tail(queue) \in Seq(Mutations)
      /\ Elems(queue) = {Head(queue)} \cup Elems(Tail(queue))
  BY <1>1, HeadTailElems DEF KernelTypeOK
<1>3. /\ fired = {} /\ fired' = {}
      /\ \/ mutation' = Head(queue) /\ step' = "begun"
         \/ mutation' = mutation /\ step' = "idle" /\ mutation = NoMutation
  BY <1>1 DEF Begin, IdleIsEmpty, work
<1>4. \A i : Spent(i)' => Spent(i)
  BY <1>1, <1>2, <1>3 DEF Spent
<1>5. KernelTypeOK'
  BY <1>1, <1>2, <1>3 DEF KernelTypeOK, store, registry
<1> QED
  BY <1>1, <1>3, <1>4, <1>5 DEF store, registry, RunsOrdered, ActiveInFlight,
     ActivePast, FiredInFlight, SpentIsOver, FoldedCompletes, IdleIsEmpty

LEMMA FiredIsNew ==
    ASSUME KernelTypeOK, runs' = [q \in Sources |-> runs'[q]], fired' = Fired(runs, runs'),
           \A q \in Sources : Advances(q)
    PROVE  /\ runs' \in [Sources -> RunStates]
           /\ fired' \subseteq Invocations
           /\ \A i \in fired' :
                 /\ runs'[i.source].requested = i.token
                 /\ runs[i.source].requested < i.token
                 /\ Starts(i.source)
<1>1. runs' \in [Sources -> RunStates]
  <2>1. \A q \in Sources : runs'[q] \in RunStates
    BY DEF Advances
  <2> QED
    BY <2>1
<1>2. DOMAIN runs = Sources
  BY DEF KernelTypeOK
<1>3. ASSUME NEW i \in fired'
      PROVE  /\ i \in Invocations
             /\ runs'[i.source].requested = i.token
             /\ runs[i.source].requested < i.token /\ Starts(i.source)
  <2>1. PICK q \in Sources :
            /\ runs'[q].requested # runs[q].requested
            /\ i = [source |-> q, token |-> runs'[q].requested]
    BY <1>2 DEF Fired
  <2>2. Starts(q) /\ runs'[q] \in RunStates /\ RunOrdered(runs'[q], MaxToken[q])
    BY <2>1 DEF Advances
  <2>3. runs[q] \in RunStates /\ MaxToken[q] \in Nat
    BY KernelBounds DEF KernelTypeOK
  <2>4. runs'[q].requested \in 1..MaxToken[q] /\ runs[q].requested < runs'[q].requested
    BY <2>2, <2>3 DEF Starts, RunOrdered, RunStates
  <2>5. i \in [source : {q}, token : 1..MaxToken[q]]
    BY <2>1, <2>4
  <2> QED
    BY <2>1, <2>2, <2>4, <2>5 DEF Invocations
<1> QED
  BY <1>1, <1>3

LEMMA FoldKeeps ==
    ASSUME KernelInvariant, Fold
    PROVE  KernelInvariant'
<1> USE DEF KernelInvariant
<1>1. /\ step = "begun" /\ step' = "folded" /\ fired' = Fired(runs, runs')
      /\ UNCHANGED <<registry, queue, mutation, failures, revoked>>
  BY DEF Fold
<1>2. runs' = [q \in Sources |-> runs'[q]] /\ \A q \in Sources : Advances(q)
  BY FoldAdvances
<1>3. /\ runs' \in [Sources -> RunStates]
      /\ fired' \subseteq Invocations
      /\ \A i \in fired' :
            /\ runs'[i.source].requested = i.token
            /\ runs[i.source].requested < i.token
            /\ Starts(i.source)
  BY <1>1, <1>2, FiredIsNew
<1>4. KernelTypeOK'
  BY <1>1, <1>3 DEF KernelTypeOK, registry
<1>5. RunsOrdered'
  BY <1>2 DEF RunsOrdered, Advances
<1>6. \A i : Spent(i)' <=> Spent(i)
  BY <1>1 DEF Spent
<1>7. \A i : Ends(mutation, i) => Spent(i)
  BY DEF Spent
<1>8. \A q \in Sources :
          /\ runs[q].requested \in Nat /\ runs[q].completed \in Nat
          /\ runs'[q].requested \in Nat /\ runs'[q].completed \in Nat
          /\ runs[q].completed <= runs[q].requested
          /\ runs[q].requested <= runs'[q].requested
  <2> SUFFICES ASSUME NEW q \in Sources
               PROVE  /\ runs[q].requested \in Nat /\ runs[q].completed \in Nat
                      /\ runs'[q].requested \in Nat /\ runs'[q].completed \in Nat
                      /\ runs[q].completed <= runs[q].requested
                      /\ runs[q].requested <= runs'[q].requested
    OBVIOUS
  <2>1. runs[q] \in RunStates /\ runs'[q] \in RunStates
    BY <1>3 DEF KernelTypeOK
  <2>2. /\ runs[q].requested \in Nat /\ runs[q].completed \in Nat
        /\ runs'[q].requested \in Nat /\ runs'[q].completed \in Nat
    BY <2>1 DEF RunStates
  <2>3. runs[q].completed <= runs[q].requested
    BY DEF RunsOrdered, RunOrdered
  <2>4. runs'[q].requested = runs[q].requested \/ runs'[q].requested > runs[q].requested
    BY <1>2 DEF Advances, Starts
  <2> QED
    BY <2>2, <2>3, <2>4
\* An open invocation is in flight and not ended, so its source stays as it is.
<1>9. ActiveInFlight'
  <2> SUFFICES ASSUME NEW i \in active \ closed
               PROVE  /\ runs'[i.source].requested = i.token
                      /\ runs'[i.source].completed # i.token
    BY <1>1 DEF ActiveInFlight, registry
  <2>1. i \in Invocations
    BY DEF KernelTypeOK
  <2>2. /\ i.source \in Sources /\ i.token \in Nat \ {0}
        /\ i = [source |-> i.source, token |-> i.token]
    BY <2>1, InvocationType
  <2>3. runs[i.source].requested = i.token /\ runs[i.source].completed # i.token
    BY DEF ActiveInFlight
  <2>4. ~EndsCurrent(i.source)
    BY <1>7, <2>1, <2>2, <2>3 DEF EndsCurrent, SpentIsOver
  <2>5. IsInFlight(runs[i.source])
    BY <2>2, <2>3 DEF IsInFlight
  <2> QED
    BY <1>2, <2>2, <2>3, <2>4, <2>5 DEF Advances, Starts, Completes
<1>10. ActivePast'
  <2>1. \A i \in active : i \in Invocations /\ i.source \in Sources /\ i.token \in Nat
    BY InvocationType DEF KernelTypeOK
  <2> QED
    BY <1>1, <1>8, <2>1 DEF ActivePast, registry
<1>11. FiredInFlight'
  <2> SUFFICES ASSUME NEW i \in fired'
               PROVE  /\ runs'[i.source].completed # i.token
                      /\ i \notin active /\ ~Spent(i)
    BY <1>1, <1>3, <1>6 DEF FiredInFlight, registry
  <2>1. i \in Invocations /\ i.source \in Sources /\ i.token \in Nat
    BY <1>3, InvocationType
  <2>2. runs[i.source].requested < i.token
    BY <1>3
  <2>3. i \notin active
    BY <1>8, <2>1, <2>2 DEF ActivePast
  <2>4. ~Spent(i)
    BY <1>8, <2>1, <2>2 DEF SpentIsOver
  <2>5. runs'[i.source].completed # i.token
    BY <1>2, <1>8, <2>1, <2>2 DEF Advances, Completes
  <2> QED
    BY <2>3, <2>4, <2>5
<1>12. SpentIsOver'
  <2>1. \A i \in Invocations : i.source \in Sources /\ i.token \in Nat
    BY InvocationType
  <2> QED
    BY <1>1, <1>6, <1>8, <2>1 DEF SpentIsOver, registry
<1>13. FoldedCompletes'
  <2> SUFFICES ASSUME NEW i \in Invocations, Ends(mutation, i),
                      runs'[i.source].requested = i.token
               PROVE  runs'[i.source].completed = i.token
    BY <1>1 DEF FoldedCompletes
  <2>1. /\ i.source \in Sources /\ i.token \in Nat
        /\ i = [source |-> i.source, token |-> i.token]
    BY InvocationType
  <2>2. i.token <= runs[i.source].requested
    BY <1>7 DEF SpentIsOver
  <2>3. runs[i.source].requested = i.token
    BY <1>8, <2>1, <2>2
  <2>4. EndsCurrent(i.source)
    BY <2>1, <2>3 DEF EndsCurrent
  <2> QED
    BY <1>2, <2>1, <2>3, <2>4 DEF Advances, Completes
<1>14. IdleIsEmpty'
  BY <1>1 DEF IdleIsEmpty
<1> QED
  BY <1>4, <1>5, <1>9, <1>10, <1>11, <1>12, <1>13, <1>14

LEMMA RemainingWereActive ==
    ASSUME KernelInvariant
    PROVE  Remaining \subseteq active
  BY DEF Remaining

LEMMA SpentWhenIdle ==
    ASSUME Idle, UNCHANGED queue
    PROVE  \A i : Spent(i)' => Spent(i)
<1>1. \A i : ~Ends(mutation', i)
  BY DEF Idle, NoMutation, Ends
<1> QED
  BY <1>1 DEF Spent

LEMMA CommitKeeps ==
    ASSUME KernelInvariant, Commit
    PROVE  KernelInvariant'
<1> USE DEF KernelInvariant
<1>1. /\ step = "folded" /\ active' = Remaining \cup fired
      /\ closed' = closed \cap Remaining /\ Idle
      /\ UNCHANGED <<store, aborted, queue, failures, revoked>>
  BY DEF Commit, StartFired
<1>2. mutation' = NoMutation /\ step' = "idle" /\ fired' = {}
  BY <1>1 DEF Idle
<1>3. Remaining \subseteq active
  BY RemainingWereActive
<1>4. \A i : Spent(i)' => Spent(i)
  BY <1>1, SpentWhenIdle
<1>5. NoMutation \in Mutations
  BY DEF NoMutation, Mutations, Requests
<1>6. KernelTypeOK'
  BY <1>1, <1>2, <1>3, <1>5 DEF KernelTypeOK, store
<1>7. \A i \in active' \ closed' : i \in active \ closed \/ i \in fired
  BY <1>1, <1>3
<1>8. ActiveInFlight'
  BY <1>1, <1>7 DEF ActiveInFlight, FiredInFlight, store
<1>9. ActivePast'
  <2>1. \A i \in fired : i.token <= runs[i.source].requested
    BY InvocationType DEF FiredInFlight, KernelTypeOK
  <2> QED
    BY <1>1, <1>3, <2>1 DEF ActivePast, store
<1>10. SpentIsOver'
  BY <1>1, <1>4, <1>7 DEF SpentIsOver, FiredInFlight, store
<1> QED
  BY <1>1, <1>2, <1>6, <1>8, <1>9, <1>10 DEF store, RunsOrdered, FiredInFlight,
     FoldedCompletes, IdleIsEmpty

LEMMA ThrowKeeps ==
    ASSUME KernelInvariant, Throw
    PROVE  KernelInvariant'
<1> USE DEF KernelInvariant
<1>1. /\ active' = Remaining /\ closed' = closed \cap Remaining /\ Idle
      /\ failures < MaxFailures /\ failures' = failures + 1
      /\ UNCHANGED <<store, aborted, queue, revoked>>
  BY DEF Throw
<1>2. mutation' = NoMutation /\ step' = "idle" /\ fired' = {}
  BY <1>1 DEF Idle
<1>3. Remaining \subseteq active
  BY RemainingWereActive
<1>4. \A i : Spent(i)' => Spent(i)
  BY <1>1, SpentWhenIdle
<1>5. NoMutation \in Mutations
  BY DEF NoMutation, Mutations, Requests
<1>6. failures' \in 0..MaxFailures
  BY <1>1, KernelBounds DEF KernelTypeOK
<1>7. KernelTypeOK'
  BY <1>1, <1>2, <1>3, <1>5, <1>6 DEF KernelTypeOK, store
<1>8. active' \subseteq active /\ active' \ closed' \subseteq active \ closed
  BY <1>1, <1>3
<1> QED
  BY <1>1, <1>2, <1>4, <1>7, <1>8 DEF store, RunsOrdered, ActiveInFlight,
     ActivePast, SpentIsOver, FiredInFlight, FoldedCompletes, IdleIsEmpty

\* Every step keeps the invariant.
LEMMA NextKeeps ==
    ASSUME KernelInvariant, [Next]_vars
    PROVE  KernelInvariant'
<1>1. CASE UNCHANGED vars
  BY <1>1 DEF vars, store, registry, work, KernelInvariant, KernelTypeOK,
     RunsOrdered, ActiveInFlight, ActivePast, FiredInFlight, SpentIsOver,
     FoldedCompletes, IdleIsEmpty, Spent
<1>2. CASE \E i \in active : Cancel(i)
  BY <1>2, CancelKeeps
<1>3. CASE \E i \in Invocations, outcome \in Outcomes : Emit(i, outcome)
  BY <1>3, EmitKeeps
<1> QED
  BY <1>1, <1>2, <1>3, RequestKeeps, BeginKeeps, FoldKeeps, CommitKeeps, ThrowKeeps
     DEF Next

\* The invariant of the kernel always holds.
THEOREM InvariantHolds == Spec => []KernelInvariant
<1> QED
  BY InitKeeps, NextKeeps, PTL DEF Spec

-------------------------------------------------------------------------------
(***************************************************************************)
(* Types are kept, and an open invocation is the one its source's run      *)
(* state names: a source executes one request at a time.                   *)
(***************************************************************************)
THEOREM OneRequest == Spec => [](KernelTypeOK /\ OneRequestAtATime)
<1>1. KernelInvariant => KernelTypeOK /\ OneRequestAtATime
  <2> SUFFICES ASSUME KernelInvariant PROVE OneRequestAtATime
    BY DEF KernelInvariant
  <2>1. ASSUME NEW i \in active \ closed
        PROVE  i = [source |-> i.source, token |-> runs[i.source].requested]
    BY InvocationType DEF KernelInvariant, KernelTypeOK, ActiveInFlight
  <2>2. ASSUME NEW i \in active \ closed, NEW j \in active \ closed,
               j.source = i.source
        PROVE  j = i
    BY <2>1, <2>2
  <2> QED
    BY <2>2 DEF OneRequestAtATime, KernelInvariant, ActiveInFlight
<1> QED
  BY <1>1, InvariantHolds, PTL

(***************************************************************************)
(* The request a source starts is the newest one made of it: of a backlog  *)
(* only the last is executed.                                              *)
(***************************************************************************)
THEOREM NewestStarts == Spec => NewestRequestStarts
<1>1. KernelInvariant /\ [Next]_vars =>
          [\A s \in Sources : runs'[s].requested # runs[s].requested
                                  => runs'[s].requested = runs'[s].queue]_vars
  <2> SUFFICES ASSUME KernelInvariant, Next, NEW s \in Sources,
                      runs'[s].requested # runs[s].requested
               PROVE  runs'[s].requested = runs'[s].queue
    OBVIOUS
  <2>1. ~UNCHANGED runs
    OBVIOUS
  <2>2. Fold
    BY <2>1 DEF Next, Request, Begin, Commit, Throw, Cancel, Emit, store
  <2> QED
    BY <2>2, FoldAdvances DEF KernelInvariant, Advances, Starts
<1> QED
  BY <1>1, InvariantHolds, PTL DEF Spec, NewestRequestStarts

-------------------------------------------------------------------------------
(***************************************************************************)
(* Who completes a source in flight.                                       *)
(***************************************************************************)
CancelOf(i) == [kind |-> "cancel", invocation |-> i]

LEMMA CompletedBy ==
    \A i : WillComplete(i) <=>
        i \in active \cup fired \/ CancelOf(i) \in Elems(queue) \cup {mutation}
  BY DEF WillComplete, CancelOf, Elems

\* What a step must not lose.
LEMMA KeptNotOrphaned ==
    ASSUME NEW i, WillComplete(i),
           i \in active \cup fired =>
               i \in active' \cup fired' \/ CancelOf(i) \in Elems(queue'),
           CancelOf(i) \in Elems(queue) \cup {mutation} =>
               CancelOf(i) \in Elems(queue') \cup {mutation'}
    PROVE  WillComplete(i)'
<1>1. WillComplete(i)' <=>
        i \in active' \cup fired' \/ CancelOf(i) \in Elems(queue') \cup {mutation'}
  BY DEF WillComplete, CancelOf, Elems
<1> QED
  BY <1>1, CompletedBy

LEMMA AppendedNotOrphaned ==
    ASSUME KernelTypeOK, NEW i, WillComplete(i), NEW m,
           queue' = Append(queue, m), UNCHANGED <<mutation, fired>>,
           i \in active => i \in active' \/ m = CancelOf(i)
    PROVE  WillComplete(i)'
<1>1. Elems(queue') = Elems(queue) \cup {m}
  BY AppendElems DEF KernelTypeOK
<1> QED
  BY <1>1, KeptNotOrphaned

LEMMA FoldedNotOrphaned ==
    ASSUME KernelInvariant, Fold, NEW s \in Sources, IsInFlight(runs'[s]),
           NEW i, i = [source |-> s, token |-> runs'[s].requested],
           IsInFlight(runs[s]) =>
               WillComplete([source |-> s, token |-> runs[s].requested])
    PROVE  WillComplete(i)'
<1> USE DEF KernelInvariant
<1>1. /\ fired = {} /\ fired' = Fired(runs, runs')
      /\ UNCHANGED <<active, queue, mutation>>
  BY DEF Fold, IdleIsEmpty, registry
<1>2. Advances(s) /\ DOMAIN runs = Sources
  BY FoldAdvances DEF KernelTypeOK
<1>3. CASE runs'[s].requested # runs[s].requested
  <2>1. i \in fired'
    BY <1>1, <1>2, <1>3 DEF Fired
  <2> QED
    BY <2>1 DEF WillComplete
<1>4. CASE runs'[s].requested = runs[s].requested
  <2>1. ~EndsCurrent(s) /\ IsInFlight(runs[s])
    BY <1>2, <1>4 DEF Advances, Completes, IsInFlight
  <2>2. WillComplete(i)
    BY <1>4, <2>1
  <2> QED
    BY <1>1, <2>2 DEF WillComplete
<1> QED
  BY <1>3, <1>4

LEMMA CommittedNotOrphaned ==
    ASSUME KernelInvariant, Commit, NEW i \in Invocations, WillComplete(i),
           runs[i.source].requested = i.token, runs[i.source].completed # i.token
    PROVE  WillComplete(i)'
<1> USE DEF KernelInvariant
<1>1. ~Ends(mutation, i)
  BY DEF Commit, FoldedCompletes
<1>2. active' = Remaining \cup fired /\ queue' = queue
  BY DEF Commit, StartFired
<1>3. CancelOf(i) # mutation
  BY <1>1 DEF CancelOf, Ends
<1>4. i \in active => i \in Remaining
  BY <1>1 DEF Remaining, Ends
<1> QED
  BY <1>2, <1>3, <1>4 DEF WillComplete, CancelOf

(***************************************************************************)
(* While no mutation threw, whoever is to complete a source in flight is   *)
(* there: no settlement, cancellation or promotion forgets it.             *)
(***************************************************************************)
THEOREM NoOrphans == Spec => []InFlightUnlessThrown
<1>1. Init => InFlightUnlessThrown
  BY DEF Init, InFlightUnlessThrown, IsInFlight, InitialRun
<1>2. ASSUME KernelInvariant, InFlightUnlessThrown, [Next]_vars
      PROVE  InFlightUnlessThrown'
  <2> USE <1>2
  <2> SUFFICES ASSUME failures' = 0, NEW s \in Sources, IsInFlight(runs'[s]),
                      NEW i, i = [source |-> s, token |-> runs'[s].requested]
               PROVE  WillComplete(i)'
    BY DEF InFlightUnlessThrown
  <2>1. failures \in Nat
    BY KernelBounds DEF KernelInvariant, KernelTypeOK
  <2>2. failures = 0
    <3>1. failures' = failures \/ failures' = failures + 1
      <4>1. CASE Throw
        BY <4>1 DEF Throw
      <4>2. CASE ~Throw
        BY <4>2 DEF Next, vars, Request, Begin, Fold, Commit, Cancel, Emit
      <4> QED
        BY <4>1, <4>2
    <3> QED
      BY <2>1, <3>1
  <2>3. \A q \in Sources : IsInFlight(runs[q]) =>
            WillComplete([source |-> q, token |-> runs[q].requested])
    BY <2>2 DEF InFlightUnlessThrown
  <2>4. CASE Fold
    BY <2>3, <2>4, FoldedNotOrphaned
  <2>5. CASE ~Fold
    <3>1. runs' = runs
      BY <2>5 DEF Next, vars, Request, Begin, Commit, Throw, Cancel, Emit, store
    <3>2. /\ runs[s].requested \in Nat /\ runs[s].requested # 0
          /\ runs[s].requested # runs[s].completed
          /\ runs[s].requested <= MaxToken[s] /\ MaxToken[s] \in Nat
      <4>1. runs[s] \in RunStates /\ RunOrdered(runs[s], MaxToken[s])
        BY DEF KernelInvariant, KernelTypeOK, RunsOrdered
      <4>2. MaxToken[s] \in Nat
        BY KernelBounds
      <4>3. IsInFlight(runs[s])
        BY <3>1
      <4> QED
        BY <4>1, <4>2, <4>3 DEF IsInFlight, RunStates, RunOrdered
    <3>3. i = [source |-> s, token |-> runs[s].requested]
      BY <3>1
    <3>4. WillComplete(i)
      BY <2>3, <3>1, <3>3
    <3>5. CASE UNCHANGED vars
      BY <3>4, <3>5, KeptNotOrphaned DEF vars, registry, work
    <3>6. CASE Request
      <4>1. PICK m : queue' = Append(queue, m)
        BY <3>6 DEF Request
      <4> QED
        BY <3>4, <3>6, <4>1, AppendedNotOrphaned
           DEF Request, registry, work, KernelInvariant
    <3>7. CASE Begin
      <4>1. /\ Elems(queue) = {Head(queue)} \cup Elems(Tail(queue))
            /\ queue' = Tail(queue)
        BY <3>7, HeadTailElems DEF Begin, KernelInvariant, KernelTypeOK
      <4>2. mutation = NoMutation /\ active' = active /\ fired' = fired
        BY <3>7 DEF Begin, KernelInvariant, IdleIsEmpty, registry, work
      <4>3. CancelOf(i) # NoMutation /\ Admitted(CancelOf(i))
        BY DEF CancelOf, NoMutation, Admitted
      <4>4. CancelOf(i) = Head(queue) => mutation' = CancelOf(i)
        BY <3>7, <4>3 DEF Begin
      <4> QED
        BY <3>4, <4>1, <4>2, <4>3, <4>4, KeptNotOrphaned
    <3>8. CASE Commit
      <4>1. i \in Invocations
        <5>1. i \in [source : {s}, token : 1..MaxToken[s]]
          BY <3>2, <3>3
        <5> QED
          BY <5>1 DEF Invocations
      <4> QED
        BY <3>2, <3>3, <3>4, <3>8, <4>1, CommittedNotOrphaned
    <3>9. CASE Throw
      BY <2>2, <3>9 DEF Throw
    <3>10. ASSUME NEW j \in active, Cancel(j) PROVE WillComplete(i)'
      <4>1. queue' = Append(queue, CancelOf(j)) /\ active' = active \ {j}
        BY <3>10 DEF Cancel, QueueCancellation, CancelOf
      <4>2. UNCHANGED <<mutation, fired>>
        BY <3>10 DEF Cancel, work
      <4> QED
        BY <3>4, <4>1, <4>2, AppendedNotOrphaned DEF KernelInvariant
    <3>11. ASSUME NEW j \in Invocations, NEW outcome \in Outcomes, Emit(j, outcome)
           PROVE  WillComplete(i)'
      <4>1. PICK m : queue' = Append(queue, m)
        BY <3>11 DEF Emit
      <4>2. UNCHANGED <<mutation, fired, active>>
        BY <3>11 DEF Emit, work
      <4> QED
        BY <3>4, <4>1, <4>2, AppendedNotOrphaned DEF KernelInvariant
    <3> QED
      BY <2>5, <3>5, <3>6, <3>7, <3>8, <3>9, <3>10, <3>11 DEF Next
  <2> QED
    BY <2>4, <2>5
<1> QED
  BY <1>1, <1>2, InvariantHolds, PTL DEF Spec

-------------------------------------------------------------------------------
(***************************************************************************)
(* Cancellation.  The settlement of an invocation cancelled before that    *)
(* settlement began never runs, and an invocation still in the registry    *)
(* is completed only by the settlement that is running.                    *)
(***************************************************************************)
RevokedNotSettling == \A i \in revoked : ~Settling(i)

Failed(i) == runs[i.source].completed = i.token => runs[i.source].status = "failure"

CompletedWhileSettling == \A i \in active : Settling(i) \/ Failed(i)

CancellationInv ==
    /\ RevokedNotSettling
    /\ CompletedWhileSettling
    /\ RevokedNeverSucceeds

\* A fold completes an invocation other than by its settlement as a failure.
LEMMA FoldFails ==
    ASSUME KernelInvariant, Fold, NEW i \in Invocations, ~Settling(i), Failed(i)
    PROVE  Failed(i)'
<1> USE DEF KernelInvariant
<1>1. i.source \in Sources /\ i = [source |-> i.source, token |-> i.token]
  BY InvocationType
<1>2. Completes(i.source)
  BY <1>1, FoldAdvances DEF Advances
<1>3. CASE EndsCurrent(i.source) /\ runs[i.source].requested = i.token
  <2>1. Ends(mutation, i) /\ mutation.kind # "settle"
    BY <1>1, <1>3 DEF EndsCurrent, Ends, Settling
  <2>2. OutcomeOf(mutation) = "failure"
    BY <2>1 DEF OutcomeOf
  <2> QED
    BY <1>2, <1>3, <2>2 DEF Completes, Failed
<1>4. CASE ~(EndsCurrent(i.source) /\ runs[i.source].requested = i.token)
  BY <1>2, <1>4 DEF Completes, Failed
<1> QED
  BY <1>3, <1>4

\* Every step keeps what a cancelled invocation may still become.
LEMMA CancellationStep ==
    ASSUME KernelInvariant, CancellationInv, [Next]_vars
    PROVE  CancellationInv'
<1> USE DEF KernelInvariant, CancellationInv
<1>0. /\ active \subseteq Invocations /\ revoked \subseteq aborted
      /\ aborted \subseteq Invocations
  BY DEF KernelTypeOK
<1>1. CASE UNCHANGED vars \/ Request \/ (\E i \in Invocations, outcome \in Outcomes : Emit(i, outcome))
  <2>1. UNCHANGED <<runs, active, mutation, revoked>>
    BY <1>1 DEF vars, Request, Emit, store, registry, work
  <2> QED
    BY <2>1 DEF RevokedNotSettling, CompletedWhileSettling, Failed, Settling,
       RevokedNeverSucceeds
<1>2. ASSUME NEW i \in active, Cancel(i) PROVE CancellationInv'
  <2>1. /\ UNCHANGED <<runs, mutation>> /\ active' = active \ {i}
        /\ revoked' = IF Settling(i) THEN revoked ELSE revoked \cup {i}
    BY <1>2 DEF Cancel, store, work
  <2>2. RevokedNotSettling' /\ CompletedWhileSettling'
    BY <2>1 DEF RevokedNotSettling, CompletedWhileSettling, Failed, Settling
  <2>3. RevokedNeverSucceeds'
    BY <2>1 DEF RevokedNeverSucceeds, CompletedWhileSettling, Failed
  <2> QED
    BY <2>2, <2>3
<1>3. CASE Begin
  <2>1. UNCHANGED <<runs, active, aborted, revoked>> /\ mutation = NoMutation
    BY <1>3 DEF Begin, store, registry, IdleIsEmpty
  <2>2. \A i : ~Settling(i)
    BY <2>1 DEF Settling, NoMutation
  <2>3. \A i \in aborted : ~Settling(i)'
    BY <1>3, <2>2 DEF Begin, Admitted, Settling, work
  <2>4. CompletedWhileSettling'
    BY <2>1, <2>2 DEF CompletedWhileSettling, Failed
  <2> QED
    BY <1>0, <2>1, <2>3, <2>4 DEF RevokedNotSettling, RevokedNeverSucceeds
<1>4. CASE Fold
  <2>1. UNCHANGED <<active, revoked, mutation>>
    BY <1>4 DEF Fold, registry
  <2>2. RevokedNotSettling'
    BY <2>1 DEF RevokedNotSettling, Settling
  <2>3. ASSUME NEW i \in active' PROVE Settling(i)' \/ Failed(i)'
    BY <1>0, <1>4, <2>1, FoldFails DEF CompletedWhileSettling, Settling
  <2>4. ASSUME NEW i \in revoked' PROVE Failed(i)'
    BY <1>0, <1>4, <2>1, FoldFails DEF RevokedNotSettling, RevokedNeverSucceeds, Failed
  <2> QED
    BY <2>2, <2>3, <2>4 DEF CompletedWhileSettling, RevokedNeverSucceeds, Failed
<1>5. CASE Commit \/ Throw
  <2>1. /\ UNCHANGED <<runs, revoked>> /\ mutation' = NoMutation
        /\ active' \subseteq Remaining \cup fired
    BY <1>5 DEF Commit, Throw, StartFired, Idle, store
  <2>2. \A i : ~Settling(i)'
    BY <2>1 DEF Settling, NoMutation
  <2>3. \A i \in Remaining : i \in active /\ ~Settling(i)
    BY DEF Remaining, Settling
  <2>4. CompletedWhileSettling'
    BY <2>1, <2>3 DEF CompletedWhileSettling, Failed, FiredInFlight
  <2> QED
    BY <2>1, <2>2, <2>4 DEF RevokedNotSettling, RevokedNeverSucceeds
<1> QED
  BY <1>1, <1>2, <1>3, <1>4, <1>5 DEF Next

(***************************************************************************)
(* Cancellation revokes a terminal settlement waiting behind another       *)
(* mutation: the cancelled invocation is recorded as a failure or not at   *)
(* all, whatever is folded before its cancellation runs.                   *)
(***************************************************************************)
THEOREM CancelledStaysCancelled == Spec => []RevokedNeverSucceeds
<1>1. Init => CancellationInv
  BY DEF Init, CancellationInv, RevokedNotSettling, CompletedWhileSettling,
         RevokedNeverSucceeds
<1>2. KernelInvariant /\ CancellationInv /\ [Next]_vars => CancellationInv'
  BY CancellationStep
<1>3. CancellationInv => RevokedNeverSucceeds
  BY DEF CancellationInv
<1> QED
  BY <1>1, <1>2, <1>3, InvariantHolds, PTL DEF Spec
===============================================================================
