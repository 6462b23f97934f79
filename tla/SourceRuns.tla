------------------------------ MODULE SourceRuns -------------------------------
(***************************************************************************)
(* The run state of a cell's sources: which request a source is executing, *)
(* which one it completed last, and the latest one asked for.  Tokens are  *)
(* ISO timestamps in the code and naturals here, 0 for null.               *)
(***************************************************************************)
EXTENDS Naturals

Outcomes == {"success", "failure"}

RunStates == [requested : Nat, completed : Nat, queue : Nat,
              status : Outcomes \cup {"none"}]

InitialRun == [requested |-> 0, completed |-> 0, queue |-> 0, status |-> "none"]

IsInFlight(run) == run.requested # 0 /\ run.requested # run.completed

HasPending(run) == run.queue # 0 /\ run.queue # run.requested

NextToken(previous, now) == IF now > previous THEN now ELSE previous + 1

-------------------------------------------------------------------------------
\* Mutant: the request that was pending first is promoted.
PromoteOldest(run) == [run EXCEPT !.requested = run.requested + 1]

\* The newest request becomes the one that executes.
Promote(run) == [run EXCEPT !.requested = run.queue]

\* Mutant: a request is admitted although one is in flight.
AdmitAtOnce(run, now) ==
    Promote([run EXCEPT !.queue = NextToken(run.queue, now)])

\* A request of a source in flight is only remembered.
Admit(run, now) ==
    LET token == NextToken(run.queue, now)
        queued == [run EXCEPT !.queue = token]
    IN  IF IsInFlight(run) THEN queued ELSE Promote(queued)

\* Only the request that is executing can complete.
Complete(run, token, outcome) ==
    IF run.requested = token
    THEN [requested |-> run.requested, completed |-> token,
          queue |-> run.queue, status |-> outcome]
    ELSE run

(***************************************************************************)
(* completeAndPromoteSourceEffect for a request of source s, in a cell     *)
(* whose evaluation then emits the effects of "emitting": s goes on with   *)
(* its pending request or is left alone, its siblings are admitted.        *)
(***************************************************************************)
CompleteAndPromote(runs, s, token, outcome, emitting, now) ==
    LET completed == Complete(runs[s], token, outcome)
        promotes == runs[s].requested = token /\ HasPending(completed)
    IN  [q \in DOMAIN runs |->
            IF q = s THEN IF promotes /\ s \in emitting THEN Promote(completed)
                          ELSE completed
            ELSE IF q \in emitting THEN Admit(runs[q], now) ELSE runs[q]]

\* The effects a change of the run states fires.
Fired(before, after) ==
    {[source |-> q, token |-> after[q].requested] :
        q \in {r \in DOMAIN before : after[r].requested # before[r].requested}}
===============================================================================
