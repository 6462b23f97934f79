--------------------------- MODULE MCDurableRuntime ---------------------------
(* Instances of DurableRuntime for TLC. *)
EXTENDS DurableRuntime, TLC

CONSTANTS w1, w2, save, log

\* "save" emits a service effect that settles, "log" one that does not.
MCEffectOf == [e \in Events |-> IF e = save THEN "settling"
                                ELSE IF e = log THEN "plain" ELSE "none"]
OneMillisecond == {1}
WorkerSymmetry == Permutations(Workers)
===============================================================================
