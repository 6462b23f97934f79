---------------------------- MODULE MCDurableHosts ----------------------------
(* Instances of DurableHosts for TLC. *)
EXTENDS DurableHosts

CONSTANTS w1, w2, save, log

\* "save" emits a service effect that settles, "log" one that does not.
MCEffectOf == [e \in Events |-> IF e = save THEN "settling" ELSE "plain"]
OneMillisecond == {1}
===============================================================================
