---------------------------- MODULE MCRequestPath ----------------------------
(* RequestPath with one job and three questions for two slots, for TLC. *)
EXTENDS RequestPath

Verdicts == [i \in Asks |-> CASE i = 1 -> "allow" [] i = 2 -> "deny" [] OTHER -> "step_up"]
=============================================================================
