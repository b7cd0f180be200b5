---------------------------- MODULE MCShareLinks ----------------------------
(* ShareLinks with two calls at a time, for TLC. *)
EXTENDS ShareLinks, TLC

CallSymmetry == Permutations(Calls)
=============================================================================
