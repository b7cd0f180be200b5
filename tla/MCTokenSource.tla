---------------------------- MODULE MCTokenSource ----------------------------
(* TokenSource with small sets of goroutines, for TLC. *)
EXTENDS TokenSource, TLC

\* Goroutines are interchangeable; used by the runs that check safety only.
Symmetry == Permutations(Callers)
=============================================================================
