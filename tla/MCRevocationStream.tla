------------------------- MODULE MCRevocationStream -------------------------
(* RevocationStream with two publishers, for TLC. *)
EXTENDS RevocationStream
=============================================================================
