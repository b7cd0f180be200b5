------------------------------ MODULE MCWebApp ------------------------------
(* WebApp with two browsers, for TLC. *)
EXTENDS WebApp, TLC

\* Both logins use the same registered redirect URI.
SameRedirect == [l \in Logins |-> "callback"]

BrowserSymmetry == Permutations(Browsers)
=============================================================================
