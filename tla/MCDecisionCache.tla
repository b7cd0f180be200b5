-------------------------- MODULE MCDecisionCache --------------------------
(* DecisionCache with two or three questions, for TLC. *)
EXTENDS DecisionCache, TLC

Scope(axis, value) == [text |-> <<axis, value>>, axis |-> 1]

\* axis=value as the tail of another scope's value, after a NUL.
Smuggled(axis, value) == [text |-> <<axis, value>>, axis |-> 0]

Question(permission, scopes, amr, authTime) ==
    [subject |-> "alice", permission |-> permission,
     scopes |-> scopes, amr |-> amr, authTime |-> authTime]

Permissions == {"app:invoice:read", "app:invoice:approve", "app:invoice:void"}

Customer == <<Scope("customer", "c1")>>
Pwd == <<"pwd">>
Otp == <<"otp">>

Malformed == {Question("", Customer, <<>>, 0), Question("invoice", Customer, <<>>, 0)}

\* Two questions that are written alike: branch b1 and customer c1, and the
\* branch whose name is "b1", a NUL and "customer=c1".
Ambiguous ==
    LET of(second) == Question("app:invoice:approve",
                               <<Scope("branch", "b1"), second>>, <<Pwd>>, 1)
    IN  {of(Scope("customer", "c1")), of(Smuggled("customer", "c1"))} \cup Malformed

\* More questions than a generation holds, one of them spelt in two ways.
Unrelated ==
    {Question("app:invoice:read", Customer, <<Pwd, Otp>>, 0),
     Question("app:invoice:read", Customer, <<Otp, Pwd>>, 0),
     Question("app:invoice:approve", Customer, <<Pwd>>, 0),
     Question("app:invoice:void", <<>>, <<>>, 0)} \cup Malformed

Symmetry == Permutations(Callers)
=============================================================================
