--------------------------- MODULE AuthorizeMany ---------------------------
(***************************************************************************)
(* AuthorizeMany of authz.go: one goroutine per question, a semaphore of   *)
(* maxInFlight slots around each call, answers and errors stored at the    *)
(* question's own index, and a wait for all of them.                       *)
(***************************************************************************)
EXTENDS Naturals, FiniteSets

CONSTANTS
  Asks,          \* indexes of the questions
  MaxInFlight,   \* maxInFlight
  Truth          \* what Anubis answers to each of them

Answers == {"allow", "deny", "step_up"}

ASSUME SlotsAssumption == MaxInFlight \in Nat \ {0} /\ IsFiniteSet(Asks)
ASSUME TruthAssumption == Truth \in [Asks -> Answers]

VARIABLES
  ask,        \* question -> where its goroutine is
  out,        \* question -> the decision stored at its index
  errs,       \* questions with an error stored at their index
  returned    \* the call has returned

manyVars == <<ask, out, errs, returned>>

ManyTypeOK ==
  /\ ask \in [Asks -> {"absent", "spawned", "asking", "done"}]
  /\ out \in [Asks -> Answers \cup {"zero"}]
  /\ errs \subseteq Asks
  /\ returned \in BOOLEAN

ManyInit(place) ==
  /\ ask = [i \in Asks |-> place]
  /\ out = [i \in Asks |-> "zero"]
  /\ errs = {}
  /\ returned = FALSE

InFlight == {i \in Asks : ask[i] = "asking"}

\* sem <- struct{}{}
AcquireSlot(i) ==
  /\ ask[i] = "spawned" /\ Cardinality(InFlight) < MaxInFlight
  /\ ask' = [ask EXCEPT ![i] = "asking"]
  /\ UNCHANGED <<out, errs, returned>>

\* Mutant: every goroutine stores at the last index.
StoreAtLast(i) ==
  /\ ask[i] = "asking"
  /\ out' = [out EXCEPT ![CHOOSE j \in Asks : \A k \in Asks : k <= j] = Truth[i]]
  /\ ask' = [ask EXCEPT ![i] = "done"]
  /\ UNCHANGED <<errs, returned>>

\* Mutant: the slot is kept when the call fails.
KeepSlotOnError(i) ==
  /\ ask[i] = "asking" /\ i \notin errs
  /\ \/ out' = [out EXCEPT ![i] = Truth[i]] /\ UNCHANGED errs /\ ask' = [ask EXCEPT ![i] = "done"]
     \/ errs' = errs \cup {i} /\ UNCHANGED <<out, ask>>
  /\ UNCHANGED returned

\* authorize returns and the deferred receive frees the slot, answer or error.
StoreAnswer(i) ==
  /\ ask[i] = "asking"
  /\ \/ out' = [out EXCEPT ![i] = Truth[i]] /\ UNCHANGED errs
     \/ errs' = errs \cup {i} /\ UNCHANGED out
  /\ ask' = [ask EXCEPT ![i] = "done"]
  /\ UNCHANGED returned

\* wg.Wait, then the decisions with the joined errors.
ManyReturn ==
  /\ ~returned /\ \A i \in Asks : ask[i] = "done"
  /\ returned' = TRUE
  /\ UNCHANGED <<ask, out, errs>>

ManyNext ==
  \/ \E i \in Asks : AcquireSlot(i) \/ StoreAnswer(i)
  \/ ManyReturn

-----------------------------------------------------------------------------
\* authz.go:284-301: when the call returns every question was asked, each
\* decision lies at its own index, and a question without one has an error;
\* meanwhile at most maxInFlight were under way.
ManyAnswersInPlace ==
  /\ Cardinality(InFlight) <= MaxInFlight
  /\ \A i \in Asks : out[i] \in {"zero", Truth[i]}
  /\ returned => \A i \in Asks : out[i] = Truth[i] \/ i \in errs

\* authz.go:289-300: the call returns however many questions compete for the
\* slots and whichever of them fail.
ManyReturns == (\E i \in Asks : ask[i] # "absent") ~> returned
=============================================================================
