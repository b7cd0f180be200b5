---------------------------- MODULE MCKeyCache ----------------------------
(* KeyCache with three documents, for TLC. *)
EXTENDS KeyCache, TLC

Entry(k, alg, decodes, before, after) ==
    [kid |-> k, alg |-> alg, decodes |-> decodes,
     notBefore |-> before, notAfter |-> after]

\* Before a rotation: k1, listed twice, trusted from instant 1.
Before == [issuer |-> "anubis",
           keys |-> <<Entry("k1", "Ed25519", TRUE, 0, 1),
                      Entry("k1", "Ed25519", TRUE, 1, 0)>>]
\* After it: k2, and k1 only under an algorithm that is not the pinned one.
After == [issuer |-> "",
          keys |-> <<Entry("k2", "Ed25519", TRUE, 0, 0),
                     Entry("k1", "RS256", TRUE, 0, 0)>>]
\* Another deployment's document.
Foreign == [issuer |-> "elsewhere",
            keys |-> <<Entry("k1", "Ed25519", TRUE, 0, 0)>>]

MCDocuments == {Before, After, Foreign}
GoodDocuments == {Before, After}

Symmetry == Permutations(Callers)
=============================================================================
