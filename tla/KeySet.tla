------------------------------ MODULE KeySet ------------------------------
(***************************************************************************)
(* The published keys document and the immutable key set parsed from it    *)
(* (keys/key_set.go).  A document is [issuer, keys], keys a sequence of    *)
(* [kid, alg, decodes, notBefore, notAfter]; a set is a function from kids *)
(* to trust windows; 0 is an absent bound.                                 *)
(***************************************************************************)
EXTENDS Integers, Sequences

CONSTANTS
    Issuer,     \* the issuer the verifier is bound to, "" for none
    MaxKeys     \* maxKeys: how many keys a document may list

ASSUME MaxKeysAssumption == MaxKeys \in Nat

\* json.Unmarshal and the checks on the document as a whole, then on the keys
\* of the pinned algorithm: one that does not decode condemns the document.
Acceptable(doc) ==
    /\ Issuer = "" \/ doc.issuer \in {"", Issuer}
    /\ Len(doc.keys) <= MaxKeys
    /\ \A i \in DOMAIN doc.keys :
           doc.keys[i].alg = "Ed25519" => doc.keys[i].decodes

\* Keys of another algorithm are skipped; a kid listed twice keeps its last
\* entry.
ParseDocument(doc) ==
    LET pinned == {i \in DOMAIN doc.keys : doc.keys[i].alg = "Ed25519"}
        last(k) == CHOOSE i \in pinned :
                       /\ doc.keys[i].kid = k
                       /\ \A j \in pinned : doc.keys[j].kid = k => j <= i
    IN [k \in {doc.keys[i].kid : i \in pinned} |->
           [notBefore |-> doc.keys[last(k)].notBefore,
            notAfter  |-> doc.keys[last(k)].notAfter]]

\* Set.GetAt: the set holds kid and n falls inside its window.
Trusts(ks, kid, n) ==
    /\ kid \in DOMAIN ks
    /\ ks[kid].notBefore # 0 => n >= ks[kid].notBefore
    /\ ks[kid].notAfter # 0 => n < ks[kid].notAfter
=============================================================================
