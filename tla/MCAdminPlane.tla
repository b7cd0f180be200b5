---------------------------- MODULE MCAdminPlane ----------------------------
(* AdminPlane for TLC: the rows of the documents and what they refer to.   *)
EXTENDS AdminPlane

CONSTANTS p1, r1, r2, t1, t2

MCRefOf == r1 :> p1 @@ r2 :> FullKey
MCRequires == t1 :> p1 @@ t2 :> Absent
=============================================================================
