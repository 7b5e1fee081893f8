--------------------------- MODULE MC_CRCountPaths ---------------------------
(* Model-checking instance of CRCountPaths: two label tuples, three API    *)
(* changes, one restart, one lost and one duplicated observation.         *)
EXTENDS CRCountPaths

MC_Keys == {"k1", "k2"}
=============================================================================
