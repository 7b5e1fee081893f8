---------------------------- MODULE MC_CRRecount ----------------------------
(* Model-checking instance of CRRecount: two label tuples, one informer   *)
(* handler worker (client-go calls a registration's handlers one at a     *)
(* time), and up to four API changes after start-up.                      *)
EXTENDS CRRecount

MC_Keys == {"k1", "k2"}
MC_MaxChanges == 4
=============================================================================
