----------------------- MODULE MC_CRRecountNoReset -------------------------
(* The non-resetting variant with the constants of MC_CRRecount.          *)
EXTENDS CRRecountNoReset

MC_Keys == {"k1", "k2"}
MC_MaxChanges == 4
=============================================================================
