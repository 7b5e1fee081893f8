-------------------------- MODULE CRRecountNoReset --------------------------
(***************************************************************************)
(* The older variant of UpdateCurrentCertificateRequestCount in           *)
(* src/unnamed/part_001 (lines 55-97): the same handler, but the loop     *)
(* increments currentCertificateRequestCount without resetting it first.  *)
(* Everything else is the step structure of CRRecount.                     *)
(***************************************************************************)
EXTENDS CRRecount

\* The range loop starts on the vector as it is; there is no Reset call.
StartLoop(h) ==
    /\ pc[h] = "reset"
    /\ todo' = [todo EXCEPT ![h] = crs[h]]
    /\ pc' = [pc EXCEPT ![h] = "inc"]
    /\ UNCHANGED <<live, changes, queued, crs, vec, lastOk>>

HandleNoReset(h) ==
    \/ ListCertificateRequests(h)
    \/ ListFailed(h)
    \/ StartLoop(h)
    \/ \E k \in Keys : IncCount(h, k)
    \/ UpdateDone(h)

NextNoReset == Environment \/ \E h \in Handlers : HandleNoReset(h)

SpecNoReset ==
    Init /\ [][NextNoReset]_vars /\ \A h \in Handlers : WF_vars(HandleNoReset(h))
=============================================================================
