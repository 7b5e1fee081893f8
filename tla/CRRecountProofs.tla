-------------------------- MODULE CRRecountProofs ---------------------------
(***************************************************************************)
(* Proofs about the reset-then-repopulate recomputation of CRRecount.      *)
(***************************************************************************)
EXTENDS CRRecount, FiniteSetTheorems, TLAPS

(***************************************************************************)
(* Type correctness: every step of the API server, the event source and   *)
(* the handler workers keeps the variables in their types.                 *)
(***************************************************************************)
\* Every step of Next, and every stutter, preserves TypeOK.
LEMMA TypeOKStep == TypeOK /\ [Next]_vars => TypeOK'
<1> SUFFICES ASSUME TypeOK, [Next]_vars PROVE TypeOK'
  OBVIOUS
<1>1. ASSUME NEW k \in Keys, CreateCR(k) PROVE TypeOK'
  BY <1>1, MaxChangesAssumption DEF CreateCR, TypeOK
<1>2. ASSUME NEW k \in Keys, UpdateCR(k) PROVE TypeOK'
  BY <1>2, MaxChangesAssumption DEF UpdateCR, TypeOK
<1>3. ASSUME NEW k \in Keys, DeleteCR(k) PROVE TypeOK'
  BY <1>3, MaxChangesAssumption DEF DeleteCR, TypeOK
<1>4. ASSUME NEW h \in Handlers, ListCertificateRequests(h) PROVE TypeOK'
  BY <1>4 DEF ListCertificateRequests, TypeOK
<1>5. ASSUME NEW h \in Handlers, ListFailed(h) PROVE TypeOK'
  <2>1. queued' \in Nat
    BY <1>5 DEF ListFailed, TypeOK
  <2>2. lastOk' \in BOOLEAN
    BY <1>5 DEF ListFailed
  <2>3. QED
    BY <1>5, <2>1, <2>2 DEF ListFailed, TypeOK
<1>6. ASSUME NEW h \in Handlers, ResetCount(h) PROVE TypeOK'
  BY <1>6 DEF ResetCount, TypeOK, EmptyVec
<1>7. ASSUME NEW h \in Handlers, NEW k \in Keys, IncCount(h, k) PROVE TypeOK'
  BY <1>7 DEF IncCount, TypeOK
<1>8. ASSUME NEW h \in Handlers, UpdateDone(h) PROVE TypeOK'
  BY <1>8 DEF UpdateDone, TypeOK
<1>9. CASE UNCHANGED vars
  BY <1>9 DEF vars, TypeOK
<1>10. QED
  BY <1>1, <1>2, <1>3, <1>4, <1>5, <1>6, <1>7, <1>8, <1>9
     DEF Next, Environment, Handle

\* The initial states, with the vector empty and one event per existing
\* CertificateRequest, satisfy TypeOK.
LEMMA InitTypeOK == Init => TypeOK
<1> SUFFICES ASSUME Init PROVE TypeOK
  OBVIOUS
<1>1. IsFiniteSet(live)
  BY KeysAssumption, FS_Subset DEF Init
<1>2. Cardinality(live) \in Nat
  BY <1>1, FS_CardinalityType
<1>3. QED
  BY <1>2, MaxChangesAssumption DEF Init, TypeOK, EmptyVec

(***************************************************************************)
(* Type correctness: every step of the API server, the event source and   *)
(* the handler workers keeps the variables in their types.                 *)
(***************************************************************************)
THEOREM TypeCorrect == Spec => []TypeOK
BY InitTypeOK, TypeOKStep, PTL DEF Spec

-----------------------------------------------------------------------------
\* With one worker, the initial states satisfy the strengthening RecountInv.
LEMMA RecountInvInit ==
  ASSUME NEW h0, Handlers = {h0}
  PROVE  Init => RecountInv
<1> SUFFICES ASSUME Init PROVE RecountInv
  OBVIOUS
<1>1. TypeOK
  BY InitTypeOK
<1>2. HandlerInv(h0)
  BY DEF Init, HandlerInv, Indicator, EmptyVec
<1>3. queued = 0 => live = {}
  BY KeysAssumption, FS_Subset, FS_EmptySet DEF Init
<1>4. Settled
  BY <1>3 DEF Init, Settled, Quiescent, Indicator, EmptyVec, TypeOK
<1>5. QED
  BY <1>1, <1>2, <1>4 DEF RecountInv

\* With one worker, every step and every stutter preserves RecountInv.
LEMMA RecountInvStep ==
  ASSUME NEW h0, Handlers = {h0}
  PROVE  RecountInv /\ [Next]_vars => RecountInv'
<1> SUFFICES ASSUME RecountInv, [Next]_vars PROVE RecountInv'
  OBVIOUS
<1> USE DEF RecountInv
<1>1. TypeOK'
  BY TypeOKStep
<1>2. SUFFICES HandlerInv(h0)' /\ Settled'
  BY <1>1
<1> QuiescentNow == Quiescent <=> queued = 0 /\ pc[h0] = "idle"
<1> HIDE DEF QuiescentNow
<1>3. QuiescentNow /\ QuiescentNow'
  BY DEF QuiescentNow, Quiescent
<1>4. HandlerInv(h0)
  OBVIOUS
<1>5. ASSUME NEW k \in Keys, CreateCR(k) \/ UpdateCR(k) \/ DeleteCR(k)
      PROVE  HandlerInv(h0)' /\ Settled'
  <2>1. queued' # 0 /\ UNCHANGED <<pc, crs, todo, vec>>
    BY <1>5 DEF CreateCR, UpdateCR, DeleteCR, TypeOK
  <2>2. QED
    BY <1>3, <1>4, <2>1 DEF HandlerInv, Settled, QuiescentNow
<1>6. CASE ListCertificateRequests(h0)
  BY <1>3, <1>6 DEF ListCertificateRequests, HandlerInv, Settled, QuiescentNow, TypeOK
<1>7. CASE ListFailed(h0)
  BY <1>3, <1>4, <1>7 DEF ListFailed, HandlerInv, Settled, QuiescentNow
<1>8. CASE ResetCount(h0)
  <2>1. Indicator(crs[h0] \ crs[h0]) = EmptyVec
    BY DEF Indicator, EmptyVec
  <2>2. QED
    BY <1>3, <1>4, <1>8, <2>1 DEF ResetCount, HandlerInv, Settled, QuiescentNow, TypeOK
<1>9. ASSUME NEW k \in Keys, IncCount(h0, k)
      PROVE  HandlerInv(h0)' /\ Settled'
  <2>1. k \in crs[h0] /\ k \in todo[h0]
    BY <1>4, <1>9 DEF IncCount, HandlerInv
  <2>2. vec = Indicator(crs[h0] \ todo[h0])
    BY <1>4, <1>9 DEF IncCount, HandlerInv
  <2>3. todo'[h0] = todo[h0] \ {k}
    BY <1>9 DEF IncCount, TypeOK
  <2>4. vec' = Indicator(crs[h0] \ todo'[h0])
    <3>1. vec' = [vec EXCEPT ![k] = vec[k] + 1]
      BY <1>9 DEF IncCount
    <3>2. vec[k] = 0
      BY <2>1, <2>2 DEF Indicator
    <3>3. \A j \in Keys : vec'[j] = Indicator(crs[h0] \ todo'[h0])[j]
      BY <2>1, <2>2, <2>3, <3>1, <3>2 DEF Indicator, TypeOK
    <3>4. QED
      BY <3>1, <3>3 DEF Indicator, TypeOK
  <2>5. QED
    BY <1>3, <1>4, <1>9, <2>4 DEF IncCount, HandlerInv, Settled, QuiescentNow, TypeOK
<1>10. CASE UpdateDone(h0)
  <2>1. vec = Indicator(crs[h0])
    BY <1>4, <1>10 DEF UpdateDone, HandlerInv
  <2>2. queued = 0 => crs[h0] = live
    BY <1>4, <1>10 DEF UpdateDone, HandlerInv
  <2>3. QED
    BY <1>3, <1>10, <2>1, <2>2 DEF UpdateDone, HandlerInv, Settled, QuiescentNow
<1>11. CASE UNCHANGED vars
  BY <1>4, <1>11 DEF vars, HandlerInv, Settled, Quiescent
<1>12. QED
  BY <1>5, <1>6, <1>7, <1>8, <1>9, <1>10, <1>11 DEF Next, Environment, Handle

(***************************************************************************)
(* Settled for every set of label tuples and every bound on API changes,  *)
(* when one worker runs HandleCertificateRequestEvent (client-go calls    *)
(* the handlers of one registration sequentially): once the events are    *)
(* drained, the vector counts exactly the last successful list, and that  *)
(* list is the live set if the last call succeeded.  The argument: an API *)
(* change always queues an event, so a list taken with no event queued    *)
(* since is the live set; inside the loop the vector holds exactly the    *)
(* part of that list already counted, since Reset emptied it; a failed    *)
(* list returns before Reset and touches neither the list nor the vector. *)
(***************************************************************************)
THEOREM SettledInvariant ==
  ASSUME NEW h0, Handlers = {h0}
  PROVE  Spec => []Settled
<1>1. RecountInv => Settled
  BY DEF RecountInv
<1>2. QED
  BY RecountInvInit, RecountInvStep, <1>1, PTL DEF Spec

-----------------------------------------------------------------------------
\* With one worker, every step preserves NoDoubleCount under RecountInv: a
\* Reset empties the vector and an Inc reaches only a tuple the current
\* loop has not counted yet, whose child RecountInv shows to be absent.
LEMMA NoDoubleCountStep ==
  ASSUME NEW h0, Handlers = {h0}
  PROVE  RecountInv /\ NoDoubleCount /\ [Next]_vars => NoDoubleCount'
<1> SUFFICES ASSUME RecountInv, NoDoubleCount, [Next]_vars PROVE NoDoubleCount'
  OBVIOUS
<1>1. CASE UNCHANGED vec
  BY <1>1 DEF NoDoubleCount
<1>2. CASE ResetCount(h0)
  BY <1>2 DEF ResetCount, NoDoubleCount, EmptyVec
<1>3. ASSUME NEW k \in Keys, IncCount(h0, k) PROVE NoDoubleCount'
  <2>1. vec[k] = 0
    BY <1>3 DEF IncCount, RecountInv, HandlerInv, Indicator
  <2>2. QED
    BY <1>3, <2>1 DEF IncCount, NoDoubleCount, RecountInv, TypeOK
<1>4. QED
  <2>1. ASSUME NEW k \in Keys, CreateCR(k) \/ UpdateCR(k) \/ DeleteCR(k)
        PROVE  UNCHANGED vec
    BY <2>1 DEF CreateCR, UpdateCR, DeleteCR
  <2>2. ListCertificateRequests(h0) \/ ListFailed(h0) \/ UpdateDone(h0) => UNCHANGED vec
    BY DEF ListCertificateRequests, ListFailed, UpdateDone
  <2>3. UNCHANGED vars => UNCHANGED vec
    BY DEF vars
  <2>4. QED
    BY <1>1, <1>2, <1>3, <2>1, <2>2, <2>3 DEF Next, Environment, Handle

(***************************************************************************)
(* NoDoubleCount for every set of label tuples and every bound on API     *)
(* changes, when one worker runs HandleCertificateRequestEvent: no        *)
(* CertificateRequest is ever counted twice by the recount vector.  It    *)
(* needs RecountInv: that the tuple an Inc reaches has no child yet is    *)
(* the fact that inside the loop the vector is exactly the part of the    *)
(* list already counted.                                                  *)
(***************************************************************************)
THEOREM NoDoubleCountInvariant ==
  ASSUME NEW h0, Handlers = {h0}
  PROVE  Spec => []NoDoubleCount
<1>1. Init => RecountInv /\ NoDoubleCount
  BY RecountInvInit DEF Init, NoDoubleCount, EmptyVec
<1>2. RecountInv /\ NoDoubleCount /\ [Next]_vars => (RecountInv /\ NoDoubleCount)'
  BY RecountInvStep, NoDoubleCountStep
<1>3. QED
  BY <1>1, <1>2, PTL DEF Spec

=============================================================================
