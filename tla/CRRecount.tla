----------------------------- MODULE CRRecount -----------------------------
(***************************************************************************)
(* The full-recomputation path of the current_certificate_request_count   *)
(* metric: HandleCertificateRequestEvent and UpdateCurrentCertificate-     *)
(* RequestCount, in the reset-then-repopulate variant of                   *)
(* src/unnamed/part_001 (lines 124-154).                                   *)
(*                                                                         *)
(* Every create, update or delete of a CertificateRequest delivers one     *)
(* event to a handler worker.  The handler lists all CertificateRequests   *)
(* (getCurrentCertificateRequests); on a list error it logs and returns;   *)
(* otherwise it calls currentCertificateRequestCount.Reset() and then      *)
(* With(labels).Inc() once per listed request.  Reset and each Inc are     *)
(* separately atomic inside the Prometheus vector, so they are separate    *)
(* steps here and other workers and scrapes may run between them.          *)
(*                                                                         *)
(* A CertificateRequest is identified by its label tuple (name, namespace, *)
(* issuer name/kind/group): Keys is the set of such tuples.  A vector      *)
(* child is only ever created by With(..).Inc(), so a child that exists    *)
(* has a value >= 1 and vec[k] = 0 stands for "no child for k".            *)
(***************************************************************************)
EXTENDS Naturals, FiniteSets

CONSTANTS
    Keys,        \* label tuples of CertificateRequests
    Handlers,    \* workers that run HandleCertificateRequestEvent
    MaxChanges   \* bound on create/update/delete operations on the API

ASSUME KeysAssumption == IsFiniteSet(Keys)
ASSUME HandlersAssumption == Handlers # {}
ASSUME MaxChangesAssumption == MaxChanges \in Nat

VARIABLES
    live,     \* the CertificateRequests stored in the API server
    changes,  \* number of API changes so far (bounded by MaxChanges)
    queued,   \* events delivered by the event source and not yet handled
    pc,       \* pc[h]: where worker h is in the handler
    crs,      \* crs[h]: the list returned to worker h (the slice crs)
    todo,     \* todo[h]: the part of crs[h] the range loop has not reached
    vec,      \* vec[k]: value of the currentCertificateRequestCount child k
    lastOk    \* the most recently finished handler call listed successfully

vars == <<live, changes, queued, pc, crs, todo, vec, lastOk>>

\* The value the vector has when it holds one child per request in S.
Indicator(S) == [k \in Keys |-> IF k \in S THEN 1 ELSE 0]

\* promauto.NewCounterVec with no children yet.
EmptyVec == [k \in Keys |-> 0]

\* Type invariant: every variable holds a value of its intended kind.
TypeOK ==
    /\ live \subseteq Keys
    /\ changes \in 0..MaxChanges
    /\ queued \in Nat
    /\ pc \in [Handlers -> {"idle", "reset", "inc"}]
    /\ crs \in [Handlers -> SUBSET Keys]
    /\ todo \in [Handlers -> SUBSET Keys]
    /\ vec \in [Keys -> Nat]
    /\ lastOk \in BOOLEAN

(***************************************************************************)
(* The process starts with an empty vector while CertificateRequests may   *)
(* already exist; the informer's initial list delivers one add event per   *)
(* existing object.                                                        *)
(***************************************************************************)
Init ==
    /\ live \in SUBSET Keys
    /\ changes = 0
    /\ queued = Cardinality(live)
    /\ pc = [h \in Handlers |-> "idle"]
    /\ crs = [h \in Handlers |-> {}]
    /\ todo = [h \in Handlers |-> {}]
    /\ vec = EmptyVec
    /\ lastOk = TRUE

-----------------------------------------------------------------------------
(* The API server and the event source (external collaborators).         *)

\* A CertificateRequest with labels k is created; an add event is queued.
CreateCR(k) ==
    /\ changes < MaxChanges
    /\ k \notin live
    /\ live' = live \cup {k}
    /\ changes' = changes + 1
    /\ queued' = queued + 1
    /\ UNCHANGED <<pc, crs, todo, vec, lastOk>>

\* An existing CertificateRequest is updated; an update event is queued.
UpdateCR(k) ==
    /\ changes < MaxChanges
    /\ k \in live
    /\ changes' = changes + 1
    /\ queued' = queued + 1
    /\ UNCHANGED <<live, pc, crs, todo, vec, lastOk>>

\* A CertificateRequest is deleted; a delete event is queued.
DeleteCR(k) ==
    /\ changes < MaxChanges
    /\ k \in live
    /\ live' = live \ {k}
    /\ changes' = changes + 1
    /\ queued' = queued + 1
    /\ UNCHANGED <<pc, crs, todo, vec, lastOk>>

-----------------------------------------------------------------------------
(* HandleCertificateRequestEvent, one step per atomic operation.           *)

\* Mutant: the event is never consumed, so the handler runs again and again.
ListNoDequeue(h) ==
    /\ pc[h] = "idle"
    /\ queued > 0
    /\ crs' = [crs EXCEPT ![h] = live]
    /\ pc' = [pc EXCEPT ![h] = "reset"]
    /\ UNCHANGED <<live, changes, queued, todo, vec, lastOk>>

\* Worker h takes an event and getCurrentCertificateRequests succeeds.
ListCertificateRequests(h) ==
    /\ pc[h] = "idle"
    /\ queued > 0
    /\ queued' = queued - 1
    /\ crs' = [crs EXCEPT ![h] = live]
    /\ pc' = [pc EXCEPT ![h] = "reset"]
    /\ UNCHANGED <<live, changes, todo, vec, lastOk>>

\* Mutant: no return after logging the error; the nil list is counted.
ListFailedNoReturn(h) ==
    /\ pc[h] = "idle"
    /\ queued > 0
    /\ queued' = queued - 1
    /\ crs' = [crs EXCEPT ![h] = {}]
    /\ pc' = [pc EXCEPT ![h] = "reset"]
    /\ UNCHANGED <<live, changes, todo, vec, lastOk>>

\* Mutant: Reset() moved ahead of the list, so a failed list empties the vector.
ListFailedAfterReset(h) ==
    /\ pc[h] = "idle"
    /\ queued > 0
    /\ queued' = queued - 1
    /\ lastOk' = FALSE
    /\ vec' = EmptyVec
    /\ UNCHANGED <<live, changes, pc, crs, todo>>

\* Worker h takes an event, the list fails: log the error and return.
ListFailed(h) ==
    /\ pc[h] = "idle"
    /\ queued > 0
    /\ queued' = queued - 1
    /\ lastOk' = FALSE
    /\ UNCHANGED <<live, changes, pc, crs, todo, vec>>

\* Mutant: Reset is not called (the older variant of the function).
ResetCountSkipped(h) ==
    /\ pc[h] = "reset"
    /\ todo' = [todo EXCEPT ![h] = crs[h]]
    /\ pc' = [pc EXCEPT ![h] = "inc"]
    /\ UNCHANGED <<live, changes, queued, crs, vec, lastOk>>

\* currentCertificateRequestCount.Reset(): every child is removed.
ResetCount(h) ==
    /\ pc[h] = "reset"
    /\ vec' = EmptyVec
    /\ todo' = [todo EXCEPT ![h] = crs[h]]
    /\ pc' = [pc EXCEPT ![h] = "inc"]
    /\ UNCHANGED <<live, changes, queued, crs, lastOk>>

\* Mutant: Dec() where Inc() is meant.
IncCountDec(h, k) ==
    /\ pc[h] = "inc"
    /\ k \in todo[h]
    /\ vec' = [vec EXCEPT ![k] = @ - 1]
    /\ todo' = [todo EXCEPT ![h] = @ \ {k}]
    /\ UNCHANGED <<live, changes, queued, pc, crs, lastOk>>

\* One iteration of the range loop: With(labels).Inc() for request k.
IncCount(h, k) ==
    /\ pc[h] = "inc"
    /\ k \in todo[h]
    /\ vec' = [vec EXCEPT ![k] = @ + 1]
    /\ todo' = [todo EXCEPT ![h] = @ \ {k}]
    /\ UNCHANGED <<live, changes, queued, pc, crs, lastOk>>

\* The range loop is exhausted and the handler returns.
UpdateDone(h) ==
    /\ pc[h] = "inc"
    /\ todo[h] = {}
    /\ pc' = [pc EXCEPT ![h] = "idle"]
    /\ lastOk' = TRUE
    /\ UNCHANGED <<live, changes, queued, crs, todo, vec>>

Handle(h) ==
    \/ ListCertificateRequests(h)
    \/ ListFailed(h)
    \/ ResetCount(h)
    \/ \E k \in Keys : IncCount(h, k)
    \/ UpdateDone(h)

Environment ==
    \E k \in Keys : CreateCR(k) \/ UpdateCR(k) \/ DeleteCR(k)

Next == Environment \/ \E h \in Handlers : Handle(h)

(***************************************************************************)
(* Informers deliver every event and a handler worker, once it has work,   *)
(* keeps running: weak fairness per worker.  No fairness on the outcome of *)
(* the list: an error is as possible on every call.                        *)
(***************************************************************************)
Spec == Init /\ [][Next]_vars /\ \A h \in Handlers : WF_vars(Handle(h))

-----------------------------------------------------------------------------
(* Properties.                                                             *)

(***************************************************************************)
(* No CertificateRequest is counted twice: every child of the vector is 0  *)
(* or 1.  Broken when Reset is missing (the older variant that only        *)
(* increments) or when two recomputations interleave their Reset and Inc   *)
(* steps.                                                                  *)
(***************************************************************************)
NoDoubleCount == \A k \in Keys : vec[k] <= 1

(***************************************************************************)
(* Once every event has been handled and no handler is running, the      *)
(* vector counts exactly the list of the last successful handler call:   *)
(* a failed list (logged, returned from, never retried) leaves it stale   *)
(* but whole, never emptied or half rewritten; and if the last call did   *)
(* list successfully, that list is the live set, so a recomputation never *)
(* leaves a stale tuple or misses a live one, whatever the order of API   *)
(* changes and handler steps.                                             *)
(***************************************************************************)
Quiescent == queued = 0 /\ \A h \in Handlers : pc[h] = "idle"

Settled ==
    Quiescent => \A h \in Handlers : /\ vec = Indicator(crs[h])
                                     /\ lastOk => crs[h] = live

(***************************************************************************)
(* The strengthening of Settled used in its proof, for one worker: an    *)
(* idle worker's last list is what the vector counts, inside the range    *)
(* loop the vector holds exactly the requests already counted, and a      *)
(* worker that listed with no event queued since holds the live set.      *)
(***************************************************************************)
HandlerInv(h) ==
    /\ pc[h] = "idle" => vec = Indicator(crs[h])
    /\ pc[h] = "inc" => /\ todo[h] \subseteq crs[h]
                        /\ vec = Indicator(crs[h] \ todo[h])
    /\ pc[h] # "idle" /\ queued = 0 => crs[h] = live

RecountInv == TypeOK /\ (\A h \in Handlers : HandlerInv(h)) /\ Settled

(***************************************************************************)
(* Eventually, for good, the vector agrees with the API server whenever    *)
(* the last handler call succeeded: the handler does drain the events.     *)
(***************************************************************************)
EventuallyConsistent == <>[](lastOk => vec = Indicator(live))

-----------------------------------------------------------------------------
(***************************************************************************)
(* Refinement of the atomic recomputation of CRCount.  A worker counts as  *)
(* still holding its event until its last write to the vector; the gauge   *)
(* a scrape reads is vec itself.                                           *)
(***************************************************************************)
Busy == {h \in Handlers : pc[h] = "reset" \/ (pc[h] = "inc" /\ todo[h] # {})}

Atomic == INSTANCE CRCount WITH gauge <- vec, queued <- queued + Cardinality(Busy)

(***************************************************************************)
(* Section 5 of the spec: a scrape concurrent with a recomputation sees    *)
(* the pre-reset vector or the fully repopulated one, never a mix.         *)
(***************************************************************************)
RecountAtomic == Atomic!Spec

=============================================================================
