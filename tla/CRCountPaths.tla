---------------------------- MODULE CRCountPaths ----------------------------
(***************************************************************************)
(* The two update paths of current_certificate_request_count together.    *)
(*                                                                         *)
(* Incremental path (src/unnamed/part_002, 282-290): the controller, on    *)
(* observing the creation or deletion of a CertificateRequest, calls       *)
(* IncrementCurrentCertificateRequest or DecrementCurrentCertificateRequest *)
(* on m.certificateRequestCount, the GaugeVec that NewServer registers in  *)
(* m.registry and that the metrics server exposes.  WithLabelValues        *)
(* creates the child on first use; Dec never removes it.                   *)
(*                                                                         *)
(* Recount path (src/unnamed/part_001, 124-154): every event also runs     *)
(* HandleCertificateRequestEvent, which lists the requests and rebuilds    *)
(* the package-level currentCertificateRequestCount, a CounterVec that     *)
(* promauto registers in the default registry.  CRRecount has its steps;   *)
(* here it is one atomic step, the most favourable reading of the code.   *)
(*                                                                         *)
(* Observations reach the controller in order but may be lost or          *)
(* delivered twice (spec 4.3); the process may restart, losing every      *)
(* in-memory value, after which the informer's initial list delivers one  *)
(* add per existing request.                                               *)
(***************************************************************************)
EXTENDS Integers, Sequences, SequencesExt, FiniteSets

CONSTANTS
    Keys,         \* label tuples of CertificateRequests
    MaxChanges,   \* bound on create/update/delete operations on the API
    MaxRestarts,  \* bound on process restarts
    MaxLost,      \* bound on observations that never reach the controller
    MaxDup        \* bound on observations delivered twice

ASSUME PathsAssumption ==
    /\ IsFiniteSet(Keys)
    /\ {MaxChanges, MaxRestarts, MaxLost, MaxDup} \subseteq Nat

VARIABLES
    live,       \* the CertificateRequests stored in the API server
    changes,    \* API changes so far
    pending,    \* observations not yet handled by the controller, in order
    gauge,      \* children of m.certificateRequestCount: DOMAIN = children
    handlers,   \* HandleCertificateRequestEvent calls not yet run
    vec,        \* children of the package-level currentCertificateRequestCount
    recounted,  \* vec was rebuilt from a list of the current live set
    clean,      \* no observation lost or duplicated since the process started
    restarts, lost, dups

vars == <<live, changes, pending, gauge, handlers, vec, recounted, clean,
          restarts, lost, dups>>

Observation == [op : {"add", "delete"}, k : Keys]

\* The value a scrape shows for tuple k; an absent child shows nothing (0).
Value(g, k) == IF k \in DOMAIN g THEN g[k] ELSE 0

\* One per live request and 0 elsewhere: what the metric should expose.
Indicator(S) == [k \in Keys |-> IF k \in S THEN 1 ELSE 0]

\* Every observation moves a child by at most one, and each start lists at
\* most one observation per tuple.
GaugeBound == MaxChanges + (MaxRestarts + 1) * Cardinality(Keys) + MaxDup

\* Type invariant: every variable holds a value of its intended kind.
TypeOK ==
    /\ live \subseteq Keys
    /\ changes \in 0..MaxChanges
    /\ pending \in Seq(Observation)
    /\ DOMAIN gauge \subseteq Keys
    /\ \A k \in DOMAIN gauge : gauge[k] \in -GaugeBound..GaugeBound
    /\ handlers \in Nat
    /\ vec \in [Keys -> Nat]
    /\ recounted \in BOOLEAN /\ clean \in BOOLEAN
    /\ restarts \in 0..MaxRestarts /\ lost \in 0..MaxLost /\ dups \in 0..MaxDup

\* The informer's initial list delivers one add observation per existing
\* request, each also running HandleCertificateRequestEvent.
InitialList(S) ==
    LET order == SetToSeq(S) IN [i \in DOMAIN order |-> [op |-> "add", k |-> order[i]]]

\* A process start: New builds both vectors with no children.
Init ==
    /\ live \in SUBSET Keys
    /\ changes = 0
    /\ pending = InitialList(live)
    /\ gauge = [k \in {} |-> 0]
    /\ handlers = Cardinality(live)
    /\ vec = Indicator({})
    /\ recounted = FALSE
    /\ clean = TRUE
    /\ restarts = 0 /\ lost = 0 /\ dups = 0

-----------------------------------------------------------------------------
(* The API server (external collaborator): every change is observed by     *)
(* the controller and triggers one HandleCertificateRequestEvent.          *)

Change(op, k, S) ==
    /\ changes < MaxChanges
    /\ live' = S
    /\ changes' = changes + 1
    /\ pending' = IF op = "update" THEN pending
                  ELSE Append(pending, [op |-> op, k |-> k])
    /\ handlers' = handlers + 1
    /\ recounted' = FALSE
    /\ UNCHANGED <<gauge, vec, clean, restarts, lost, dups>>

CreateCR(k) == k \notin live /\ Change("add", k, live \cup {k})
UpdateCR(k) == k \in live /\ Change("update", k, live)
DeleteCR(k) == k \in live /\ Change("delete", k, live \ {k})

-----------------------------------------------------------------------------
(* The incremental path.                                                   *)

\* With(labels).Inc() / .Dec(): the child is created at 0 if absent.
AddToChild(g, k, d) == [j \in DOMAIN g \cup {k} |-> IF j = k THEN Value(g, k) + d ELSE g[j]]

IncrementCurrentCertificateRequest(k) == gauge' = AddToChild(gauge, k, 1)

\* Mutant: Inc() where Dec() is meant.
DecrementInc(k) == gauge' = AddToChild(gauge, k, 1)

DecrementCurrentCertificateRequest(k) == gauge' = AddToChild(gauge, k, -1)

Apply(o) ==
    IF o.op = "add" THEN IncrementCurrentCertificateRequest(o.k)
    ELSE DecrementCurrentCertificateRequest(o.k)

\* Mutant: the observation is handled but stays at the head of the queue.
ObserveNoDequeue ==
    /\ pending # <<>>
    /\ Apply(Head(pending))
    /\ UNCHANGED <<live, changes, pending, handlers, vec, recounted, clean, restarts, lost, dups>>

\* The controller handles the oldest observation.
Observe ==
    /\ pending # <<>>
    /\ Apply(Head(pending))
    /\ pending' = Tail(pending)
    /\ UNCHANGED <<live, changes, handlers, vec, recounted, clean, restarts, lost, dups>>

\* An observation never reaches the controller.
LoseObservation ==
    /\ pending # <<>> /\ lost < MaxLost
    /\ pending' = Tail(pending)
    /\ lost' = lost + 1
    /\ clean' = FALSE
    /\ UNCHANGED <<live, changes, gauge, handlers, vec, recounted, restarts, dups>>

\* An observation is delivered twice.
DuplicateObservation ==
    /\ pending # <<>> /\ dups < MaxDup
    /\ pending' = <<Head(pending)>> \o pending
    /\ dups' = dups + 1
    /\ clean' = FALSE
    /\ UNCHANGED <<live, changes, gauge, handlers, vec, recounted, restarts, lost>>

-----------------------------------------------------------------------------
(* The recount path, HandleCertificateRequestEvent in one step: the list  *)
(* succeeds and currentCertificateRequestCount is reset and refilled, or   *)
(* the list fails and the handler returns.                                 *)

HandleCertificateRequestEvent ==
    /\ handlers > 0
    /\ handlers' = handlers - 1
    /\ \/ vec' = Indicator(live) /\ recounted' = TRUE
       \/ UNCHANGED <<vec, recounted>>
    /\ UNCHANGED <<live, changes, pending, gauge, clean, restarts, lost, dups>>

-----------------------------------------------------------------------------
\* The process restarts: both vectors and every queued call are lost; the
\* informer lists again.
Restart ==
    /\ restarts < MaxRestarts
    /\ restarts' = restarts + 1
    /\ pending' = InitialList(live)
    /\ gauge' = [k \in {} |-> 0]
    /\ handlers' = Cardinality(live)
    /\ vec' = Indicator({})
    /\ recounted' = FALSE
    /\ clean' = TRUE
    /\ UNCHANGED <<live, changes, lost, dups>>

Next ==
    \/ \E k \in Keys : CreateCR(k) \/ UpdateCR(k) \/ DeleteCR(k)
    \/ Observe \/ LoseObservation \/ DuplicateObservation
    \/ HandleCertificateRequestEvent
    \/ Restart

Spec == Init /\ [][Next]_vars

-----------------------------------------------------------------------------
(* Properties.                                                             *)

(***************************************************************************)
(* Spec 8: the exposed value per tuple is increments minus decrements.     *)
(* Once the controller has caught up, and no observation was lost or      *)
(* duplicated since the process started, that is one for a live request  *)
(* and zero for a deleted one: a restart, with the informer's initial     *)
(* list, repairs what lost and duplicated observations did before it.     *)
(***************************************************************************)
IncrementalSettled ==
    pending = <<>> /\ clean => \A k \in Keys : Value(gauge, k) = Indicator(live)[k]

(***************************************************************************)
(* The help text of the gauge: "The current number of certificate         *)
(* requests" is never negative.  A delete observed without its create     *)
(* drives the child to -1.                                                  *)
(***************************************************************************)
GaugeNonNegative == \A k \in DOMAIN gauge : gauge[k] >= 0

(***************************************************************************)
(* Spec 8, recompute wins: once a recount has listed the current set of    *)
(* requests and the controller has caught up, the exposed metric shows    *)
(* one per live request and nothing else, whatever lost or duplicated     *)
(* observations did to the incremental path before.                       *)
(***************************************************************************)
RecomputeWins ==
    recounted /\ pending = <<>> => \A k \in Keys : Value(gauge, k) = Indicator(live)[k]

-----------------------------------------------------------------------------
(***************************************************************************)
(* The strengthenings used in the proofs.  QueueBound: the observations   *)
(* pending, plus the moves of any child, are at most those queued since   *)
(* the start (one per change, per duplicate, per tuple listed at a start).*)
(***************************************************************************)
Queued == changes + dups + (restarts + 1) * Cardinality(Keys)

QueueBound ==
    /\ Len(pending) <= Queued
    /\ \A k \in DOMAIN gauge : /\ gauge[k] + Len(pending) <= Queued
                               /\ Len(pending) - gauge[k] <= Queued

\* The positions of sequence p holding an observation of tuple k.
Positions(p, k) == {i \in 1..Len(p) : p[i].k = k}

(***************************************************************************)
(* The observations of tuple k in p alternate add and delete: the oldest  *)
(* one says what the child shows now, v (0 before an add, 1 before a      *)
(* delete), the newest one whether the request is live, b; with none      *)
(* pending the child already shows b.                                     *)
(***************************************************************************)
Alternating(p, k, v, b) ==
    LET P == Positions(p, k) IN
    /\ P = {} => v = IF b THEN 1 ELSE 0
    /\ \A i \in P : (\A j \in P : i <= j) => v = IF p[i].op = "add" THEN 0 ELSE 1
    /\ \A i \in P : (\A j \in P : j <= i) => (b <=> p[i].op = "add")
    /\ \A i, j \in P : i < j /\ (\A m \in P : m <= i \/ j <= m) => p[i].op # p[j].op

PathsInv ==
    /\ TypeOK /\ QueueBound
    /\ clean => \A k \in Keys : Alternating(pending, k, Value(gauge, k), k \in live)

=============================================================================
