------------------------- MODULE CRCountPathsProofs -------------------------
(***************************************************************************)
(* Proofs about the incremental gauge of CRCountPaths, with lost and       *)
(* duplicated observations and restarts.                                   *)
(***************************************************************************)
EXTENDS CRCountPaths, FiniteSetTheorems, SequenceTheorems, TLAPS

\* SetToSeq(S) lists every element of a finite set S exactly once.
LEMMA SetToSeqFacts ==
  ASSUME NEW S, IsFiniteSet(S)
  PROVE  /\ SetToSeq(S) \in [1..Cardinality(S) -> S]
         /\ IsInjective(SetToSeq(S))
         /\ \A x \in S : \E i \in 1..Cardinality(S) : SetToSeq(S)[i] = x
<1> DEFINE n == Cardinality(S)
<1>1. n \in Nat /\ ExistsBijection(1..n, S)
  BY FS_CardinalityType
<1>2. \E g \in [1..n -> S] : IsInjective(g)
  BY <1>1 DEF ExistsBijection, Bijection, Injection
<1>3. SetToSeq(S) \in [1..n -> S] /\ IsInjective(SetToSeq(S))
  BY <1>2 DEF SetToSeq
<1>4. SetToSeq(S) \in Injection(1..n, S)
  BY <1>3 DEF Injection
<1>5. Cardinality(1..n) = n
  BY <1>1, FS_Interval
<1>6. SetToSeq(S) \in Surjection(1..n, S)
  BY <1>1, <1>4, <1>5, FS_Injection
<1>7. QED
  BY <1>3, <1>6 DEF Surjection

\* The informer's initial list of a set of live requests: one add per
\* request, each request once.
LEMMA InitialListFacts ==
  ASSUME NEW S \in SUBSET Keys
  PROVE  LET L == InitialList(S) IN
         /\ L \in Seq(Observation)
         /\ Len(L) = Cardinality(S)
         /\ Cardinality(S) <= Cardinality(Keys)
         /\ \A i \in 1..Len(L) : L[i].op = "add" /\ L[i].k \in S
         /\ \A k \in S : \E i \in 1..Len(L) : L[i].k = k
         /\ \A i, j \in 1..Len(L) : L[i].k = L[j].k => i = j
<1>1. IsFiniteSet(S) /\ Cardinality(S) <= Cardinality(Keys)
  BY PathsAssumption, FS_Subset
<1>2. Cardinality(S) \in Nat
  BY <1>1, FS_CardinalityType
<1> DEFINE order == SetToSeq(S)
<1>3. /\ order \in [1..Cardinality(S) -> S]
      /\ IsInjective(order)
      /\ \A x \in S : \E i \in 1..Cardinality(S) : order[i] = x
  BY <1>1, SetToSeqFacts
<1>4. InitialList(S) = [i \in 1..Cardinality(S) |-> [op |-> "add", k |-> order[i]]]
  BY <1>3 DEF InitialList
<1>5. InitialList(S) \in [1..Cardinality(S) -> Observation]
  BY <1>3, <1>4 DEF Observation
<1>6. InitialList(S) \in Seq(Observation)
  BY <1>2, <1>5, SeqDef
<1>7. Len(InitialList(S)) = Cardinality(S)
  BY <1>2, <1>6, <1>5, LenProperties
<1>8. \A i \in 1..Cardinality(S) : InitialList(S)[i].op = "add" /\ InitialList(S)[i].k \in S
  BY <1>3, <1>4
<1>9. \A k \in S : \E i \in 1..Cardinality(S) : InitialList(S)[i].k = k
  BY <1>3, <1>4
<1>10. \A i, j \in 1..Cardinality(S) : InitialList(S)[i].k = InitialList(S)[j].k => i = j
  BY <1>3, <1>4 DEF IsInjective
<1>11. QED
  BY <1>1, <1>6, <1>7, <1>8, <1>9, <1>10

-----------------------------------------------------------------------------
(* Type correctness.  The bound on the children of the gauge is not       *)
(* inductive alone: it rests on QueueBound, which relates every child to  *)
(* the observations still pending.                                        *)

\* TypeOK without its bound on the children of the gauge.
TypeRest ==
    /\ live \subseteq Keys
    /\ changes \in 0..MaxChanges
    /\ pending \in Seq(Observation)
    /\ DOMAIN gauge \subseteq Keys
    /\ \A k \in DOMAIN gauge : gauge[k] \in Int
    /\ handlers \in Nat
    /\ vec \in [Keys -> Nat]
    /\ recounted \in BOOLEAN /\ clean \in BOOLEAN
    /\ restarts \in 0..MaxRestarts /\ lost \in 0..MaxLost /\ dups \in 0..MaxDup

\* The bounds are natural numbers.
LEMMA BoundsNat ==
  MaxChanges \in Nat /\ MaxRestarts \in Nat /\ MaxLost \in Nat /\ MaxDup \in Nat
BY PathsAssumption

\* The number of tuples is a natural number.
LEMMA KeysCard == Cardinality(Keys) \in Nat
BY PathsAssumption, FS_CardinalityType

\* Queued never exceeds GaugeBound.
LEMMA QueuedBelow ==
  ASSUME TypeRest
  PROVE  Queued \in Nat /\ GaugeBound \in Nat /\ Queued <= GaugeBound
<1>1. Cardinality(Keys) \in Nat
  BY KeysCard
<1>0. MaxChanges \in Nat /\ MaxRestarts \in Nat /\ MaxDup \in Nat
  BY PathsAssumption
<1>2. (restarts + 1) * Cardinality(Keys) <= (MaxRestarts + 1) * Cardinality(Keys)
  BY <1>0, <1>1 DEF TypeRest
<1>3. (restarts + 1) * Cardinality(Keys) \in Nat
  BY <1>1 DEF TypeRest
<1>4. QED
  BY <1>0, <1>1, <1>2, <1>3 DEF TypeRest, Queued, GaugeBound

\* TypeRest and QueueBound give TypeOK.
LEMMA TypeFromBound ==
  ASSUME TypeRest, QueueBound
  PROVE  TypeOK
<1>1. Queued \in Nat /\ GaugeBound \in Nat /\ Queued <= GaugeBound
  BY QueuedBelow
<1>2. Len(pending) \in Nat
  BY LenProperties DEF TypeRest
<1>3. \A k \in DOMAIN gauge : gauge[k] \in -GaugeBound..GaugeBound
  <2> SUFFICES ASSUME NEW k \in DOMAIN gauge PROVE gauge[k] \in -GaugeBound..GaugeBound
    OBVIOUS
  <2>1. gauge[k] \in Int
    BY DEF TypeRest
  <2>2. gauge[k] + Len(pending) <= Queued /\ Len(pending) - gauge[k] <= Queued
    BY DEF QueueBound
  <2>3. GaugeBound \in Int
    BY <1>1
  <2>4. QED
    BY <1>1, <1>2, <2>1, <2>2, <2>3
<1>4. QED
  BY <1>3 DEF TypeRest, TypeOK

\* A start (Init or Restart) lists the live requests with an empty gauge.
LEMMA StartBound ==
  ASSUME NEW S \in SUBSET Keys, NEW r \in Nat, NEW c \in Nat, NEW d \in Nat
  PROVE  Len(InitialList(S)) <= c + d + (r + 1) * Cardinality(Keys)
<1>1. Len(InitialList(S)) <= Cardinality(Keys)
  BY InitialListFacts
<1>2. Cardinality(Keys) <= (r + 1) * Cardinality(Keys)
  BY KeysCard
<1>3. QED
  BY <1>1, <1>2, KeysCard

\* The initial states satisfy TypeRest and QueueBound.
LEMMA InitBound == Init => TypeRest /\ QueueBound
<1> SUFFICES ASSUME Init PROVE TypeRest /\ QueueBound
  OBVIOUS
<1>1. live \subseteq Keys /\ pending = InitialList(live) /\ gauge = [k \in {} |-> 0]
  BY DEF Init
<1>2. /\ pending \in Seq(Observation)
      /\ Len(pending) = Cardinality(live)
      /\ Cardinality(live) \in Nat
  BY <1>1, InitialListFacts, PathsAssumption, FS_Subset, FS_CardinalityType
<1>3. DOMAIN gauge = {}
  BY <1>1
<1>4. changes = 0 /\ restarts = 0 /\ dups = 0 /\ lost = 0
  BY DEF Init
<1>5. vec \in [Keys -> Nat] /\ handlers \in Nat
  BY <1>2 DEF Init, Indicator
<1>6. recounted \in BOOLEAN /\ clean \in BOOLEAN
  BY DEF Init
<1>7. Len(pending) <= Queued
  BY <1>1, <1>4, StartBound DEF Queued
<1>8. QED
  BY <1>1, <1>2, <1>3, <1>4, <1>5, <1>6, <1>7, PathsAssumption DEF TypeRest, QueueBound

\* A change leaves the gauge alone and queues at most one observation.
LEMMA ChangeBound ==
  ASSUME TypeRest, QueueBound,
         NEW k \in Keys, CreateCR(k) \/ UpdateCR(k) \/ DeleteCR(k)
  PROVE  TypeRest' /\ QueueBound'
<1>1. PICK op \in {"add", "update", "delete"}, S \in SUBSET Keys : Change(op, k, S)
  BY DEF CreateCR, UpdateCR, DeleteCR, TypeRest
<1>2. /\ pending' \in Seq(Observation)
      /\ Len(pending') <= Len(pending) + 1
  <2>1. CASE op = "update"
    BY <1>1, <2>1, LenProperties DEF Change, TypeRest
  <2>2. CASE op # "update"
    <3>1. [op |-> op, k |-> k] \in Observation
      BY <1>1, <2>2 DEF Observation
    <3>2. pending' = Append(pending, [op |-> op, k |-> k])
      BY <1>1, <2>2 DEF Change
    <3>3. QED
      BY <3>1, <3>2, AppendProperties DEF TypeRest
  <2>3. QED
    BY <2>1, <2>2
<1>3. changes' = changes + 1 /\ changes < MaxChanges /\ UNCHANGED <<gauge, restarts, dups>>
  BY <1>1 DEF Change
<1>4. Len(pending) \in Nat /\ Len(pending') \in Nat
  BY <1>2, LenProperties DEF TypeRest
<1>5. Queued' = Queued + 1 /\ Queued \in Nat
  <2>1. Queued \in Nat
    BY QueuedBelow
  <2>2. (restarts' + 1) * Cardinality(Keys) \in Nat
    BY <1>3, KeysCard DEF TypeRest
  <2>3. QED
    BY <1>3, <2>1, <2>2 DEF Queued, TypeRest
<1>6. QueueBound'
  BY <1>2, <1>3, <1>4, <1>5 DEF QueueBound, TypeRest
<1>7. changes' \in 0..MaxChanges /\ handlers' \in Nat
  BY <1>1, BoundsNat DEF Change, TypeRest
<1>8. TypeRest'
  BY <1>1, <1>2, <1>7 DEF Change, TypeRest
<1>9. QED
  BY <1>6, <1>8
\* The controller handling an observation moves one child by one.
LEMMA ObserveBound ==
  ASSUME TypeRest, QueueBound, Observe
  PROVE  TypeRest' /\ QueueBound'
<1> DEFINE o == Head(pending)
           d == IF o.op = "add" THEN 1 ELSE -1
<1>1. pending # <<>> /\ pending' = Tail(pending)
      /\ UNCHANGED <<live, changes, handlers, vec, recounted, clean, restarts, lost, dups>>
  BY DEF Observe
<1>2. /\ o \in Observation
      /\ pending' \in Seq(Observation)
      /\ Len(pending') = Len(pending) - 1
      /\ Len(pending) \in Nat
  BY <1>1, HeadTailProperties, LenProperties DEF TypeRest
<1>3. gauge' = AddToChild(gauge, o.k, d)
  BY <1>2 DEF Observe, Apply, IncrementCurrentCertificateRequest,
              DecrementCurrentCertificateRequest, Observation
<1>4. /\ DOMAIN gauge' = DOMAIN gauge \cup {o.k}
      /\ \A j \in DOMAIN gauge' : gauge'[j] = IF j = o.k THEN Value(gauge, o.k) + d ELSE gauge[j]
  BY <1>3 DEF AddToChild
<1>5. Queued' = Queued /\ Queued \in Nat
  BY <1>1, QueuedBelow DEF Queued
<1>6. Value(gauge, o.k) \in Int /\ d \in {1, -1}
  BY DEF Value, TypeRest
<1>7. ASSUME NEW j \in DOMAIN gauge'
      PROVE  /\ gauge'[j] \in Int
             /\ gauge'[j] + Len(pending') <= Queued'
             /\ Len(pending') - gauge'[j] <= Queued'
  <2>1. CASE j = o.k /\ o.k \in DOMAIN gauge
    <3>1. gauge'[j] = gauge[o.k] + d
      BY <1>4, <2>1 DEF Value
    <3>2. gauge[o.k] \in Int /\ gauge[o.k] + Len(pending) <= Queued /\ Len(pending) - gauge[o.k] <= Queued
      BY <2>1 DEF QueueBound, TypeRest
    <3>3. QED
      BY <1>2, <1>5, <1>6, <3>1, <3>2
  <2>2. CASE j = o.k /\ o.k \notin DOMAIN gauge
    BY <1>2, <1>4, <1>5, <1>6, <2>2 DEF QueueBound, Value
  <2>3. CASE j # o.k
    BY <1>2, <1>4, <1>5, <2>3 DEF QueueBound, TypeRest
  <2>4. QED
    BY <2>1, <2>2, <2>3
<1>8. QueueBound'
  BY <1>2, <1>5, <1>7 DEF QueueBound
<1>9. TypeRest'
  BY <1>1, <1>2, <1>4, <1>7 DEF TypeRest, Observation
<1>10. QED
  BY <1>8, <1>9

\* Losing an observation shortens the queue.
LEMMA LoseBound ==
  ASSUME TypeRest, QueueBound, LoseObservation
  PROVE  TypeRest' /\ QueueBound'
<1>1. /\ pending # <<>> /\ pending' = Tail(pending) /\ lost < MaxLost /\ lost' = lost + 1
      /\ UNCHANGED <<live, changes, gauge, handlers, vec, recounted, restarts, dups>>
      /\ clean' = FALSE
  BY DEF LoseObservation
<1>2. pending' \in Seq(Observation) /\ Len(pending') = Len(pending) - 1 /\ Len(pending) \in Nat
  BY <1>1, HeadTailProperties, LenProperties DEF TypeRest
<1>3. Queued' = Queued
  BY <1>1 DEF Queued
<1>4. QueueBound'
  <2>0. Queued \in Nat
    BY QueuedBelow
  <2>1. Len(pending') <= Queued'
    BY <1>2, <1>3, <2>0 DEF QueueBound
  <2>2. ASSUME NEW k \in DOMAIN gauge'
        PROVE  gauge'[k] + Len(pending') <= Queued' /\ Len(pending') - gauge'[k] <= Queued'
    <3>1. k \in DOMAIN gauge /\ gauge'[k] = gauge[k] /\ gauge[k] \in Int
      BY <1>1 DEF TypeRest
    <3>2. gauge[k] + Len(pending) <= Queued /\ Len(pending) - gauge[k] <= Queued
      BY <3>1 DEF QueueBound
    <3>3. QED
      BY <1>2, <1>3, <2>0, <3>1, <3>2
  <2>3. QED
    BY <2>1, <2>2 DEF QueueBound
<1>5. lost' \in 0..MaxLost
  BY <1>1, BoundsNat DEF TypeRest
<1>6. TypeRest'
  BY <1>1, <1>2, <1>5 DEF TypeRest
<1>7. QED
  BY <1>4, <1>6

\* A duplicated observation lengthens the queue by one and counts a duplicate.
LEMMA DuplicateBound ==
  ASSUME TypeRest, QueueBound, DuplicateObservation
  PROVE  TypeRest' /\ QueueBound'
<1>1. /\ pending # <<>> /\ pending' = <<Head(pending)>> \o pending
      /\ dups < MaxDup /\ dups' = dups + 1
      /\ UNCHANGED <<live, changes, gauge, handlers, vec, recounted, restarts, lost>>
      /\ clean' = FALSE
  BY DEF DuplicateObservation
<1>2. <<Head(pending)>> \in Seq(Observation)
  <2>1. Head(pending) \in Observation
    BY <1>1, HeadTailProperties DEF TypeRest
  <2>2. QED
    BY <2>1, SeqDef
<1>3. pending' \in Seq(Observation) /\ Len(pending') = Len(pending) + 1 /\ Len(pending) \in Nat
  BY <1>1, <1>2, ConcatProperties, LenProperties DEF TypeRest
<1>4. Queued' = Queued + 1 /\ Queued \in Nat
  <2>1. Queued \in Nat
    BY QueuedBelow
  <2>2. (restarts + 1) * Cardinality(Keys) \in Nat
    BY KeysCard DEF TypeRest
  <2>3. QED
    BY <1>1, <2>1, <2>2 DEF Queued, TypeRest
<1>5. QueueBound'
  BY <1>1, <1>3, <1>4 DEF QueueBound, TypeRest
<1>6. dups' \in 0..MaxDup
  BY <1>1, BoundsNat DEF TypeRest
<1>7. TypeRest'
  BY <1>1, <1>3, <1>6 DEF TypeRest
<1>8. QED
  BY <1>5, <1>7

\* A recount touches only the promauto vector.
LEMMA HandleBound ==
  ASSUME TypeRest, QueueBound, HandleCertificateRequestEvent
  PROVE  TypeRest' /\ QueueBound'
<1>1. UNCHANGED <<live, changes, pending, gauge, clean, restarts, lost, dups>>
  BY DEF HandleCertificateRequestEvent
<1>2. handlers' \in Nat
  BY DEF HandleCertificateRequestEvent, TypeRest
<1>4. vec' \in [Keys -> Nat] /\ recounted' \in BOOLEAN
  <2>1. CASE vec' = Indicator(live) /\ recounted' = TRUE
    BY <2>1 DEF Indicator
  <2>2. CASE UNCHANGED <<vec, recounted>>
    BY <2>2 DEF TypeRest
  <2>3. QED
    BY <2>1, <2>2 DEF HandleCertificateRequestEvent
<1>3. QED
  BY <1>1, <1>2, <1>4 DEF TypeRest, QueueBound, Queued

\* A restart empties the gauge and queues the initial list.
LEMMA RestartBound ==
  ASSUME TypeRest, QueueBound, Restart
  PROVE  TypeRest' /\ QueueBound'
<1>1. /\ restarts < MaxRestarts /\ restarts' = restarts + 1
      /\ pending' = InitialList(live) /\ gauge' = [k \in {} |-> 0]
      /\ handlers' = Cardinality(live) /\ vec' = Indicator({})
      /\ recounted' = FALSE /\ clean' = TRUE
      /\ UNCHANGED <<live, changes, lost, dups>>
  BY DEF Restart
<1>2. pending' \in Seq(Observation) /\ Len(pending') <= Cardinality(Keys)
  BY <1>1, InitialListFacts DEF TypeRest
<1>3. Cardinality(live) \in Nat
  BY PathsAssumption, FS_Subset, FS_CardinalityType DEF TypeRest
<1>4. Len(pending') <= Queued'
  <2>1. restarts' \in Nat /\ changes' \in Nat /\ dups' \in Nat /\ live \in SUBSET Keys
    BY <1>1 DEF TypeRest
  <2>2. QED
    BY <1>1, <2>1, StartBound DEF Queued
<1>5. QueueBound'
  BY <1>1, <1>4 DEF QueueBound
<1>6. restarts' \in 0..MaxRestarts
  BY <1>1, BoundsNat DEF TypeRest
<1>7. vec' \in [Keys -> Nat] /\ DOMAIN gauge' = {}
  BY <1>1 DEF Indicator
<1>8. TypeRest'
  BY <1>1, <1>2, <1>3, <1>6, <1>7 DEF TypeRest
<1>9. QED
  BY <1>5, <1>8

\* Every step preserves TypeRest and QueueBound.
LEMMA BoundStep ==
  TypeRest /\ QueueBound /\ [Next]_vars => TypeRest' /\ QueueBound'
<1> SUFFICES ASSUME TypeRest, QueueBound, [Next]_vars PROVE TypeRest' /\ QueueBound'
  OBVIOUS
<1>1. CASE \E k \in Keys : CreateCR(k) \/ UpdateCR(k) \/ DeleteCR(k)
  BY <1>1, ChangeBound
<1>2. CASE Observe
  BY <1>2, ObserveBound
<1>3. CASE LoseObservation
  BY <1>3, LoseBound
<1>4. CASE DuplicateObservation
  BY <1>4, DuplicateBound
<1>5. CASE HandleCertificateRequestEvent
  BY <1>5, HandleBound
<1>6. CASE Restart
  BY <1>6, RestartBound
<1>7. CASE UNCHANGED vars
  BY <1>7 DEF vars, TypeRest, QueueBound, Queued
<1>8. QED
  BY <1>1, <1>2, <1>3, <1>4, <1>5, <1>6, <1>7 DEF Next

(***************************************************************************)
(* Type correctness, for every finite set of label tuples and all bounds:  *)
(* in particular no child of m.certificateRequestCount moves further from *)
(* zero than GaugeBound, whatever observations are lost or duplicated.     *)
(***************************************************************************)
THEOREM TypeCorrect == Spec => []TypeOK
<1>1. Init => TypeRest /\ QueueBound
  BY InitBound
<1>2. TypeRest /\ QueueBound /\ [Next]_vars => (TypeRest /\ QueueBound)'
  BY BoundStep
<1>3. TypeRest /\ QueueBound => TypeOK
  BY TypeFromBound
<1>4. QED
  BY <1>1, <1>2, <1>3, PTL DEF Spec

-----------------------------------------------------------------------------
(* The observations of a tuple alternate: lemmas about Alternating under  *)
(* the three ways the queue changes (append, tail, a new initial list).   *)

\* Appending an observation of k that agrees with whether k is live keeps
\* the observations of every tuple alternating.
LEMMA AltAppend ==
  ASSUME NEW p \in Seq(Observation), NEW o \in Observation,
         NEW k, NEW v, NEW b \in BOOLEAN,
         Alternating(p, k, v, b),
         o.k = k => (o.op = "add" <=> ~b)
  PROVE  Alternating(Append(p, o), k, v, IF o.k = k THEN o.op = "add" ELSE b)
<1> DEFINE q == Append(p, o)
           n == Len(p)
           P == Positions(p, k)
           Q == Positions(q, k)
<1>1. n \in Nat /\ Len(q) = n + 1 /\ q[n + 1] = o /\ \A i \in 1..n : q[i] = p[i]
  BY AppendProperties, LenProperties
<1>2. P \subseteq 1..n /\ \A i \in P : p[i].k = k
  BY DEF Positions
<1>3. \A i \in 1..n : i \in P <=> p[i].k = k
  BY DEF Positions
<1>4. Q = P \cup (IF o.k = k THEN {n + 1} ELSE {})
  BY <1>1, <1>3 DEF Positions
<1>5. \A i \in 1..n : p[i].op \in {"add", "delete"}
  <2> SUFFICES ASSUME NEW i \in 1..n PROVE p[i].op \in {"add", "delete"}
    OBVIOUS
  <2>1. p[i] \in Observation
    BY ElementOfSeq
  <2>2. QED
    BY <2>1 DEF Observation
<1>6. o.op \in {"add", "delete"}
  BY DEF Observation
<1>7. CASE o.k # k
  <2>1. Q = P /\ \A i \in P : q[i] = p[i]
    BY <1>1, <1>2, <1>4, <1>7
  <2>2. QED
    BY <1>7, <2>1 DEF Alternating
<1>8. CASE o.k = k
  <2> DEFINE b2 == o.op = "add"
  <2>1. Q = P \cup {n + 1} /\ \A i \in P : q[i] = p[i] /\ i < n + 1
    BY <1>1, <1>2, <1>4, <1>8
  <2>2. Q = {} => v = IF b2 THEN 1 ELSE 0
    BY <2>1
  <2>3. \A i \in Q : (\A j \in Q : i <= j) => v = IF q[i].op = "add" THEN 0 ELSE 1
    <3> SUFFICES ASSUME NEW i \in Q, \A j \in Q : i <= j
                 PROVE  v = IF q[i].op = "add" THEN 0 ELSE 1
      OBVIOUS
    <3>1. CASE P = {}
      <4>1. i = n + 1
        BY <2>1, <3>1
      <4>2. v = IF b THEN 1 ELSE 0
        BY <3>1 DEF Alternating
      <4>3. QED
        BY <1>1, <1>6, <1>8, <4>1, <4>2
    <3>2. CASE P # {}
      <4>1. i \in P /\ \A j \in P : i <= j
        BY <1>1, <1>2, <2>1, <3>2
      <4>2. QED
        BY <2>1, <4>1 DEF Alternating
    <3>3. QED
      BY <3>1, <3>2
  <2>4. \A i \in Q : (\A j \in Q : j <= i) => (b2 <=> q[i].op = "add")
    <3> SUFFICES ASSUME NEW i \in Q, \A j \in Q : j <= i
                 PROVE  b2 <=> q[i].op = "add"
      OBVIOUS
    <3>1. i = n + 1
      BY <1>1, <1>2, <2>1
    <3>2. QED
      BY <1>1, <3>1
  <2>5. \A i, j \in Q : i < j /\ (\A m \in Q : m <= i \/ j <= m) => q[i].op # q[j].op
    <3> SUFFICES ASSUME NEW i \in Q, NEW j \in Q, i < j, \A m \in Q : m <= i \/ j <= m
                 PROVE  q[i].op # q[j].op
      OBVIOUS
    <3>1. i \in P
      BY <1>1, <1>2, <2>1
    <3>2. CASE j \in P
      <4>1. \A m \in P : m <= i \/ j <= m
        BY <2>1
      <4>2. p[i].op # p[j].op
        BY <3>1, <3>2, <4>1 DEF Alternating
      <4>3. QED
        BY <2>1, <3>1, <3>2, <4>2
    <3>3. CASE j = n + 1
      <4>1. \A m \in P : m <= i
        BY <1>1, <2>1, <3>3
      <4>2. b <=> p[i].op = "add"
        BY <3>1, <4>1 DEF Alternating
      <4>3. QED
        BY <1>1, <1>2, <1>5, <1>6, <1>8, <2>1, <3>1, <3>3, <4>2
    <3>4. QED
      BY <2>1, <3>2, <3>3
  <2>6. QED
    BY <1>8, <2>2, <2>3, <2>4, <2>5 DEF Alternating
<1>9. QED
  BY <1>7, <1>8

\* Handling the oldest observation, which moves the child of its tuple by
\* one, keeps the observations of every tuple alternating.
LEMMA AltTail ==
  ASSUME NEW p \in Seq(Observation), p # <<>>,
         NEW k, NEW v \in Int, NEW b \in BOOLEAN,
         Alternating(p, k, v, b)
  PROVE  Alternating(Tail(p), k,
                     IF p[1].k = k THEN v + (IF p[1].op = "add" THEN 1 ELSE -1) ELSE v,
                     b)
<1> DEFINE t == Tail(p)
           n == Len(p)
           P == Positions(p, k)
           T == Positions(t, k)
           v2 == IF p[1].k = k THEN v + (IF p[1].op = "add" THEN 1 ELSE -1) ELSE v
<1>1. /\ n \in Nat /\ n >= 1
      /\ t \in Seq(Observation) /\ Len(t) = n - 1
      /\ \A i \in 1..n - 1 : t[i] = p[i + 1]
  BY HeadTailProperties, LenProperties
<1>2. P \subseteq 1..n /\ T \subseteq 1..n - 1
  BY <1>1 DEF Positions
<1>3. \A i \in 1..n - 1 : i \in T <=> i + 1 \in P
  BY <1>1 DEF Positions
<1>4. \A m \in P : m = 1 \/ m - 1 \in T
  BY <1>1, <1>2, <1>3
<1>5. \A i \in 1..n : p[i].op \in {"add", "delete"}
  <2> SUFFICES ASSUME NEW i \in 1..n PROVE p[i].op \in {"add", "delete"}
    OBVIOUS
  <2>1. p[i] \in Observation
    BY ElementOfSeq
  <2>2. QED
    BY <2>1 DEF Observation
<1>6. 1 \in P <=> p[1].k = k
  BY <1>1 DEF Positions
\* The last and the consecutive clauses carry over through the shift.
<1>7. \A i \in T : (\A j \in T : j <= i) => (b <=> t[i].op = "add")
  <2> SUFFICES ASSUME NEW i \in T, \A j \in T : j <= i
               PROVE  b <=> t[i].op = "add"
    OBVIOUS
  <2>1. i + 1 \in P /\ \A m \in P : m <= i + 1
    BY <1>2, <1>3, <1>4
  <2>2. QED
    BY <1>1, <1>2, <2>1 DEF Alternating
<1>8. \A i, j \in T : i < j /\ (\A m \in T : m <= i \/ j <= m) => t[i].op # t[j].op
  <2> SUFFICES ASSUME NEW i \in T, NEW j \in T, i < j, \A m \in T : m <= i \/ j <= m
               PROVE  t[i].op # t[j].op
    OBVIOUS
  <2>1. i + 1 \in P /\ j + 1 \in P /\ i + 1 < j + 1
    BY <1>2, <1>3
  <2>2. \A m \in P : m <= i + 1 \/ j + 1 <= m
    BY <1>2, <1>4
  <2>3. p[i + 1].op # p[j + 1].op
    BY <2>1, <2>2 DEF Alternating
  <2>4. QED
    BY <1>1, <1>2, <2>3
<1>9. CASE p[1].k # k
  <2>1. v2 = v /\ 1 \notin P
    BY <1>6, <1>9
  <2>2. T = {} => v2 = IF b THEN 1 ELSE 0
    <3>1. T = {} => P = {}
      BY <1>4, <2>1
    <3>2. QED
      BY <2>1, <3>1 DEF Alternating
  <2>3. \A i \in T : (\A j \in T : i <= j) => v2 = IF t[i].op = "add" THEN 0 ELSE 1
    <3> SUFFICES ASSUME NEW i \in T, \A j \in T : i <= j
                 PROVE  v2 = IF t[i].op = "add" THEN 0 ELSE 1
      OBVIOUS
    <3>1. i + 1 \in P /\ \A m \in P : i + 1 <= m
      BY <1>2, <1>3, <1>4, <2>1
    <3>2. QED
      BY <1>1, <1>2, <2>1, <3>1 DEF Alternating
  <2>4. QED
    BY <1>7, <1>8, <2>2, <2>3 DEF Alternating
<1>10. CASE p[1].k = k
  <2>1. 1 \in P /\ \A m \in P : 1 <= m
    BY <1>2, <1>6, <1>10
  <2>2. v = IF p[1].op = "add" THEN 0 ELSE 1
    BY <2>1 DEF Alternating
  <2>3. v2 = IF p[1].op = "add" THEN 1 ELSE 0
    BY <1>10, <2>2
  <2>4. T = {} => v2 = IF b THEN 1 ELSE 0
    <3> SUFFICES ASSUME T = {} PROVE v2 = IF b THEN 1 ELSE 0
      OBVIOUS
    <3>1. \A m \in P : m <= 1
      BY <1>4, <2>1
    <3>2. b <=> p[1].op = "add"
      BY <2>1, <3>1 DEF Alternating
    <3>3. QED
      BY <2>3, <3>2
  <2>5. \A i \in T : (\A j \in T : i <= j) => v2 = IF t[i].op = "add" THEN 0 ELSE 1
    <3> SUFFICES ASSUME NEW i \in T, \A j \in T : i <= j
                 PROVE  v2 = IF t[i].op = "add" THEN 0 ELSE 1
      OBVIOUS
    <3>1. i + 1 \in P /\ 1 < i + 1 /\ \A m \in P : m <= 1 \/ i + 1 <= m
      BY <1>2, <1>3, <1>4
    <3>2. p[1].op # p[i + 1].op
      BY <2>1, <3>1 DEF Alternating
    <3>3. t[i].op = p[i + 1].op /\ p[i + 1].op \in {"add", "delete"} /\ p[1].op \in {"add", "delete"}
      BY <1>1, <1>2, <1>5, <3>1
    <3>4. QED
      BY <2>3, <3>2, <3>3
  <2>6. QED
    BY <1>7, <1>8, <2>4, <2>5 DEF Alternating
<1>11. QED
  BY <1>9, <1>10

\* After a start the gauge is empty and the initial list holds one add per
\* live request: every tuple's observations alternate.
LEMMA AltInit ==
  ASSUME NEW S \in SUBSET Keys, NEW k \in Keys
  PROVE  Alternating(InitialList(S), k, 0, k \in S)
<1> DEFINE L == InitialList(S)
           P == Positions(L, k)
<1>1. /\ L \in Seq(Observation)
      /\ \A i \in 1..Len(L) : L[i].op = "add" /\ L[i].k \in S
      /\ \A x \in S : \E i \in 1..Len(L) : L[i].k = x
      /\ \A i, j \in 1..Len(L) : L[i].k = L[j].k => i = j
  BY InitialListFacts
<1>2. \A i, j \in P : i = j
  BY <1>1 DEF Positions
<1>3. \A i \in P : L[i].op = "add"
  BY <1>1 DEF Positions
<1>4. P = {} <=> k \notin S
  BY <1>1 DEF Positions
<1>5. P = {} => 0 = IF k \in S THEN 1 ELSE 0
  BY <1>4
<1>6. \A i \in P : (\A j \in P : i <= j) => 0 = IF L[i].op = "add" THEN 0 ELSE 1
  BY <1>3
<1>7. \A i \in P : (\A j \in P : j <= i) => (k \in S <=> L[i].op = "add")
  BY <1>3, <1>4
<1>8. \A i, j \in P : i < j /\ (\A m \in P : m <= i \/ j <= m) => L[i].op # L[j].op
  <2>1. P \subseteq Int
    BY DEF Positions
  <2>2. QED
    BY <1>2, <2>1
<1>9. QED
  BY <1>5, <1>6, <1>7, <1>8 DEF Alternating

\* With no fault since the start, the observations of every tuple alternate.
AltInv == clean => \A k \in Keys : Alternating(pending, k, Value(gauge, k), k \in live)

\* Value after AddToChild.
LEMMA ValueAdd ==
  ASSUME NEW g, NEW j, NEW d, NEW k
  PROVE  Value(AddToChild(g, j, d), k) = IF k = j THEN Value(g, j) + d ELSE Value(g, k)
BY DEF Value, AddToChild

\* The initial states satisfy AltInv.
LEMMA AltInvInit == Init => AltInv
<1> SUFFICES ASSUME Init, NEW k \in Keys
             PROVE  Alternating(pending, k, Value(gauge, k), k \in live)
  BY DEF AltInv
<1>1. Value(gauge, k) = 0 /\ pending = InitialList(live) /\ live \in SUBSET Keys
  BY DEF Init, Value
<1>2. QED
  BY <1>1, AltInit

\* Every step preserves AltInv, given the types.
LEMMA AltInvStep == TypeRest /\ AltInv /\ [Next]_vars => AltInv'
<1> SUFFICES ASSUME TypeRest, AltInv, [Next]_vars, clean', NEW k \in Keys
             PROVE  Alternating(pending', k, Value(gauge', k), k \in live')
  BY DEF AltInv
<1>1. ASSUME NEW k0 \in Keys, CreateCR(k0) \/ UpdateCR(k0) \/ DeleteCR(k0)
      PROVE  Alternating(pending', k, Value(gauge', k), k \in live')
  <2>1. PICK op \in {"add", "update", "delete"}, S \in SUBSET Keys : Change(op, k0, S)
    BY <1>1 DEF CreateCR, UpdateCR, DeleteCR, TypeRest
  <2>2. clean /\ gauge' = gauge
    BY <2>1 DEF Change
  <2>3. Alternating(pending, k, Value(gauge, k), k \in live)
    BY <2>2 DEF AltInv
  <2>4. CASE UpdateCR(k0)
    BY <2>2, <2>3, <2>4 DEF UpdateCR, Change
  <2>5. CASE CreateCR(k0)
    <3> DEFINE o == [op |-> "add", k |-> k0]
    <3>1. o \in Observation
      BY DEF Observation
    <3>2. pending' = Append(pending, o) /\ live' = live \cup {k0} /\ k0 \notin live
      BY <2>5 DEF CreateCR, Change
    <3>3. (k \in live') = IF o.k = k THEN o.op = "add" ELSE k \in live
      BY <3>2
    <3>4. o.k = k => (o.op = "add" <=> ~(k \in live))
      BY <3>2
    <3>5. Alternating(Append(pending, o), k, Value(gauge, k),
                      IF o.k = k THEN o.op = "add" ELSE k \in live)
      <4>1. pending \in Seq(Observation) /\ (k \in live) \in BOOLEAN
        BY DEF TypeRest
      <4>2. QED
        BY <2>3, <3>1, <3>4, <4>1, AltAppend
    <3>6. QED
      BY <2>2, <3>2, <3>3, <3>5
  <2>7. CASE DeleteCR(k0)
    <3> DEFINE o == [op |-> "delete", k |-> k0]
    <3>1. o \in Observation
      BY DEF Observation
    <3>2. pending' = Append(pending, o) /\ live' = live \ {k0} /\ k0 \in live
      BY <2>7 DEF DeleteCR, Change
    <3>3. (k \in live') = IF o.k = k THEN o.op = "add" ELSE k \in live
      BY <3>2
    <3>4. o.k = k => (o.op = "add" <=> ~(k \in live))
      BY <3>2
    <3>5. Alternating(Append(pending, o), k, Value(gauge, k),
                      IF o.k = k THEN o.op = "add" ELSE k \in live)
      <4>1. pending \in Seq(Observation) /\ (k \in live) \in BOOLEAN
        BY DEF TypeRest
      <4>2. QED
        BY <2>3, <3>1, <3>4, <4>1, AltAppend
    <3>6. QED
      BY <2>2, <3>2, <3>3, <3>5
  <2>6. QED
    BY <1>1, <2>4, <2>5, <2>7
<1>2. CASE Observe
  <2> DEFINE o == Head(pending)
             d == IF o.op = "add" THEN 1 ELSE -1
  <2>1. pending # <<>> /\ pending' = Tail(pending) /\ UNCHANGED <<live, clean>>
    BY <1>2 DEF Observe
  <2>2. o = pending[1] /\ o \in Observation
    BY <2>1, HeadTailProperties DEF TypeRest
  <2>3. gauge' = AddToChild(gauge, o.k, d)
    BY <1>2, <2>2 DEF Observe, Apply, IncrementCurrentCertificateRequest,
                      DecrementCurrentCertificateRequest, Observation
  <2>4. Value(gauge', k) = IF o.k = k THEN Value(gauge, k) + d ELSE Value(gauge, k)
    BY <2>3, ValueAdd
  <2>5. Value(gauge, k) \in Int
    BY DEF Value, TypeRest
  <2>6. Alternating(pending, k, Value(gauge, k), k \in live)
    BY <2>1 DEF AltInv
  <2>7. Alternating(Tail(pending), k,
                     IF pending[1].k = k
                     THEN Value(gauge, k) + (IF pending[1].op = "add" THEN 1 ELSE -1)
                     ELSE Value(gauge, k),
                     k \in live)
    <3>1. pending \in Seq(Observation) /\ (k \in live) \in BOOLEAN
      BY DEF TypeRest
    <3>2. QED
      BY <2>1, <2>5, <2>6, <3>1, AltTail
  <2>8. QED
    BY <2>1, <2>2, <2>4, <2>7
<1>3. CASE LoseObservation \/ DuplicateObservation
  BY <1>3 DEF LoseObservation, DuplicateObservation
<1>4. CASE HandleCertificateRequestEvent
  BY <1>4 DEF HandleCertificateRequestEvent, AltInv
<1>5. CASE Restart
  <2>1. Value(gauge', k) = 0 /\ pending' = InitialList(live') /\ live' \in SUBSET Keys
    BY <1>5 DEF Restart, Value, TypeRest
  <2>2. QED
    BY <2>1, AltInit
<1>6. CASE UNCHANGED vars
  BY <1>6 DEF vars, AltInv
<1>7. QED
  BY <1>1, <1>2, <1>3, <1>4, <1>5, <1>6 DEF Next

-----------------------------------------------------------------------------
\* The inductive invariant, and the PathsInv that TLC checks on the paths
\* instance, follows from it.
IInv == TypeRest /\ QueueBound /\ AltInv

LEMMA IInvImpliesPathsInv == IInv => PathsInv
BY TypeFromBound DEF IInv, AltInv, PathsInv

\* With none pending, Alternating says the child shows whether k is live.
LEMMA SettledFromAlt ==
  ASSUME TypeRest, AltInv
  PROVE  IncrementalSettled
<1> SUFFICES ASSUME pending = <<>>, clean, NEW k \in Keys
             PROVE  Value(gauge, k) = Indicator(live)[k]
  BY DEF IncrementalSettled
<1>1. Positions(pending, k) = {}
  BY DEF Positions
<1>2. Alternating(pending, k, Value(gauge, k), k \in live)
  BY DEF AltInv
<1>3. Value(gauge, k) = IF k \in live THEN 1 ELSE 0
  BY <1>1, <1>2 DEF Alternating
<1>4. QED
  BY <1>3 DEF Indicator

(***************************************************************************)
(* IncrementalSettled for every finite set of label tuples and all bounds  *)
(* on changes, restarts, lost and duplicated observations: whenever the   *)
(* controller has handled every observation and none was lost or         *)
(* duplicated since the process started, m.certificateRequestCount shows  *)
(* one for each live CertificateRequest and zero for every other tuple.   *)
(* The argument: with no fault, the observations of a tuple pending in    *)
(* the queue alternate add and delete, the oldest agrees with the child   *)
(* and the newest with the API server (AltInv); API changes append,       *)
(* Observe takes the head and moves the child, and a restart with its     *)
(* informer list starts the alternation again from an empty gauge.        *)
(***************************************************************************)
THEOREM IncrementalSettledInvariant == Spec => []IncrementalSettled
<1>1. Init => IInv
  BY InitBound, AltInvInit DEF IInv
<1>2. IInv /\ [Next]_vars => IInv'
  BY BoundStep, AltInvStep DEF IInv
<1>3. IInv => IncrementalSettled
  BY SettledFromAlt DEF IInv
<1>4. QED
  BY <1>1, <1>2, <1>3, PTL DEF Spec

=============================================================================
