------------------------- MODULE MetricsServerProofs -------------------------
(***************************************************************************)
(* Proofs about the registry of MetricsServer: the variables keep their    *)
(* types, and m.registry holds all collectors or none whenever no          *)
(* NewServer call is in its loop.                                          *)
(***************************************************************************)
EXTENDS MetricsServer, TLAPS

\* The catalogue: metricsToRegister has eleven entries, all different, and
\* New gives them eleven different fully qualified names.
LEMMA Catalogue ==
    /\ Len(MetricsToRegister) = 11
    /\ \A i, j \in 1..11 : MetricsToRegister[i] = MetricsToRegister[j] => i = j
    /\ \A c, d \in Collectors : FqName[c] = FqName[d] => c = d
<1>1. Len(MetricsToRegister) = 11
  BY DEF MetricsToRegister
<1>2. \A i, j \in 1..11 : MetricsToRegister[i] = MetricsToRegister[j] => i = j
  BY DEF MetricsToRegister
<1>3. \A c, d \in Collectors : FqName[c] = FqName[d] => c = d
  BY <1>1 DEF Collectors, MetricsToRegister, FqName
<1>4. QED
  BY <1>1, <1>2, <1>3

\* What a loop at index n has handled, and the collector it handles next.
LEMMA PrefixStep ==
  ASSUME NEW n \in 1..11
  PROVE  /\ MetricsToRegister[n] \in Collectors
         /\ MetricsToRegister[n] \notin Prefix(n)
         /\ Prefix(n + 1) = Prefix(n) \cup {MetricsToRegister[n]}
         /\ Prefix(n) \subseteq Collectors
<1>1. MetricsToRegister[n] \in Collectors
  BY Catalogue DEF Collectors
<1>2. MetricsToRegister[n] \notin Prefix(n)
  BY Catalogue DEF Prefix
<1>3. Prefix(n + 1) = Prefix(n) \cup {MetricsToRegister[n]}
  BY DEF Prefix
<1>4. Prefix(n) \subseteq Collectors
  BY Catalogue DEF Prefix, Collectors
<1>5. QED
  BY <1>1, <1>2, <1>3, <1>4

\* A loop that has not started has handled nothing; one past the last
\* index has handled the whole catalogue.
LEMMA PrefixEnds == Prefix(1) = {} /\ Prefix(12) = Collectors
BY Catalogue DEF Prefix, Collectors

\* Register never fails: no registered collector shares a name with another.
LEMMA NoConflict ==
  ASSUME NEW c \in Collectors, registered \subseteq Collectors
  PROVE  ~Conflicts(c)
BY Catalogue DEF Conflicts

-----------------------------------------------------------------------------
\* Every step of Next, and every stutter, preserves TypeOK.
LEMMA TypeOKStep == TypeOK /\ [Next]_vars => TypeOK'
<1> SUFFICES ASSUME TypeOK, [Next]_vars PROVE TypeOK'
  OBVIOUS
<1>1. CASE NewServerStart
  BY <1>1, Catalogue, BoundsAssumption DEF NewServerStart, TypeOK
<1>2. CASE RegisterMetric
  <2>1. loop \in 1..11
    BY <1>2, Catalogue DEF RegisterMetric, TypeOK
  <2>2. registered' \subseteq Collectors
    BY <1>2, <2>1, PrefixStep DEF RegisterMetric, TypeOK
  <2>3. QED
    BY <1>2, <2>1, <2>2, Catalogue DEF RegisterMetric, TypeOK
<1>3. ASSUME NEW x \in Controllers, IncrementSyncCallCount(x) PROVE TypeOK'
  <2>1. syncCalls' \in [Controllers -> 0..MaxCount]
    BY <1>3, BoundsAssumption DEF IncrementSyncCallCount, TypeOK
  <2>2. QED
    BY <1>3, <2>1 DEF IncrementSyncCallCount, TypeOK
<1>4. ASSUME NEW x \in Controllers, IncrementSyncErrorCount(x) PROVE TypeOK'
  <2>1. syncErrors' \in [Controllers -> 0..MaxCount]
    BY <1>4, BoundsAssumption DEF IncrementSyncErrorCount, TypeOK
  <2>2. QED
    BY <1>4, <2>1 DEF IncrementSyncErrorCount, TypeOK
<1>5. CASE ClockSet
  BY <1>5 DEF ClockSet, TypeOK
<1>6. CASE Scrape
  BY <1>6 DEF Scrape, TypeOK
<1>7. CASE UNCHANGED vars
  BY <1>7 DEF vars, TypeOK
<1>8. QED
  BY <1>1, <1>2, <1>3, <1>4, <1>5, <1>6, <1>7 DEF Next

\* The initial state, New with no NewServer call yet, satisfies TypeOK.
LEMMA InitTypeOK == Init => TypeOK
<1> SUFFICES ASSUME Init PROVE TypeOK
  OBVIOUS
<1>1. loop \in 0..Len(MetricsToRegister)
  <2>1. loop = 0
    BY DEF Init
  <2>2. QED
    BY <2>1, Catalogue
<1>2. syncCalls \in [Controllers -> 0..MaxCount] /\ syncErrors \in [Controllers -> 0..MaxCount]
  <2>1. syncCalls = [x \in Controllers |-> 0] /\ syncErrors = [x \in Controllers |-> 0]
    BY DEF Init
  <2>2. QED
    BY <2>1, BoundsAssumption
<1>3. DOMAIN scraped \subseteq Collectors
  BY DEF Init
<1>4. registered = {} /\ calls = 0 /\ serving = FALSE /\ now \in 0..MaxTime
  BY DEF Init
<1>5. registered \subseteq Collectors /\ serving \in BOOLEAN
  BY <1>4
<1>7. calls \in 0..MaxCalls
  BY <1>4, BoundsAssumption
<1>6. QED
  BY <1>1, <1>2, <1>3, <1>4, <1>5, <1>7 DEF TypeOK

(***************************************************************************)
(* Type correctness of the registration loop, the counters, the clock and *)
(* the scrapes, for every set of controllers and every bound.             *)
(***************************************************************************)
THEOREM TypeCorrect == Spec => []TypeOK
BY InitTypeOK, TypeOKStep, PTL DEF Spec

-----------------------------------------------------------------------------
\* NewServerStart flips the parity of calls; the loop starts at index 1
\* with nothing handled.
LEMMA RegistryInvStart ==
  ASSUME RegistryInv, NewServerStart
  PROVE  RegistryInv'
<1>1. TypeOK'
  BY TypeOKStep DEF RegistryInv, Next
<1>2. calls \in Nat /\ loop = 0 /\ loop' = 1 /\ calls' = calls + 1
      /\ registered' = registered
  BY DEF RegistryInv, TypeOK, NewServerStart
<1>3. (calls + 1) % 2 = 1 <=> ~(calls % 2 = 1)
  BY <1>2
<1>4. registered' = IF calls' % 2 = 1 THEN Prefix(1) ELSE Collectors \ Prefix(1)
  BY <1>2, <1>3, PrefixEnds DEF RegistryInv
<1>5. QED
  BY <1>1, <1>2, <1>4 DEF RegistryInv

\* One iteration of the loop at index n: an odd call adds the collector at
\* n, an even call removes it; index 11 ends the loop.
LEMMA RegistryInvRegister ==
  ASSUME RegistryInv, RegisterMetric
  PROVE  RegistryInv'
<1> DEFINE n == loop
           c == MetricsToRegister[loop]
<1>1. TypeOK'
  BY TypeOKStep DEF RegistryInv, Next
<1>2. n \in 1..11
  BY Catalogue DEF RegistryInv, TypeOK, RegisterMetric
<1>3. /\ c \in Collectors /\ c \notin Prefix(n)
      /\ Prefix(n + 1) = Prefix(n) \cup {c} /\ Prefix(n) \subseteq Collectors
  BY <1>2, PrefixStep
<1>4. ~Conflicts(c)
  BY <1>3, NoConflict DEF RegistryInv, TypeOK
<1>5. calls' = calls /\ loop' = IF n = 11 THEN 0 ELSE n + 1
  BY Catalogue DEF RegisterMetric
<1>6. registered' = IF c \in registered THEN registered \ {c} ELSE registered \cup {c}
  BY <1>4 DEF RegisterMetric
<1>7. registered' = IF calls % 2 = 1 THEN Prefix(n + 1) ELSE Collectors \ Prefix(n + 1)
  <2>1. CASE calls % 2 = 1
    <3>1. registered = Prefix(n)
      BY <1>2, <2>1 DEF RegistryInv
    <3>2. QED
      BY <1>3, <1>6, <2>1, <3>1
  <2>2. CASE ~(calls % 2 = 1)
    <3>1. registered = Collectors \ Prefix(n)
      BY <1>2, <2>2 DEF RegistryInv
    <3>2. QED
      BY <1>3, <1>6, <2>2, <3>1
  <2>3. QED
    BY <2>1, <2>2
<1>8. CASE n = 11
  BY <1>1, <1>5, <1>7, <1>8, PrefixEnds DEF RegistryInv
<1>9. CASE n # 11
  BY <1>1, <1>2, <1>5, <1>7, <1>9 DEF RegistryInv
<1>10. QED
  BY <1>8, <1>9

\* Every step and every stutter preserves RegistryInv.
LEMMA RegistryInvStep == RegistryInv /\ [Next]_vars => RegistryInv'
<1> SUFFICES ASSUME RegistryInv, [Next]_vars PROVE RegistryInv'
  OBVIOUS
<1>1. CASE NewServerStart
  BY <1>1, RegistryInvStart
<1>2. CASE RegisterMetric
  BY <1>2, RegistryInvRegister
<1>3. CASE UNCHANGED <<registered, loop, calls>>
  <2>1. TypeOK'
    BY TypeOKStep DEF RegistryInv
  <2>2. QED
    BY <1>3, <2>1 DEF RegistryInv
<1>4. QED
  BY <1>1, <1>2, <1>3 DEF Next, vars, IncrementSyncCallCount, IncrementSyncErrorCount,
                          ClockSet, Scrape

(***************************************************************************)
(* RegistryAllOrNone for every set of controllers and every bound: when no *)
(* NewServer call is in its loop, m.registry holds every collector of     *)
(* metricsToRegister or none, however many calls came before.  The        *)
(* argument: an odd call starts from an empty registry and adds each      *)
(* collector (Register never conflicts, all names differ), an even call   *)
(* starts from the full one and Unregister removes each.                  *)
(***************************************************************************)
THEOREM RegistryAllOrNoneInvariant == Spec => []RegistryAllOrNone
<1>1. Init => RegistryInv
  <2>1. Init => loop = 0 /\ registered = {} /\ calls = 0
    BY DEF Init
  <2>2. QED
    BY <2>1, InitTypeOK DEF RegistryInv
<1>2. RegistryInv => RegistryAllOrNone
  BY DEF RegistryInv, RegistryAllOrNone
<1>3. QED
  BY <1>1, <1>2, RegistryInvStep, PTL DEF Spec

-----------------------------------------------------------------------------
\* The samples of the two sync counters are their current children.
LEMMA SampleVec ==
  \A c \in VecCounters : Sample(c) = IF c = "controllerSyncCallCount" THEN syncCalls
                                     ELSE syncErrors
BY DEF Sample, VecCounters

\* Every step preserves ScrapedBelow, given TypeOK: a scrape replaces the
\* sample of a registered counter by its current value, and the counters
\* only grow.
LEMMA ScrapedBelowStep ==
  TypeOK /\ ScrapedBelow /\ [Next]_vars => ScrapedBelow'
<1> SUFFICES ASSUME TypeOK, ScrapedBelow, [Next]_vars PROVE ScrapedBelow'
  OBVIOUS
<1>1. CASE Scrape
  <2> SUFFICES ASSUME NEW c \in VecCounters \cap DOMAIN scraped'
               PROVE  /\ scraped'[c] \in [Controllers -> Nat]
                      /\ \A x \in Controllers : scraped'[c][x] <= Sample(c)'[x]
    BY DEF ScrapedBelow
  <2>1. Sample(c)' = Sample(c) /\ Sample(c) \in [Controllers -> Nat]
    BY <1>1 DEF Scrape, Sample, VecCounters, TypeOK
  <2>2. CASE c \in registered
    BY <1>1, <2>1, <2>2 DEF Scrape
  <2>3. CASE c \notin registered
    <3>1. c \in DOMAIN scraped /\ scraped'[c] = scraped[c]
      BY <1>1, <2>3 DEF Scrape
    <3>2. QED
      BY <2>1, <3>1 DEF ScrapedBelow
  <2>4. QED
    BY <2>2, <2>3
<1>2. ASSUME NEW y \in Controllers,
             IncrementSyncCallCount(y) \/ IncrementSyncErrorCount(y)
      PROVE  ScrapedBelow'
  <2> SUFFICES ASSUME NEW c \in VecCounters \cap DOMAIN scraped'
               PROVE  /\ scraped'[c] \in [Controllers -> Nat]
                      /\ \A x \in Controllers : scraped'[c][x] <= Sample(c)'[x]
    BY DEF ScrapedBelow
  <2>1. scraped' = scraped
    BY <1>2 DEF IncrementSyncCallCount, IncrementSyncErrorCount
  <2>2. \A x \in Controllers : Sample(c)[x] <= Sample(c)'[x]
    BY <1>2 DEF IncrementSyncCallCount, IncrementSyncErrorCount, Sample, VecCounters, TypeOK
  <2>3. Sample(c) \in [Controllers -> Nat] /\ Sample(c)' \in [Controllers -> Nat]
    BY <1>2 DEF IncrementSyncCallCount, IncrementSyncErrorCount, Sample, VecCounters, TypeOK
  <2>4. QED
    BY <2>1, <2>2, <2>3 DEF ScrapedBelow
<1>3. CASE UNCHANGED <<scraped, syncCalls, syncErrors>>
  <2> SUFFICES ASSUME NEW c \in VecCounters \cap DOMAIN scraped'
               PROVE  /\ scraped'[c] \in [Controllers -> Nat]
                      /\ \A x \in Controllers : scraped'[c][x] <= Sample(c)'[x]
    BY DEF ScrapedBelow
  <2>1. Sample(c)' = Sample(c)
    BY <1>3 DEF Sample, VecCounters
  <2>2. QED
    BY <1>3, <2>1 DEF ScrapedBelow
<1>4. QED
  BY <1>1, <1>2, <1>3 DEF Next, vars, NewServerStart, RegisterMetric, ClockSet

\* Under TypeOK and ScrapedBelow no step lowers a scraped sync counter.
LEMMA VecCountersStep ==
  TypeOK /\ ScrapedBelow /\ [Next]_vars =>
    [\A c \in VecCounters \cap DOMAIN scraped :
        \A x \in Controllers : scraped[c][x] <= scraped'[c][x]]_scraped
<1> SUFFICES ASSUME TypeOK, ScrapedBelow, [Next]_vars,
                    NEW c \in VecCounters \cap DOMAIN scraped, NEW x \in Controllers,
                    scraped' # scraped
             PROVE  scraped[c][x] <= scraped'[c][x]
  OBVIOUS
<1>1. Scrape
  BY DEF Next, vars, NewServerStart, RegisterMetric, IncrementSyncCallCount,
         IncrementSyncErrorCount, ClockSet
<1>2. scraped[c][x] \in Nat /\ scraped[c][x] <= Sample(c)[x]
  BY DEF ScrapedBelow
<1>3. CASE c \in registered
  <2>1. scraped'[c] = Sample(c) /\ Sample(c) \in [Controllers -> Nat]
    BY <1>1, <1>3 DEF Scrape, Sample, VecCounters, TypeOK
  <2>2. QED
    BY <1>2, <2>1
<1>4. CASE c \notin registered
  BY <1>1, <1>2, <1>4 DEF Scrape
<1>5. QED
  BY <1>3, <1>4

(***************************************************************************)
(* VecCountersMonotone for every set of controllers and every bound: a    *)
(* scraper never sees a controller sync counter go down, also across      *)
(* repeated NewServer calls that unregister and register the collectors  *)
(* again, because a re-registered collector keeps its children.           *)
(***************************************************************************)
THEOREM VecCountersMonotoneProperty == Spec => VecCountersMonotone
<1>1. Init => TypeOK /\ ScrapedBelow
  <2>1. Init => DOMAIN scraped = {}
    BY DEF Init
  <2>2. QED
    BY <2>1, InitTypeOK DEF ScrapedBelow
<1>2. TypeOK /\ ScrapedBelow /\ [Next]_vars => (TypeOK /\ ScrapedBelow)'
  BY TypeOKStep, ScrapedBelowStep
<1>3. QED
  BY <1>1, <1>2, VecCountersStep, PTL DEF Spec, VecCountersMonotone
=============================================================================
