--------------------------- MODULE MetricsServer ---------------------------
(***************************************************************************)
(* The Metrics object of src/unnamed/part_002: the collectors built by     *)
(* New, the registration loop of NewServer into m.registry, the            *)
(* controller sync counters, the clock-derived metrics and the scrapes    *)
(* served by promhttp.HandlerFor(m.registry).                              *)
(*                                                                         *)
(* NewServer may be called more than once on the same Metrics object; all  *)
(* calls share m.registry and every server built serves it, so a scrape of *)
(* an earlier server can run while a later call is in its loop.  Each      *)
(* Register and Unregister is atomic (the registry holds a mutex); the     *)
(* loop is not.                                                            *)
(*                                                                         *)
(* The values of the collectors whose updates are modelled elsewhere or   *)
(* not at all (expiry, renewal, ready status, ACME and Venafi client      *)
(* metrics, the certificate request gauge) are left out; they take part   *)
(* in registration by name only.                                           *)
(***************************************************************************)
EXTENDS Naturals, Sequences, FiniteSets

CONSTANTS
    Controllers,  \* values of the "controller" label
    MaxCalls,     \* bound on NewServer calls
    MaxCount,     \* bound on each counter child
    MaxTime       \* clock readings are in 0..MaxTime

ASSUME ControllersAssumption == IsFiniteSet(Controllers)
ASSUME BoundsAssumption == MaxCalls \in Nat /\ MaxCount \in Nat /\ MaxTime \in Nat

(***************************************************************************)
(* metricsToRegister, in the order of NewServer.                           *)
(***************************************************************************)
MetricsToRegister ==
    << "certificateRequestCount", "clockTimeSeconds", "clockTimeSecondsGauge",
       "certificateExpiryTimeSeconds", "certificateRenewalTimeSeconds",
       "certificateReadyStatus", "acmeClientRequestDurationSeconds",
       "venafiClientRequestDurationSeconds", "acmeClientRequestCount",
       "controllerSyncCallCount", "controllerSyncErrorCount" >>

Collectors == {MetricsToRegister[n] : n \in 1..Len(MetricsToRegister)}

(***************************************************************************)
(* The fully qualified name New gives each collector (namespace,           *)
(* subsystem and name joined by "_"); the registry refuses a collector     *)
(* whose name another registered collector already uses.                   *)
(***************************************************************************)
FqName ==
    [ certificateRequestCount |-> "current_certificate_request_count",
      clockTimeSeconds |-> "certmanager_clock_time_seconds",
      clockTimeSecondsGauge |-> "certmanager_clock_time_seconds_gauge",
      certificateExpiryTimeSeconds |-> "certmanager_certificate_expiration_timestamp_seconds",
      certificateRenewalTimeSeconds |-> "certmanager_certificate_renewal_timestamp_seconds",
      certificateReadyStatus |-> "certmanager_certificate_ready_status",
      acmeClientRequestDurationSeconds |-> "certmanager_http_acme_client_request_duration_seconds",
      venafiClientRequestDurationSeconds |-> "certmanager_http_venafi_client_request_duration_seconds",
      acmeClientRequestCount |-> "certmanager_http_acme_client_request_count",
      controllerSyncCallCount |-> "certmanager_controller_sync_call_count",
      controllerSyncErrorCount |-> "certmanager_controller_sync_error_count" ]

\* Counters built by NewCounterFunc from the injected clock.
ClockCounters == {"clockTimeSeconds"}

\* Counter vectors that are only ever incremented.
VecCounters == {"controllerSyncCallCount", "controllerSyncErrorCount"}

VARIABLES
    registered,   \* collectors in m.registry
    loop,         \* 0: no NewServer running; else index into metricsToRegister
    calls,        \* NewServer calls so far
    serving,      \* a server built by NewServer serves m.registry
    syncCalls,    \* controllerSyncCallCount children, 0 = no child
    syncErrors,   \* controllerSyncErrorCount children, 0 = no child
    now,          \* what the injected clock's Now() returns, in seconds
    scraped       \* the collector's latest sample seen by a scraper

vars == <<registered, loop, calls, serving, syncCalls, syncErrors, now, scraped>>

(***************************************************************************)
(* What the exposition renders for a collector: the children of the sync  *)
(* counters, the clock reading for the two clock metrics, and a single    *)
(* placeholder for the collectors whose values are not modelled.           *)
(***************************************************************************)
Sample(c) ==
    CASE c = "controllerSyncCallCount"  -> syncCalls
      [] c = "controllerSyncErrorCount" -> syncErrors
      [] c \in {"clockTimeSeconds", "clockTimeSecondsGauge"} -> now
      [] OTHER -> "unmodelled"

\* Type invariant: every variable holds a value of its intended kind.
TypeOK ==
    /\ registered \subseteq Collectors
    /\ loop \in 0..Len(MetricsToRegister)
    /\ calls \in 0..MaxCalls
    /\ serving \in BOOLEAN
    /\ syncCalls \in [Controllers -> 0..MaxCount]
    /\ syncErrors \in [Controllers -> 0..MaxCount]
    /\ now \in 0..MaxTime
    /\ DOMAIN scraped \subseteq Collectors

\* New: every collector built, none registered, the clock at some reading.
Init ==
    /\ registered = {}
    /\ loop = 0
    /\ calls = 0
    /\ serving = FALSE
    /\ syncCalls = [x \in Controllers |-> 0]
    /\ syncErrors = [x \in Controllers |-> 0]
    /\ now \in 0..MaxTime
    /\ scraped = [c \in {} |-> 0]

-----------------------------------------------------------------------------
(* NewServer.                                                              *)

NewServerStart ==
    /\ loop = 0
    /\ calls < MaxCalls
    /\ loop' = 1
    /\ calls' = calls + 1
    /\ UNCHANGED <<registered, serving, syncCalls, syncErrors, now, scraped>>

\* Register would fail: another registered collector has the same name.
Conflicts(c) == \E d \in registered \ {c} : FqName[d] = FqName[c]

\* Mutant: the loop runs one index past the end of metricsToRegister.
RegisterMetricPastEnd ==
    LET c == MetricsToRegister[loop] IN
    /\ loop # 0
    /\ registered' = IF c \in registered THEN registered \ {c}
                     ELSE IF Conflicts(c) THEN registered
                     ELSE registered \cup {c}
    /\ loop' = IF loop = Len(MetricsToRegister) + 1 THEN 0 ELSE loop + 1
    /\ serving' = (serving \/ loop = Len(MetricsToRegister))
    /\ UNCHANGED <<calls, syncCalls, syncErrors, now, scraped>>

\* Mutant: the loop stops before the last element of metricsToRegister.
RegisterMetricSkipLast ==
    LET c == MetricsToRegister[loop] IN
    /\ loop # 0
    /\ registered' = IF c \in registered THEN registered \ {c}
                     ELSE IF Conflicts(c) THEN registered
                     ELSE registered \cup {c}
    /\ loop' = IF loop >= Len(MetricsToRegister) - 1 THEN 0 ELSE loop + 1
    /\ serving' = (serving \/ loop >= Len(MetricsToRegister) - 1)
    /\ UNCHANGED <<calls, syncCalls, syncErrors, now, scraped>>

\* Mutant: registration installs a fresh collector whose children are empty.
RegisterMetricFresh ==
    LET c == MetricsToRegister[loop]
        adds == c \notin registered /\ ~Conflicts(c) IN
    /\ loop # 0
    /\ registered' = IF c \in registered THEN registered \ {c}
                     ELSE IF Conflicts(c) THEN registered
                     ELSE registered \cup {c}
    /\ loop' = IF loop = Len(MetricsToRegister) THEN 0 ELSE loop + 1
    /\ serving' = (serving \/ loop = Len(MetricsToRegister))
    /\ syncCalls' = IF adds /\ c = "controllerSyncCallCount"
                    THEN [x \in Controllers |-> 0] ELSE syncCalls
    /\ syncErrors' = IF adds /\ c = "controllerSyncErrorCount"
                     THEN [x \in Controllers |-> 0] ELSE syncErrors
    /\ UNCHANGED <<calls, now, scraped>>

(***************************************************************************)
(* One iteration of the loop.  Unregister(metric) removes the collector   *)
(* and returns true if it was registered; the code then logs "already     *)
(* registered; skipping" and does not register it again.  Otherwise       *)
(* Register either fails (logged) or adds the collector.                  *)
(***************************************************************************)
RegisterMetric ==
    LET c == MetricsToRegister[loop] IN
    /\ loop # 0
    /\ registered' = IF c \in registered THEN registered \ {c}
                     ELSE IF Conflicts(c) THEN registered
                     ELSE registered \cup {c}
    /\ loop' = IF loop = Len(MetricsToRegister) THEN 0 ELSE loop + 1
    /\ serving' = (serving \/ loop = Len(MetricsToRegister))
    /\ UNCHANGED <<calls, syncCalls, syncErrors, now, scraped>>

-----------------------------------------------------------------------------
(* Updates from the controllers and the clock.                            *)

IncrementSyncCallCount(x) ==
    /\ syncCalls[x] < MaxCount
    /\ syncCalls' = [syncCalls EXCEPT ![x] = @ + 1]
    /\ UNCHANGED <<registered, loop, calls, serving, syncErrors, now, scraped>>

IncrementSyncErrorCount(x) ==
    /\ syncErrors[x] < MaxCount
    /\ syncErrors' = [syncErrors EXCEPT ![x] = @ + 1]
    /\ UNCHANGED <<registered, loop, calls, serving, syncCalls, now, scraped>>

\* The wall clock moves forward, or is stepped back (NTP, manual set).
ClockSet ==
    /\ \E t \in 0..MaxTime \ {now} : now' = t
    /\ UNCHANGED <<registered, loop, calls, serving, syncCalls, syncErrors, scraped>>

-----------------------------------------------------------------------------
(* GET /metrics on any server built so far: every registered collector is *)
(* gathered; a scraper keeps the last sample of a series it no longer     *)
(* sees.                                                                   *)
Scrape ==
    /\ serving
    /\ scraped' = [c \in DOMAIN scraped \cup registered |->
                      IF c \in registered THEN Sample(c) ELSE scraped[c]]
    /\ UNCHANGED <<registered, loop, calls, serving, syncCalls, syncErrors, now>>

Next ==
    \/ NewServerStart
    \/ RegisterMetric
    \/ \E x \in Controllers : IncrementSyncCallCount(x) \/ IncrementSyncErrorCount(x)
    \/ ClockSet
    \/ Scrape

Spec == Init /\ [][Next]_vars

-----------------------------------------------------------------------------
(* Properties.                                                             *)

(***************************************************************************)
(* Section 8 of the spec: after NewServer returns, however often it was   *)
(* called, every metric is registered exactly once.                        *)
(***************************************************************************)
RegisteredAfterNewServer == loop = 0 /\ calls > 0 => registered = Collectors

(***************************************************************************)
(* When no NewServer call is in its loop, m.registry holds every metric   *)
(* or none: the loop treats every collector alike, so no call leaves a    *)
(* part of the catalogue registered.                                       *)
(***************************************************************************)
RegistryAllOrNone == loop = 0 => registered \in {{}, Collectors}

(***************************************************************************)
(* The strengthening of RegistryAllOrNone used in its proof.  An odd call  *)
(* of NewServer finds the registry empty and registers the collectors one *)
(* by one; an even call finds them all and unregisters them one by one.   *)
(* Prefix(n) is what a call has handled when its loop is at index n.      *)
(***************************************************************************)
Prefix(n) == {MetricsToRegister[i] : i \in 1..(n - 1)}

RegistryInv ==
    /\ TypeOK
    /\ loop = 0 => registered = IF calls % 2 = 1 THEN Collectors ELSE {}
    /\ loop # 0 => registered = IF calls % 2 = 1 THEN Prefix(loop)
                                ELSE Collectors \ Prefix(loop)

(***************************************************************************)
(* The invariant behind VecCountersMonotone: the last sample a scraper    *)
(* holds of a sync counter never exceeds the counter's current value,     *)
(* since the counters only grow and a registered collector is gathered   *)
(* with its current children.                                              *)
(***************************************************************************)
ScrapedBelow ==
    \A c \in VecCounters \cap DOMAIN scraped :
        /\ scraped[c] \in [Controllers -> Nat]
        /\ \A x \in Controllers : scraped[c][x] <= Sample(c)[x]

(***************************************************************************)
(* A scraper never sees a sample of a counter vector go down, also when   *)
(* the vector is unregistered by one NewServer call and registered again  *)
(* by a later one.                                                         *)
(***************************************************************************)
VecCountersMonotone ==
    [][\A c \in VecCounters \cap DOMAIN scraped :
          \A x \in Controllers : scraped[c][x] <= scraped'[c][x]]_scraped

(***************************************************************************)
(* The same for clock_time_seconds, a counter derived from the clock.     *)
(***************************************************************************)
ClockCounterMonotone ==
    [][\A c \in ClockCounters \cap DOMAIN scraped : scraped[c] <= scraped'[c]]_scraped

=============================================================================
