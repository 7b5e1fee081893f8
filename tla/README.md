# TLA+ verification of the cert-manager metrics package

This directory models the metrics package of this repository: `src/unnamed/part_002` (the `Metrics`
object: `New`, `NewServer` and the increment functions) and `src/unnamed/part_001` (three
historical files of the same package: the older `Increment/DecrementCertificateRequestCount`, a
non-resetting recount, and the reset-then-repopulate recount). The modules are checked with TLC on
small instances. The main invariants of the recount path, the registry, the incremental gauge and
the webhook configuration round trip are proved with TLAPS.
It also models the webhook configuration format of `src/pkg/apis/config/webhook/v1alpha1/types.go`.

## 1. Inventory

### Components and their state

| Component | Source | State | Operations |
|---|---|---|---|
| Instrument set | part_002 `New` (70-215) | eleven collectors, each with a name, a kind and label keys; the values of their children | construction only |
| Registry | part_002 `NewServer` (218-270), the `prometheus.Registry` | the set of collectors in `m.registry` | `Unregister`, `Register` (fails if another collector has the same name), once per collector, in a loop |
| Sync counters | part_002 (272-280) | `controller_sync_call_count{controller}`, `controller_sync_error_count{controller}` | `IncrementSyncCallCount`, `IncrementSyncErrorCount` |
| Clock metrics | part_002 (73-101) | none of their own: they sample the injected `clock.Clock` | read on each scrape |
| Incremental request gauge | part_002 (282-290), part_001 (19-26) | `m.certificateRequestCount{name,namespace,issuer_*}` | `IncrementCurrentCertificateRequest`, `DecrementCurrentCertificateRequest` |
| Recount of requests | part_001 (55-97 older, 124-154 current) | package-level `currentCertificateRequestCount` (a promauto `CounterVec` in the default registry) | `HandleCertificateRequestEvent` = `getCurrentCertificateRequests` then `UpdateCurrentCertificateRequestCount` (`Reset`, then `Inc` per listed request; the older file has no `Reset`) |
| Exposition server | part_002 (258-269) | none | `GET /metrics` gathers `m.registry` |
| Webhook config types | `pkg/apis/config/webhook/v1alpha1/types.go` | a configuration struct, its json tags and documented defaults | marshal to a file, load (unmarshal into the zero value, then default) |
| Fork README | part_000 | documentation | none |

### How they interact

Controllers call the increment functions concurrently. An event source calls
`HandleCertificateRequestEvent` on every create, update or delete of a CertificateRequest; the
handler lists all requests from the API server and rebuilds the recount vector. `NewServer`
registers the collectors into `m.registry` and builds an HTTP server whose handler gathers
`m.registry` on each scrape. `NewServer` may be called again on the same `Metrics` object: all
servers share one registry. Two things are easy to miss. The recount writes to a different
collector (`currentCertificateRequestCount`, registered by promauto in the *default* registry) than
the one the server exposes (`m.certificateRequestCount` in `m.registry`). The clock metric
`clock_time_seconds` is a counter whose value is the wall clock.

### What is hard

* Interleavings. A scrape or a second recount can run between `Reset` and the `Inc` loop of a
  recount. A scrape can run during a second `NewServer` loop.
* Stale data. The list is used after the API server may have changed.
* Failure. A failed list is skipped with no retry, and the vector keeps the last successful list
  until another event arrives.
* Protocol sequences. Repeated `NewServer` calls toggle registration, because `Unregister` is
  used as a membership test.
* Numeric edges. A counter fed by a clock that can go back. A gauge decremented below zero after a
  restart.

### What makes each component correct

* Registry: after `NewServer` returns, every metric is registered exactly once (spec 4.2, 8).
* Recount: no request is counted twice; once events are drained, the count is exactly the last
  successful list, which is the live set when the last list succeeded; a scrape sees the old or the new vector, never a mix (spec 5).
* Counters: a scraper never sees a counter decrease.
* Incremental gauge: the value per tuple is increments minus decrements. Together with the recount,
  the exposed gauge should match reality after a recount (spec 8, "recompute wins").

The hazards, each at its line, are listed in `PROJECT.json`.

## 2. Modules

| Module | Models | Notes |
|---|---|---|
| `CRRecount` | recount, reset variant (part_001 124-154) | the core; proved about |
| `CRCount` | the atomic recount the spec promises | abstract specification; `CRRecount!Atomic` instantiates it |
| `CRRecountNoReset` | recount, older variant (part_001 55-97) | extends `CRRecount`, replaces `ResetCount` by `StartLoop` |
| `MetricsServer` | `New`, `NewServer`, sync counters, clock metrics, scrapes (part_002) | |
| `CRCountPaths` | incremental gauge (part_002 282-290) composed with an atomic recount (part_001 124-154), lost and duplicated observations, restarts | |
| `WebhookConfig` | the structs of `types.go`, encoding/json on them, the documented defaults | |
| `CRRecountProofs` | TLAPS proofs about `CRRecount` | |
| `MetricsServerProofs` | TLAPS proofs about `MetricsServer` | |
| `CRCountPathsProofs` | TLAPS proofs about `CRCountPaths` | |
| `WebhookConfigProofs` | TLAPS proofs about `WebhookConfig` | |
| `MC_*` | TLC instances | |

### CRRecount

Variables: `live` is the requests in the API server. `changes` counts API changes (bounded).
`queued` is events not yet handled. Per worker `h`: `pc[h]`, the listed slice `crs[h]`, and the
part of it the range loop has not reached, `todo[h]`. `vec` is the recount vector; a child exists
only after an `Inc`, so 0 means "no child". `lastOk` records whether the most recent handler call
listed successfully.

Actions: `ListCertificateRequests` / `ListFailed` are the two outcomes of
`getCurrentCertificateRequests` inside `HandleCertificateRequestEvent`; the error path logs and
returns. `ResetCount` is `Reset()`. `IncCount` is one loop iteration. `UpdateDone` is the return.
The environment (`CreateCR`, `UpdateCR`, `DeleteCR`) stands for the API server and the event
source; each change queues one event. The process starts with an empty vector. Requests may
already exist at that point, and the informer's initial list queues one event per request.

Fairness: weak fairness on each worker's `Handle(h)`. An informer delivers every event, and a
worker with work runs. There is no fairness on list success: an error is possible on every call,
and the code does not retry.

### MetricsServer

Variables: `registered`; `loop`, the index in `metricsToRegister` of a running `NewServer` (0 if
none); `calls`; `serving` (some server was built); the children of the two sync counters; `now`, the
injected clock; `scraped`, the last sample a scraper saw of each series. A scraper keeps the last
sample of a series that disappears. `RegisterMetric` is one loop iteration: if `Unregister`
returns true the collector is removed and skipped; otherwise `Register` adds it, unless another
registered collector has the same fully qualified name (`Conflicts`, computed from the names `New`
gives). The last iteration also builds the server. `NewServerStart` requires `loop = 0`: the model
takes `NewServer` calls to be sequential. The code has no lock, and two overlapping calls would race
on `m.registry`; that case is not modelled. `Scrape` gathers all registered collectors.
`ClockSet` sets the clock to any other reading. There is no fairness: only safety is checked.

### CRCountPaths

Variables: `live` and `changes` as in `CRRecount`. `pending` is the sequence of add/delete
observations not yet handled by the controller (an update queues none). `gauge` holds the children
of `m.certificateRequestCount`: its `DOMAIN` is the set of children, so "no child" and "a child at 0"
differ. `handlers` counts pending `HandleCertificateRequestEvent` calls. `vec` is the promauto
vector the recount writes. `recounted` says the last recount listed the current live set. `clean`
says no observation was lost or duplicated since the process started. `restarts`, `lost` and `dups`
count the faults.

Actions: `IncrementCurrentCertificateRequest` and `DecrementCurrentCertificateRequest` go through
`AddToChild`, which is `WithLabelValues` (create the child at 0 if it is absent) followed by
`Inc`/`Dec`. `Observe` applies the oldest observation. `LoseObservation` and `DuplicateObservation`
are the faults of spec 4.3. `HandleCertificateRequestEvent` is the whole recount in one step, either
a successful list or a failed one; `CRRecount` has its inner steps. `Restart` empties both vectors,
and the informer's re-list (`InitialList`) queues one add per existing request.

### WebhookConfig

A configuration is a record with the json names as fields, and a JSON object is a function from the
emitted keys. A nil pointer, slice or map is `Nil`. `Encode*` follow the tags. Each builds
`Object(fields, empty)`, the object of the struct's fields minus those whose `omitempty` test holds
(`ConfigFields` holds the top-level fields). `omitempty` drops
`""`, `false`, `Nil` and empty lists. `tlsConfig`, `filesystem`, `dynamic` and `enablePprof` have no
`omitempty` and are always written. `TypeMeta` is inlined. `Decode*` start from the zero value,
and a missing key keeps it. `SetDefaults` applies the defaults the field comments document. The
writer sets up to `MaxEdits` fields (`SetField`), then `Marshal` writes the file and `Load` reads
it. Each value domain holds the zero value and one other value; the ports hold `Nil`, 0 and a port
number, because the comments give 0 a meaning of its own.

## 3. Runs

| Run | Expect | Checks | Bounds |
|---|---|---|---|
| `recount_single_worker` | pass | `TypeOK`, `NoDoubleCount`, `Settled`, `EventuallyConsistent` | 2 label tuples, 1 worker, 4 API changes; 2280 states |
| `recount_concurrent_workers` | violation | `NoDoubleCount` | 2 workers |
| `recount_not_atomic` | violation | `RecountAtomic` (refinement of `CRCount`) | 1 worker |
| `recount_without_reset` | violation | `NoDoubleCount` on the older variant | 1 worker |
| `registry_server` | pass | `TypeOK`, `RegistryAllOrNone`, `VecCountersMonotone` | 1 controller, 3 `NewServer` calls, counters up to 2, clock 0..2; 165k states |
| `registry_reregister` | violation | `RegisteredAfterNewServer` | same |
| `registry_clock_counter` | violation | `ClockCounterMonotone` | same |
| `paths` | pass | `TypeOK`, `IncrementalSettled` | 2 label tuples, 3 API changes, 1 restart, 1 lost and 1 duplicated observation; 90582 states |
| `paths_negative` | violation | `GaugeNonNegative` | same |
| `paths_recompute` | violation | `RecomputeWins` | same |
| `webhook_config` | pass | `LoadedAsWritten` | 3 field edits over every field of the four structs; 5136 states |

Why the bounds are enough:
* Two label tuples let a recount be partial (one counted, one not).
* Four changes cover a change between a list and its loop, and a change after the last list.
* Three `NewServer` calls cover register, unregister and re-register.
* Two increments per counter and three clock readings let a sample rise and fall.
* In `paths`, three changes let a request be created and deleted with a second request alive. One
  fault of each kind, and one restart after them, reach each repair and each damage.
* In `webhook_config`, three edits can set both ports and a nested field before the file is written.

`CHECK_DEADLOCK FALSE` is set in every cfg. The real system does stop: with no events, no
`NewServer` call and no scrape, the controller sits idle. The bounds make that stop final in the
model.

What the violations show (details in `PROJECT.json` "findings"):

* **registry_reregister** (code bug). The second `NewServer` call removes every metric from
  `m.registry` and registers none. `Unregister` is used as a membership test, and it removes the
  collector. The trace ends with `calls = 2`, `registered = {}`.
* **registry_clock_counter**. `clock_time_seconds` is a counter and decreases when the clock is set
  back. The code's own comment acknowledges this.
* **recount_not_atomic**. After `Reset` and one `Inc` of a two-request list, a scrape sees one
  request. Spec section 5 forbids this partial view.
* **recount_concurrent_workers**. Reset, Reset, Inc, Inc counts a request twice. This happens
  only if the handler is called concurrently, which the spec does not rule out.
* **recount_without_reset**. The older variant counts a request once per event.
* **paths_negative**. The add of a request is lost and its delete is observed, so the gauge whose
  help text says "the current number of certificate requests" shows -1.
* **paths_recompute** (code bug). The trace has three states. Request `k1` exists at the start and
  its add is queued. The add is then lost. A successful recount then lists `k1` and sets the
  promauto vector, and the exposed gauge stays empty. The recount writes the wrong collector (part_001:152), so
  "recompute wins" (spec 8) never holds for the exposed metric.

`paths` passes. With no loss and no duplicate since the process started, the incremental gauge is
exact once the controller has caught up. A restart repairs earlier damage, because the informer
lists again.

Every property of a passing run has a mutant in `PROJECT.json`. Each mutant is a plausible bug in
the mapped code that TLC catches:
* `Dec()` instead of `Inc()` breaks `TypeOK`.
* A missing `Reset` breaks `NoDoubleCount`.
* `Reset()` moved ahead of the list, so that a failed list empties the vector, breaks `Settled`.
  The older form of `Settled`, guarded by `lastOk`, missed this.
* An event that is never consumed breaks `EventuallyConsistent`.
* A loop running one index past the end breaks `TypeOK`.
* A loop stopping one short breaks `RegistryAllOrNone`.
* Registering fresh collectors, as "replace the prior instance" would, breaks
  `VecCountersMonotone`.
* An observation handled but not dequeued breaks `TypeOK` in `CRCountPaths`. The gauge exceeds its
  bound.
* `Inc()` in place of `Dec()` breaks `IncrementalSettled`.
* Ports as plain `int32` with `omitempty` break `LoadedAsWritten`. A port of 0 is loaded as the
  default.

## 4. Proofs

`CRRecountProofs` (tlapm, all obligations proved):

* `TypeCorrect`: `Spec => []TypeOK`. It holds for every finite `Keys`, non-empty `Handlers` and
  natural `MaxChanges` (assumptions `KeysAssumption`, `HandlersAssumption`,
  `MaxChangesAssumption`). It uses `FS_Subset` and `FS_CardinalityType` for the initial
  `queued = Cardinality(live)`.
* `SettledInvariant`: `Handlers = {h0} => (Spec => []Settled)`. `Settled` says that once events are
  drained the vector is exactly the last successful list (`crs[h]`), and that this list is the live
  set if the last call succeeded. A failed list returns before `Reset`, so it leaves the vector
  stale but whole. The proof goes through the inductive invariant
  `RecountInv == TypeOK /\ \A h : HandlerInv(h) /\ Settled`. TLC checked `RecountInv` on the
  single-worker instance before the proof. `HandlerInv(h)` says three things:
  * an idle worker's last list is what the vector counts;
  * inside the loop, `vec` is exactly the indicator of the requests already counted
    (`crs[h] \ todo[h]`, with `todo[h] \subseteq crs[h]`);
  * a worker past its list with no event queued since holds the live set.

  `Settled` alone is not inductive. At `UpdateDone` the vector must equal the list, and the list
  must still be the live set. The first conjunct gives the former. The second gives the latter,
  because every API change queues an event. The proof has one case per action. `IncCount` is the
  only case that needs function extensionality.

* `NoDoubleCountInvariant`: `Handlers = {h0} => (Spec => []NoDoubleCount)`. `NoDoubleCount` is
  not inductive alone. An `Inc` must reach a child that is still 0, and `HandlerInv` supplies that:
  inside the loop the vector is the indicator of the part already counted, and the tuple being
  counted is not in that part. The proof conjoins `RecountInv` and reuses `RecountInvStep`.

`MetricsServerProofs` (tlapm, all obligations proved), for every finite `Controllers` and natural
bounds (`ControllersAssumption`, `BoundsAssumption`):

* `TypeCorrect`: `Spec => []TypeOK`.
* `RegistryAllOrNoneInvariant`: `Spec => []RegistryAllOrNone`. The inductive invariant is
  `RegistryInv`. Outside a loop, `registered` is `Collectors` after an odd number of `NewServer`
  calls and `{}` after an even number. Inside a loop at index `loop`, `registered` is
  `Prefix(loop)` (odd) or `Collectors \ Prefix(loop)` (even), where `Prefix(n)` holds the first
  `n - 1` entries of `metricsToRegister`. Each `RegisterMetric` step adds or removes exactly the next
  entry. The lemma `Catalogue` (the eleven entries and their names are distinct) shows that
  `Register` never meets a conflict. Before the proof, TLC checked `RegistryInv` as an invariant of the `registry_server` instance.
* `VecCountersMonotoneProperty`: `Spec => VecCountersMonotone`. It rests on the invariant
  `ScrapedBelow`: the last sample a scraper saw of each sync counter series is at most the
  counter's current value. Counters only grow, and the registry only hides or shows the same
  collector objects. Before the proof, TLC checked `ScrapedBelow` the same way.

`CRCountPathsProofs` (tlapm, all obligations proved), for every finite `Keys` and natural bounds:

* `TypeCorrect`: `Spec => []TypeOK`. `TypeOK` bounds every child gauge by `GaugeBound`, and that
  needs a bound on the queue. The inductive invariant adds `QueueBound`, which bounds `Len(pending)`
  and each `gauge[k] +/- Len(pending)` by `Queued`. `Queued` counts the changes, the duplicates and
  one initial list per start. An observation handled moves one child by one and leaves the queue.
  A change, a duplicate or a re-list adds to both sides of the bound. `GaugeBound` is
  `MaxChanges + (MaxRestarts + 1) * Cardinality(Keys) + MaxDup`. The first start's list counts too,
  which an earlier bound without the `+ 1` missed. Lemmas: `InitialListFacts`, which is what
  `SetToSeq` gives the re-list, and one bound lemma per action.
* `IncrementalSettledInvariant`: `Spec => []IncrementalSettled`. The property is not inductive: a
  drained queue must leave each gauge at 0 or 1, so the queue itself must be constrained. The
  inductive invariant `AltInv` says this. While no observation is lost or duplicated, each tuple's
  queued observations alternate add/delete. The first is an add exactly when the gauge is 0. The
  last is an add exactly when the tuple is live. With no observation queued, the gauge is 1 exactly
  when the tuple is live. Lemmas `AltAppend` (a change appends the opposite of the last), `AltTail`
  (handling the head moves the gauge by one), and `AltInit` (the re-list queues one add per live
  tuple onto an empty gauge). Before the proofs, TLC checked `PathsInv` (`TypeOK`, `QueueBound`, and
  the alternation) as an invariant of the `paths` instance: 90582 distinct states, no error.

`WebhookConfigProofs` (tlapm, all obligations proved):

* `LoadedAsWrittenInvariant`: `Spec => []LoadedAsWritten`. This holds for every configuration whose
  fields are any values of their Go types, not only the run's two-value domains. Strings are any
  valid UTF-8 text. Invalid UTF-8, which `json.Marshal` replaces with U+FFFD, is not modelled. Ports are `Nil` or any integer, 0 included. Lists are any sequence. Feature gates are any
  map. The inductive invariant `WInv` says three things: `cfg` has those types, the file is
  `EncodeWebhookConfiguration(cfg)` (edits stop once the file exists), and `loaded` is what was
  decoded from the file and defaulted. TLC checked its state part, `StoredAsEncoded`, on the
  `webhook_config` instance first. The argument is the round trip `LoadRoundTrip`. Unmarshalling a
  marshalled configuration gives every scalar field back, because each `omitempty` test is exactly
  "equals the zero value the decoder starts from". The `*int32` ports are tested against `Nil`, not
  0, and that is why a port of 0 survives. A list comes back as nil when it was empty, and
  `Normalize` identifies nil with empty. It is proved struct by struct: `FilesystemRoundTrip`,
  `DynamicRoundTrip`, `TLSRoundTrip`, `ConfigRoundTrip`.

  Two presentation choices serve the provers. The encoders are written with `Object(fields, empty)`
  rather than TLC's `:>`/`@@`, which tlapm cannot expand. String fields are typed by `Str`, which is
  `STRING` plus the literals an edit sets, because the provers do not know that a literal is in
  `STRING`.

Only TLC checks:
* The liveness property `EventuallyConsistent` (TLAPS does not handle liveness here).
* The refinement and the violations. Among them are `GaugeNonNegative` and `RecomputeWins` of
  `CRCountPaths`: they are false, and TLC's counterexamples are the result.

## 5. Not modelled, and the plan

Not modelled:
* The text format, timeouts and header limits of the server.
* The values of the expiry, renewal, ready and ACME/Venafi metrics (no code in `src/` updates them).
* The `Logging` field of `WebhookConfiguration`, a `logsapi.LoggingConfiguration` defined in
  another module. The loading and defaulting code of the webhook is not under `src/`, so `Load` and
  `SetDefaults` follow the field comments.
* The older `Increment/DecrementCertificateRequestCount` of part_001 (19-26). They act like the
  current functions on their own vector.
* The fork README.

Plan for the next sittings:

1. A refinement that holds. `CRRecount` with one worker implements a weaker abstract
   `CRCountStale`, in which a recount publishes the live set of some instant since its event. TLAPS
   proves init and step simulation.
2. `CRCountPaths` with the recount split into its steps (as in `CRRecount`) and a scrape that
   gathers `m.registry`, which gives the composition with `MetricsServer`.
