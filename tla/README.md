# Verification of qubership-ratelimit

TLA+ specifications, TLC models and TLAPS proofs kept beside the code of
qubership-ratelimit, an Envoy rate limit service (RLS) with a Kubernetes
operator. The modules are translated from the source; `PROJECT.json` maps every
definition to the lines it models, lists the hazards the properties are aimed
at, and gives for every property a plausible mistake in the code that TLC
catches.

    cd tla
    tlc -config MCConfigWriter.cfg MCConfigWriter     # any run of section 4
    tlapm QuotaProofs.tla                             # the proofs of section 6

## 1. The system and its parts

| Part | Source | State | Operations |
|---|---|---|---|
| Quota algorithms | `engine/algo` | none | `EmissionMicros`, `TauMicros`, `Check` |
| Counter store, in process | `engine/store/memory` | a map of entries | `Decide`, `Peek`, `Reset`, `Scan` |
| Counter store, Redis | `engine/store/redis` | keys with a time to live | the decision script, `Reset` (a pipeline of DEL), `Scan` |
| Engine | `engine/engine.go`, `engine/match` | a snapshot | `Decide`, `Peek`: match, count, aggregate |
| Identity and token cache | `engine/identity`, `engine/tokencache.go` | a two-generation cache | extraction of keys |
| Policy compiler | `engine/compile`, `engine/model`, `internal/convert` | none | a spec to a snapshot |
| Check handler | `service/internal/rls` | none between checks | `ShouldRateLimit` |
| Replica configuration | `service/internal/config`, `service/internal/store` | engines, last good, report | watch, read, apply, refuse |
| Management API | `service/internal/management` | none between requests | listing, reset, bulk reset, simulate, applicability |
| Command records | `service/internal/records` | tokens, leases, outcomes in Redis | `Accept`, `Batch`, `Commit`, `Finalize`, `Reset` |
| Policy publication | `operator/internal/policy`, `operator/internal/config` | the ConfigMap | compile, fit, save |
| Policy status | `operator/internal/controller` | conditions, probe rounds | `Reconcile`, `Observe`, `judge` |
| Wiring | `service/internal/app`, `settings`, `redisconn`, `m2m`, `internal/metrics` | settings, connections, series | start, reload, stop |

The operator's leader compiles the policies of the namespace into one ConfigMap
and probes which generation every replica has applied. A replica mounts the
ConfigMap, compiles it again and swaps engines under the traffic. Every check
counts in Redis through one atomic script. The management API reads and deletes
the same counters, and keeps the records of its commands in the same Redis.

What makes it hard: replicas share counters and nothing else; a lost reply
leaves a charge behind; limits are tuned while counters live; a sweep walks a
keyspace other replicas write, and its walker may die between any two steps; a
listing follows cursors over a table that Redis resizes under it; calls share a
token cache whose generations rotate between their steps; the ConfigMap is read
file by file while the kubelet replaces it; the operator's informer lags, and a
dead leader's write may still arrive; a status is judged by answers that replicas
gave one after another, while the policy moved on.

## 2. The modules

### Counting

* `Algorithms`: `EmissionMicros` (with the rounding of `gcra.go`), `TauMicros`,
  and the admission of a window, as operators.
* `CounterTypes`: keys, windows, calls of several buckets, verdicts, and
  `Admitted`, the rule that only enforcing buckets refuse.
* `QuotaContract`: what a store promises (`store.go`). `debt[k]` is what is
  owed on a key: microseconds above now for GCRA, hits in the window for a fixed
  one. `Decide` judges every bucket, charges the passing buckets when no enforcing
  bucket refuses, and answers; `Peek` only answers; `Fail` answers an error, and
  a `Decide` whose reply is lost is one that charged and answered an error;
  `Reset` forgets; `Tick` lets time pass.
* `QuotaLedger`: the contract with history variables: what was charged on a
  watched key since an arbitrary instant. Its properties are the promise to the
  owner of a quota.
* `RedisStore`: `script.lua` line by line in the same order (first pass over the
  buckets, admission, second pass with `SET PX`), Redis' millisecond expiry, the
  reset as a pipeline whose deletions interleave with decisions.
* `MemoryStore`: `memory.go`, with Go's truncating division, stale entries
  swept on the way. Both refine `QuotaContract` (`INSTANCE ... WITH debt <-`).

A key carries its algorithm and period (`engine/key`), so tuning a limit changes
rate and burst but not the kind of state: `Limits[k]` is the set of limits a key
may have over its life, and every call chooses one of them.

### Deciding

* `Engine`: `Buckets` of the matched rules, `Stricter`/`StrictestIndex`,
  `Aggregate`, `EffectiveWindow`, `RuleOutcomes` and `DecisionOf`, over the
  verdicts of the contract. Which rules match is the constant `Matches`; what the
  matcher makes of a request is the next section.
* `RateCheck`: `ShouldRateLimit` for several callers over one store:
  validation, exemption, one decision per descriptor with other callers coming
  between, failure before and after a refusal, the response. A route that reads a
  cost from the query string charges that instead of the stated one (`BucketsOf`).

### From a policy to its buckets

* `PolicyModel`: the spec of the resource, the engine's model, and the conversion
  between them. A path is the sequence of its segments, a claim the sequence of
  its names, a token a record of its claims.
* `RuleCompile`: `Compile`: what is refused and for which reason, the defaults, the
  extraction plan, the templates, and the worst case of buckets per decision. The
  order, number and wording of problems are left out.
* `RuleMatch`: the target phase (exact, prefix and template routes in their order
  of preference, methods, captures) and the rule phase (predicates, first match,
  shadow rules, replacements, axes, the cost of the query string).
* `Identity`: `Extract` and `Explicit`: claim paths, fallbacks, types,
  normalization, the bounds on values, and what is skipped; and the token cache, two
  generations with their budget of entries and bytes, promotion, rotation, and entries
  that are too large to keep.
* `Applicability`: the verdicts always, never and conditional of the rules endpoint
  over a partial identity, the preemption of rules by others, the rendering of a
  rule set and its version.
* `DecisionPath`: the composition. Generations arrive and are served or refused,
  callers of the gateway and of the simulation run on the engine they loaded and
  come back to its cache in a second step, and the rules endpoint answers. The
  reference the decisions are checked against, `Authored`, reads the spec as a user
  does, without plan, compiled routes or cache.

### The management API's listing

* `CounterKeys`: the key of a counter, character by character where a character is
  reserved, its prefixes, and `parseCounterKey`.
* `CounterListing`: `listCounters` as the client sees it. `Scan` is one step of the
  page walk, over the sorted keys of the in-process store or over a Redis table with
  its reverse binary cursor; `Judge` is the read of the page's verdicts. Between them
  counters come, go and change, the table is resized, the slot moves, the rule set
  is swapped, calls and answers are lost and cursors expire.

### The management API's resets

* `CommandRecords`: the records, the lease, the confirmation tokens, and one
  operator per Lua script of `records/redis.go`.
* `BulkReset`: `handleBulkReset` from the lookup to the answer, one step per
  call it makes (a batch is the set of its keys and their number, which differ when the
  walk met a key twice): record, standing command, token, acceptance, walk, filter,
  batch, mint, commit, failure, read-back, finalisation, replay. A caller may
  crash anywhere, a call may fail before or after it ran, or run after its caller
  gave up. What the handler refuses before it looks for the record is in `Begin`: a
  rule set version lets through the selections `Admits` gives it, and none when the
  domain left. `Retire` is the last replica of a version moving on. Fencing tokens are
  reused once no state refers to them.
* `AddressedReset`: `handleReset` and `runReset` with the key's record, judged against
  the rule set the replica enforces. Version 0 is a domain that left, which is
  answered before the record is read; `Lowering` are the versions that normalize an
  axis, under which a new command in mixed case is refused.

### Configuration

* `PolicyCompile`: the pure part of the operator: `CompileDomain`, `Compile`,
  `Render`, `Fit`. A spec is a model value with a size, that of its payload and its
  entry of the manifest; the frame of the manifest, which every ConfigMap has, is
  taken off the limit. A build compiles some specs, and does not define the fields of
  others.
* `ConfigWriter`: `Reconcile` of the writer in the steps other actors come
  between (list from the informer, `Store.Load` with compile and fit, the read of
  `Save`, its write), over policies that are created, edited, deleted and created
  again, informers that lag or read through a watch of the old schema, a lease
  that changes hands, late writes of a dead process, lost requests and replies,
  and hands on the ConfigMap. A resourceVersion is what it decides: nothing wrote
  the object since the sender read it.
* `ReplicaConfig`: the watcher's poll, `Read` file by file while the kubelet
  swaps the directory, refusals, `Apply` with the last good engine of a domain,
  the report, restarts. A manifest may carry a spec under the generation another one
  had in an earlier manifest, which a pruned read of the operator leads to.
* `PolicyStatus`: the operator's status of one policy: `Reconcile` from the read of
  the object over the compilation and the asking of one replica after another to the
  write, with the round of answers that all domains share, the clock of propagation,
  the conditions, the Warning, the published series, requeues and takeover. Around it
  the policy is edited, deleted and created again, the writer saves, replicas apply,
  refuse, fall back, join, leave and fall silent, and the list of the endpoints may
  fail, for this domain's pass or another's (`ListFails`). It uses `CompileDomain` of
  `PolicyCompile`, as the code does.

### Proofs

`QuotaProofs` (ledger, rounding, engine and check handler), `StoreProofs`, `AddressedProofs`,
`BulkLemmas` and `BulkProofs`, `ReplicaProofs`, `WriterProofs`, `StatusProofs`: section 6.

## 3. Conventions

Time is in the algorithm's unit and only goes forward (Redis' clock is taken as
monotonic). `StartTime`/`MaxTime`, `MaxFencings`, `MaxFaults` and the fields of a
`world` are bounds. A world is a scenario: a record, chosen in the initial
state, of what may happen and how often, so that one run covers scenarios whose
product would be out of reach. Definitions under "A mutant" are mistakes used to
test the properties and are not part of the model.

## 4. The runs

| Run | Configuration | What it checks |
|---|---|---|
| `quota` | `MCEngine.cfg` | contract, ledger and engine: rates and quotas over every interval, exact hints |
| `stores` | `MCStores.cfg` | both stores implement the contract |
| `decision_path` | `MCDecisionPath.cfg` | policies compiled, matched, cached and annotated against what they say |
| `rate_check` | `MCRateCheck.cfg` | checks of several descriptors, interleaved |
| `listing` | `MCCounterListing.cfg` | complete, bounded listings that end, and keys that read back |
| `addressed_reset` | `MCAddressedReset.cfg` | addressed reset with retries and faults |
| `addressed_replay` | `MCAddressedReplay.cfg` | violated: section 7 |
| `bulk_reset` | `MCBulkReset.cfg` | seven worlds of the bulk reset, safety |
| `bulk_recovery` | `MCBulkRecovery.cfg` | an accepted command gets its outcome |
| `replica_config` | `MCReplicaConfig.cfg` | reading and applying the ConfigMap |
| `config_writer` | `MCConfigWriter.cfg` | four worlds of the writer, safety and convergence |
| `policy_status` | `MCPolicyStatus.cfg` | ten worlds of the status of a policy, safety and settling |

`MCReplicaDocs.cfg`, `MCBulkLate.cfg`, `MCConfigWriterSkew.cfg` and
`MCConfigWriterLate.cfg` reproduce the other counterexamples of section 7. A property that is a
conjunction has named parts, each with its own comment in the module.

What the properties say:

* **quota.** `RateHeld`, `QuotaHeld`: over any interval a key is charged at most
  the loosest rate plus the deepest burst it was given, or the largest quota for
  every calendar window touched, with limits tuned in between, shadow and
  enforcing calls mixed and replies lost. `HintsExact` (`RetryExact`, `ResetExact`,
  `ExceedsIsForever`): the hints are the shortest waits, not merely sufficient
  ones. `DecisionExact` (`RetryAdmits`, `HeadersOrderFree`, `RulesAgree`) and
  `EffectiveExact`: what
  the engine tells a caller of several buckets: waiting `retry-after` admits,
  the order of rules does not matter, the outcomes of the rules agree with the
  decision, and the effective window is the exact time after which the bucket
  holds more than the remaining number it reports.
* **stores.** `ImplementsContract`, `MemoryImplements`: every step of a store is
  a step of the contract: verdict for verdict, charge for charge, including
  expiry and a reset that is not atomic.
* **rate_check.** `RefusalStands`: once a descriptor is refused no later failure
  turns the answer into anything but a refusal, and an OK means every descriptor
  was admitted. `ChargeBounded`: what a check can charge a counter, over all of its
  descriptors, is bounded by `MaxHitsAddend` and what its routes read from the query
  string themselves.
* **decision_path.** `DecidesAsAuthored`: a decision counts a request under exactly
  the rules, windows, axes and cost its generation's spec prescribes for the
  identity it carries, whatever other calls and generations do to the cache.
  `StoreAccepts`: no decision of a compiled policy has more buckets than the bound
  computed at compile time, or one key twice. `CacheKeeps`: the cache keeps within
  its bounds and keeps the tokens in use. `VersionTells`: generations of one version
  and one plan decide alike. `AnnotationsHold`: always and never are true of every
  request that completes the question, and more knowledge never takes them back.
* **listing.** `CompleteListing`: a listing that ended has shown every counter that
  was to be shown all the while. `PageBounded`: page size, scan budget and step cap
  hold, on Redis but for the rest of the last slot. `ListingEnds`: following the
  cursors ends. `KeysTell`: keys and prefixes tell counters apart, whatever
  characters the names and identities have.
* **addressed_reset.** `ActsOnPinned`, `ResetOnce` (`BindsOnce`, `CountsAgree`),
  `RetryReplays`: a key acts once, on the rule set the caller pinned when it pins
  one, all answers count the same, and a retry that finds its domain enforced replays
  even when the rule set has moved on. A retry that finds no domain is answered "not
  found" (section 7).
* **bulk_reset, bulk_recovery.** `RunsOnce`: one key, one sweep; an execution is of the
  selection and the rule set version its preview looked at; and, where no minting runs
  late (`SingleUse`), one confirmation, one execution.
  `SweepsDoNotOverlap`: a batch runs only under the lease. `OneOutcome`
  (`OutcomeIsFinal`, `AnswersAgree`): one outcome, the same for everybody. `ProgressExact`,
  `SweepComplete`: the outcome discloses what the batches that ran had counted
  (in the worlds without late calls), and a completed sweep dealt with its whole
  selection. `Recovered`: every accepted command gets an
  outcome as long as its client retries and the rule sets enforced in the end let its
  selection through, whatever they refused on the way.
* **replica_config.** `NoTornSet`: what compiles of the manifest last applied is in
  force, spec, generation and UID together, however the directory changed under the
  read; a domain whose entry does not compile keeps its last good engine beside it. `ReportTells`: by `ReportHonest` the generation and UID a domain reports are those its
  spec was published under, and by `RefusalReported` a refusal is in the report
  exactly while it stands. `LastGoodKept`: a domain that enforces something and
  stays in the manifest goes on enforcing something while the process lives.
  `Converges`: every domain of a manifest that stays and that compiles here comes into
  force, also beside one that does not compile, and when all of them compile no
  refusal is left.
* **config_writer.** `FallbackKept`: a pass keeps the last-good entry of every
  policy it sees or replaces it by the latest generation, whatever else is in the
  namespace. `ServesItsAuthor`: what is in force was written for the object of
  that UID. `StatusAgrees`: compiling against what was just written gives the
  same verdicts, so the status reconciler, which recomputes them, agrees with the
  writer. `RoomIsMade`: a full namespace never blocks the write, except when a
  bundle reads differently under the generation it was saved for.
  `WriterConverges`: whatever happened, every generation the leader's build compiles
  comes into force and nothing of a deleted policy stays.
* **policy_status.** `StatusCoherent`: a status was judged of one object at one
  generation, although it rests on two reads of a moving cache. `FleetJudged`: Ready
  is written only when every endpoint enforced this generation of this very object
  within the probe interval, and a generation is first judged by a round taken after
  it existed. `NoFalseAlarm`: no page before the deadline of an unbroken propagation,
  no alert raised or cleared by a fleet that cannot be observed, no second Warning.
  `StatusSettles`: once the surroundings rest, the status and the series come to say
  what is true of them.

### Bounds, and why they are enough

* quota and stores: two or three keys of both algorithms, periods of a few time
  units, two limits per key of which one is tighter, costs from 0 to above the
  capacity, enough time for two windows and a refill. Rounding, expiry, window
  boundaries, a debt deeper than the new burst and a cost above the capacity all
  occur.
* decision_path: eleven worlds with one or two callers and one or two generations:
  pairs of routes of one block in either order, cascades of three rules with shadow
  rules, bypasses and replacements, caches of one, two and six tokens with a byte
  budget, a cache over a change of generation, costs of a query, pairs of versions,
  and policies the compiler refuses for one reason each. All operators of predicates
  and all kinds of claims occur.
* listing: four counters and one foreign key, tables of one to four slots, two
  masters, a scan budget and a step cap of three, so that a page can stop for each of
  its three reasons; two changes and one fault.
* policy_status: two replicas, since applied by some, by all and by none is what is
  told apart; a tick is half the probe interval, deadline and interval are two ticks;
  ages are capped where nothing tells them apart any more. Each world has one or two
  kinds of change. The list of endpoints fails with a fleet of one.
* rate_check: two callers, up to three descriptors, a store that fails at any
  call.
* addressed_reset: two callers, one key, the rule sets and the commands that
  `MCAddressedReset` names, the absent domain among them, two faults and late calls.
* bulk_reset: two callers, up to three keys, two counters, batches of at most
  two, so that a batch can be full or not; a walk meets a counter twice in worlds
  of one counter; one fault in the worlds that have faults. A filtered sweep of
  both counters that meets one of them again, with two faults, was run by hand
  and holds as well. Of the three rule set versions one lets every selection through,
  one all but the widest, and one is the domain that left. bulk_recovery: one counter
  and one fault, a replica that refuses every retry until it moves on.
* replica_config: seven manifests over two domains, four swaps, two faults.
* config_writer: two names, because the fit and the isolation of domains are
  about a pair; a limit that holds one large policy and a small one; up to four
  edits, which is a generation, a bad one, a deletion and a re-creation; one
  crash, fault or hand, in worlds of their own.

### Fairness

* `BFairSpec`: a call in progress goes on, the lease expires (Redis' time to
  live), and a client whose command has no outcome calls again. The last one is
  strong fairness, because callers may be busy again and again; it is the client's
  duty that the API documents, and `Recovered` is about what the service makes of
  it. A call may still crash at every step. Nothing makes a rule set give way: that those
  enforced in the end let the selection through is the premise of `Recovered`.
* `PSpec`: the watcher polls (`Run`'s ticker). Swaps and failures are not fair.
* `FairSpec` of `ConfigWriter`: the informer delivers, a watch is closed at some
  time and lists again, a free lease is taken, and the work queue hands requests
  to the single worker, which is what controller-runtime does. Edits, crashes,
  faults and hands are bounded and not fair.

* `GFairSpec`: the handler runs to its answer, and the client of a listing asks for
  the next page. `ListingEnds` counts being told to start over as an end. Changes and
  faults are bounded: a keyspace that grows faster than it is walked has no end.
* `SSpec`: informers deliver, the writer saves, and the single worker and the clock
  go on, the clock only when the worker is idle. Nothing makes a replica apply or
  answer: `StatusSettles` covers fleets that never do.

Deadlock is checked except in `config_writer`, where a settled namespace has nothing
to do, and in `decision_path`, where a world without callers ends with its last
generation.

## 5. What is model-checked only

* Liveness: `Recovered`, `Converges`, `WriterConverges`, `ListingEnds` and
  `StatusSettles`. The prover has no rule for fairness.
* The decision path and the listing: `DecidesAsAuthored`, `StoreAccepts`,
  `CacheKeeps`, `VersionTells`, `AnnotationsHold`, `CompleteListing`, `PageBounded`,
  `KeysTell`. They are about recursive definitions over paths, claims, templates,
  keys and reverse binary cursors; what such a definition returns for every input is
  an induction over data with the definition as its parameter, which the installed
  provers cannot instantiate.

Every other safety property of a run is a theorem of section 6. The inductive
invariants were checked by TLC on the run's instance before they were proved.

## 6. What is proved

The theorems hold for every value of the constants that the named assumptions allow;
these stand in the modules that declare the constants, and TLC evaluates them in every
run. None of them bounds a number of callers, keys, faults, edits or steps.

| Theorem | Statement | Assumptions |
|---|---|---|
| `RoundingErrsStrict` | rounding tightens a rate, by less than one part in `ExactEmissionFloor` | `AlgorithmConstants` |
| `LedgerTypes` | `LSpec => []LTypeOK` | `QuotaConstants` |
| `RateBound`, `QuotaBound` | `LSpec => []RateHeld`, `LSpec => []QuotaHeld` | `QuotaConstants` |
| `Hints` | `LSpec => []HintsExact` | `QuotaConstants` |
| `EffectiveHint`, `DecisionHint` | `LSpec => []EffectiveExact`, `LSpec => []DecisionExact` | and `EngineConstants` |
| `RefusalsStand`, `ChargesBounded` | `CSpec => []RefusalStands`, `CSpec => []ChargeBounded` | and `CheckConstants` |
| `RedisRefines`, `MemoryRefines` | each store implements `QuotaContract` | `QuotaConstants`, `MilliAssumption` |
| `PinnedReset`, `OneReset`, `CompletedReplays` | `ActsOnPinned`, `ResetOnce`, `RetryReplays` of `ASpec` | `AddressedConstants` |
| `KeysRunOnce`, `OutcomesExact`, `SweepsComplete`, `OutcomesFinal`, `SweepsApart` | `RunsOnce`, `ProgressExact`, `SweepComplete`, `OneOutcome`, `SweepsDoNotOverlap` of `BSpec` | `BulkConstants` |
| `SetsAreWhole`, `ReportIsHonest`, `EnginesKept` | `NoTornSet`, `ReportTells`, `LastGoodKept` of `PSpec` | `ManifestTypes` |
| `FallbackStays`, `AuthorServed`, `VerdictsAgree`, `RoomForAll` | `FallbackKept`, `ServesItsAuthor`, `StatusAgrees`, `RoomIsMade` of the writer | `WriterConstants` |
| `CoherentStatus`, `RoundsKnow`, `AlarmsHaveGround` | `StatusCoherent`, `FleetJudged`, `NoFalseAlarm` of `SSpec` | `StatusConstants` |

Two of them carry a condition that the code needs too (section 7): `ReportIsHonest`
assumes that no manifest is without bytes (`NoBlank`), and the single use of a
confirmation token inside `RunsOnce`, like `ProgressExact`, speaks of worlds in which no
call runs after its caller gave it up.

### The arguments

**The ledger** (`QuotaProofs`). `RateHeld` is not inductive: it bounds what was charged
since a moment, and a step can only be bounded if one knows how much of that is still
owed. `RateInv` adds it: what was charged since the watched instant, in microseconds, is
at most the time elapsed plus the debt, and the debt is at most the deepest burst;
`QuotaInv` adds that hits of the current window are among the debt and that every
earlier window took at most its quota. One lemma per action keeps `LedgerInv`. The
hints are state properties: they follow from the types by unfolding the judgement of a
bucket, with lemmas on products and quotients.

**The engine's numbers** (`QuotaProofs`). `DecisionExact` speaks of lists of buckets of
any length, which `Engine` lays out and searches by recursive functions. `RecursionUp`
shows that such a function over an interval of numbers satisfies its equation, from the
well-foundedness of the order; `CountUp` is induction over such an interval, by a least
counterexample. With them: `BucketsLaid`, the buckets of a decision are those of its
rules in order, one key each; `RatioOrder` and `StricterOrder`, comparing remaining to
capacity by cross products and breaking ties by key is a strict total order;
`StrictestFound`, the pass over the buckets ends with the one that is stricter than all
others; `BucketWaits`, the retry of a bucket is the shortest wait that admits it. The
retry announced is the largest of these, so that it admits in all of them and nothing
shorter does; the headers come from the least element of a total order, which no
order of the rules changes.

**The check handler** (`QuotaProofs`). `CheckInv` says of every handler, at the place where
it stands, that the descriptors it has left state at most `MaxHitsAddend` together and
that its answer is of the decisions made. The bound comes from `costViolation`, which
adds up the costs as the request states them, while the charges follow from what
`engineRequests` made of them without the exempt ones: `CostsCharged` and `KeptCharges`
show, by the same induction as above, that the two sums compare. A descriptor charges a
counter what it states or what the counter's route reads from the query string, so
that the sum of both bounds the charges.

**The stores** (`StoreProofs`). A step of a store is a step of the contract under the
mapping from what is stored to what is owed. The mapping needs to know that what
expires owed nothing: `RedisInv` says that a value lives, in whole milliseconds, at
least as long as its debt, `MemoryInv` that an entry's deadline is the end of its
debt. Truncation is met in both: rounded up where a time to live is set, and divided
towards zero where the in-process store computes a capacity.

**The resets** (`AddressedProofs`, `BulkLemmas`, `BulkProofs`). `AddressedInv` ties each
call to the rule set and command it was computed from, calls that outlived their
callers included, and each record to the call that bound it; `CompletedReplays` follows
because a call that `snapshot` let in reads the record before anything can refuse it.
`BulkInv` has two halves: `StoreInv` of the records, tokens, lease and runs, and `CallsInv` of what every caller,
at the place where it stands, knows of them. A step is proved by what its script does to
the store and by `Guarantees`: what it does to every other call's knowledge is
nothing, because records are only extended by the call that holds their fencing token.
A call that is refused before the lookup, and a version that retires, touch no record.

**The configuration** (`ReplicaProofs`, `WriterProofs`). `ReplicaInv`: what compiles
of the manifest applied last is in force, and what does not stands at a last good one;
a reading in progress has read whole files of one manifest; the refusal that is remembered is the one that
stands. `WriterInv`: everything in the ConfigMap, in the informers, in a pass and in a
late write is of a generation its author wrote, and the result of a pass is the fit of
its view. The four theorems are then about the pure part. `RoomForAll` is about
sums: the set of policies set back is the fixed point of the loop of `fit.go`, and when it
ends over the limit every policy that could be set back has been, so the size is
at most that of the state it came from; that sums over finite sets compare
termwise is proved as lemmas.

**The status** (`StatusProofs`). `StatusInv` relates the pass in progress to the object,
the cache and the shared round: what a pass has read is of one object; an answer in the
round was given by its replica no longer ago than the round is old; a pass that judges a
generation for the first time by a round it did not take has a round that began after
that generation existed, which a list that failed in the same pass is; the clock of
propagation runs without a break while a propagation reason stands. The last is what
`NoFalsePage` needs and does not say.

## 7. Where code and documents disagree

With a counterexample of TLC:

* `addressed_replay`: two calls of one idempotency key that both missed the
  record answer different rule set versions and key lists, since `runReset`
  ignores the recorded answer on a replay (`reset.go:272`, `records.go:236`).
* `tlc -continue -config MCReplicaDocs.cfg MCReplicaConfig`, two of them.
  `service/internal/config/read.go:6` says "A manifest is applied when every payload it
  names decodes, hashes as it says, and compiles here; anything less is a refusal, the
  snapshot in memory stays, and the refusal is reported. Enforcing the domains that did
  decode would enforce a namespace in part, which the design forbids".
  `AppliedWhole`: a manifest with a spec that does not compile here is applied without a
  refusal, its other domains move on and that one keeps its last good engine, as the
  comment on `Apply` wants it (`apply.go:108`); `NoTornSet` and `Converges` are stated of
  what `Apply` does. `RefusalReported`: the refusal of a manifest without bytes is not
  reported, because `bytes.Equal` takes it for "nothing refused" (`watch.go:148`).
* `tlc -config MCBulkLate.cfg MCBulkReset`: a minting whose reply is lost is repeated by
  the client library; when the first one runs after the token has been spent, `SET`
  brings the token back and it confirms a second execution
  (`service/internal/records/redis.go:329`), where `management/bulk.go:353` says
  "newConfirmationToken mints an opaque single-use token". The inductive invariant of
  `BulkProofs` brought it out: no world of the run had a late call and a second
  execution.
* `tlc -config MCConfigWriterSkew.cfg MCConfigWriter`: a generation saved from a
  pruned read stays enforced after the informer has read it whole, since the re-list
  carries no new generation and `GenerationChangedPredicate` drops it
  (`reconciler.go:175`), where `policy/compile.go:231` says "the re-list then brings
  the field and the skew. That bundle is the guess this refusal exists to prevent, so
  it does not serve either." The same predicate drops a re-list that finds a policy
  deleted and created again at the same generation; the model has no such gap.
* `tlc -config MCConfigWriterLate.cfg MCConfigWriter`: `Save` takes the
  resourceVersion of its own read, so a write that lands between `Load` and that read
  is overwritten (`operator/internal/config/store.go:146`), where
  `docs/ratelimitpolicy-cr-spec.md:607` says "if it does not and the manifest holds
  the domain with the same UID, that entry stays".

Met on the way, without a run:

* "The record is read before the snapshot is consulted, because a completed command must
  not start failing after the fact" (`management/api.go:299`): `handleReset` has already
  asked `snapshot`, which answers 404 when the domain left (`api.go:278`), so a retry
  fails after the fact then. `RetryReplays` is stated of the retries it lets in;
* "The record is consulted first" and "after it the command has an outcome no matter how
  it ends" (`management/resets.go:27`): a missing domain and a selection the rule set
  would normalize are refused before the lookup (`resets.go:33`, `resets.go:50`), so an
  accepted command whose walker died gets its outcome only when the rule sets let
  its retry through. `Recovered` has that as its premise;
* "The same bound holds for the whole check: the costs of its descriptors add up to at
  most maxHitsAddend, so a caller cannot multiply the largest cost by spreading it over
  descriptors" (`rls/server.go:388`): it holds of the stated costs; a route that reads its
  cost from the query string charges it once per descriptor (`server.go:335`,
  `engine/match/match.go:285`), and `ChargeBounded` counts it on top;
* "Two rates of one rule can resolve to the same algorithm and period, and then they are
  one bucket; the first wins, as it does on the decision path"
  (`management/counters.go:117`): the compiler refuses two rates of one period
  (`engine/compile/blocks.go:309`), the matcher makes one bucket of every rate, without
  a first that wins (`match.go:559`), and the store refuses a key that comes twice
  (`engine/store/store.go:158`). `StoreAccepts` says that it never has to;
* "A refusing replica is behind on every domain by construction"
  (`operator/internal/controller/replicas.go:237`): not on a domain whose generation did
  not move with the manifest it refused, and `View` counts it as applied there;
* a live SCAN may return a key twice; a page that judges its candidates hands both to
  `Peek`, `GuardBuckets` refuses the call and the page is answered as an outage
  (`engine/store/store.go:152`), where `docs/management-api.md:74` tells of duplicates
  in the listing. In the model the client asks again and goes on;
* a cursor names the master of its slot on a cluster and no node behind Sentinel, where
  a failover changes the seed of the table (`redis.go:161`): `CompleteListing` is not
  claimed across a failover there;
* an array claim keeps repeated items and the keys of a direct caller do not
  (`identity.go:100`), so a one-valued axis can be dropped for one and kept for the
  other; `AnnotationsHold` leaves such tokens out;
* the version of a rule set does not cover claim paths and normalization:
  `VersionTells` asks for equal plans;
* a check that refuses one descriptor for good and another one for a while
  carries a retry hint (`server.go:547` against `engine.go:208`);
* a batch that runs after its walker gave up is not in the recorded progress
  (`resets.go:268`, "EXACT up to the last batch"); `ProgressExact` excludes it;
* the count of a bulk reset includes keys that expired before their batch
  (`sweep.go:261`);
* an addressed reset whose reply is lost is answered "nothing was bound"
  although it ran (`reset.go:265`);
* "Largest first, so the fewest generations are kept out" (`fit.go:65`): sizes
  are compared, not what setting back frees, so more can be kept out than needed;
* a bundle that reads larger under its old generation cannot be set back, and
  the write is refused until something shrinks (`fit.go:57`).

## 8. What is not modelled, and why

* The simulation endpoint beyond the refusal of keys it cannot judge: it is a `Peek`
  of the decision path for a request given by hand and changes no state.
* The records in process: the same operations as `CommandRecords`, under one mutex.
* The reload of the Redis connection and the pruning of metrics: input and output
  around the state that is modelled.
* The decoding of a token and regular expressions over text: constants describe what
  they return. The query grammar of the listing: a set of selections, some malformed.
* Authentication, routing, encodings, logs, generated code: input and output without
  state the properties could tell apart.
* Retention of command records (24 hours): a record that expires frees its key,
  which is what the documents say; the properties hold within the retention.
* Redis failover and loss of data: the code does not handle them.
* The `LastGoodLost` event, which a crash between the save and the event loses
  (`reconciler.go:105`), and the two reads of the rule set in the status handler
  (`management/status.go:38`): output only.
* A policy whose name is not its domain: the resource's validation rejects it.
* Lua numbers are doubles; every number of the script is below 2^53, where they
  are exact integers.
