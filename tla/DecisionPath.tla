---------------------------- MODULE DecisionPath ----------------------------
(***************************************************************************)
(* The decision path of one domain: generations of the policy compiled     *)
(* into engines (engine.New, one token cache each), the calls of the       *)
(* gateway and of the simulation endpoint running on the engine they       *)
(* loaded, and the questions of the rules endpoint.  A call reads the      *)
(* cache under its lock and returns to it in a second step, so that calls  *)
(* and generations interleave.  The store's part of a decision is in       *)
(* Engine and RateCheck: here a decision ends with the buckets it judges.  *)
(*                                                                         *)
(* A request is [via, path, method, query, token, keys, cost].             *)
(***************************************************************************)
EXTENDS Applicability

CONSTANTS
    Worlds,        \* by name: [domain, capacity, budget, policies, requests, questions, callers,
                   \* generations], the last a bound on the generations accepted
    LongTokens     \* token texts longer than MaxTokenBytes

VARIABLES
    world,      \* the name of the world the run is in; never changes
    engines,    \* every engine so far, the last one serving
    report,     \* the problems of the last compilation
    calls,      \* what each caller is doing
    answer,     \* the rules endpoint's last question and answer
    recent      \* ghost: per engine and token answered, what was stored since

dvars == <<world, engines, report, calls, answer, recent>>

World == Worlds[world]

Idle == [stage |-> "idle"]

NoAnswer == [asked |-> FALSE]

\* The token is looked up: it is there and short enough.
Cacheable(engine, token) ==
    engine.caching /\ token.text # "" /\ token.text \notin LongTokens

-----------------------------------------------------------------------------
(***************************************************************************)
(* One decision.                                                           *)
(***************************************************************************)
\* keyNames: the declared keys the request carried.
KeyNames(snapshot, keys) == DOMAIN keys \cap EffectiveKeys(snapshot.plan)

Untargeted == [outcome |-> "outside", rules |-> <<>>, skips |-> <<{}, {}>>, names |-> {}]

\* extractKeys: the keys of the request over those of the token.
KeysOf(snapshot, request, extracted) ==
    Overlay(extracted.keys, Explicit(snapshot.plan, request.keys).keys)

\* A route's own cost goes before the request's, which is one where it has none.
Seen(hits, request, keys) == Contexts(hits, request.method, keys, Max({1, request.cost}))

\* What evaluate makes of the matched rules.
Decision(snapshot, request, extracted, keys, matched) ==
    IF Len(BucketsOf(matched)) > MaxDomainDecisionBuckets
    THEN [Untargeted EXCEPT !.outcome = "too_many_buckets"]
    ELSE [outcome |-> IF matched = <<>> THEN "uncounted" ELSE "judged",
          rules |-> matched,
          skips |-> <<extracted.skips, Explicit(snapshot.plan, request.keys).skips>>,
          names |-> KeyNames(snapshot, keys)]

\* The simulation refuses a value no request carries after normalization.
Simulable(snapshot, request) ==
    request.via = "simulate" => ~Unnormalized(snapshot, request.keys, {})

-----------------------------------------------------------------------------
\* engine.New.
NewEngine(spec, snapshot) ==
    [spec |-> spec, snapshot |-> snapshot, caching |-> World.capacity > 0,
     cache |-> NewCache(World.capacity, World.budget)]

\* A generation arrives: it is served unless a problem blocks it, and then the
\* last good one keeps serving.
Apply(spec) ==
    /\ Len(engines) < World.generations
    /\ \E compiled \in {Compile(World.domain, ModelPolicy(spec))} :
          /\ report' = compiled.problems
          /\ IF Blocking(compiled.problems)
             THEN UNCHANGED <<engines, recent>>
             ELSE /\ engines' = Append(engines, NewEngine(spec, compiled.snapshot))
                  /\ recent' = Append(recent, NoEntries)
    /\ UNCHANGED <<world, calls, answer>>

\* evaluate up to the cache's answer.
Start(c, request) ==
    LET n == Len(engines)
        t == request.token.text
        goes(stage) == calls' = [calls EXCEPT ![c] = [engine |-> n, request |-> request] @@ stage]
    IN /\ engines # <<>> /\ calls[c] = Idle
       /\ \E engine \in {engines[n]} :
          \E hits \in {Match(engine.snapshot, request.path, request.method, request.query)} :
             \/ /\ ~Simulable(engine.snapshot, request)
                /\ goes([stage |-> "refused"])
                /\ UNCHANGED recent
             \/ /\ Simulable(engine.snapshot, request) /\ hits = <<>>
                /\ goes([stage |-> "done", decision |-> Untargeted])
                /\ UNCHANGED recent
             \/ /\ Simulable(engine.snapshot, request) /\ hits # <<>>
                /\ ~(Cacheable(engine, request.token) /\ Cached(engine.cache, t))
                /\ goes([stage |-> "extract", hits |-> hits])
                /\ UNCHANGED recent
             \/ /\ Simulable(engine.snapshot, request) /\ hits # <<>>
                /\ Cacheable(engine, request.token) /\ Cached(engine.cache, t)
                /\ IF t \in DOMAIN engine.cache.cur
                   THEN /\ goes([stage |-> "found", hits |-> hits, entry |-> Found(engine.cache, t)])
                        /\ recent' = [recent EXCEPT ![n] = Put(@, t, {})]
                   ELSE /\ goes([stage |-> "promote", hits |-> hits, entry |-> Found(engine.cache, t)])
                        /\ UNCHANGED recent
       /\ UNCHANGED <<world, engines, report, answer>>

NewEntry(extracted) ==
    [data |-> extracted, size |-> EntrySize(extracted.keys, extracted.skips)]

\* The entry a call brings to the cache.
EntryOf(engine, call) ==
    IF call.stage = "extract" THEN NewEntry(Extract(engine.snapshot.plan, call.request.token))
    ELSE call.entry

\* A mutant: a hit in the previous generation stays there.
StoresMisses(engine, call, entry) ==
    /\ Cacheable(engine, call.request.token)
    /\ call.stage = "extract" /\ entry.size <= MaxCachedEntryBytes

\* A miss is stored unless it is too large, a hit in the previous generation is
\* stored again.
Stores(engine, call, entry) ==
    /\ Cacheable(engine, call.request.token)
    /\ \/ call.stage = "promote"
       \/ call.stage = "extract" /\ entry.size <= MaxCachedEntryBytes

\* A mutant: the overlay of the request's keys reaches the cached entry.
StoredEntryShared(engine, call, entry) ==
    [entry EXCEPT !.data.keys =
        Overlay(@, Explicit(engine.snapshot.plan, call.request.keys).keys)]

\* newCacheEntry copies, so that what the request overlays stays its own.
StoredEntry(engine, call, entry) == entry

\* Ghost: token t is answered; it counts for the others if it took a new place.
Since(cache, used, t, size) ==
    LET more == IF t \in DOMAIN cache.cur THEN {} ELSE {[token |-> t, size |-> size]}
    IN Put([u \in DOMAIN used |-> used[u] \cup more], t, {})

\* The call returns to the cache and decides.
Finish(c) ==
    LET call   == calls[c]
        engine == engines[call.engine]
        t      == call.request.token.text
    IN /\ call.stage \in {"found", "promote", "extract"}
       /\ \E entry \in {EntryOf(engine, call)} :
             /\ IF Stores(engine, call, entry)
                THEN engines' = [engines EXCEPT ![call.engine].cache =
                                    Store(@, t, StoredEntry(engine, call, entry))]
                ELSE UNCHANGED engines
             /\ recent' = IF /\ Cacheable(engine, call.request.token) /\ call.stage # "found"
                             /\ entry.size <= MaxCachedEntryBytes
                          THEN [recent EXCEPT ![call.engine] = Since(engine.cache, @, t, entry.size)]
                          ELSE recent
             /\ \E keys \in {KeysOf(engine.snapshot, call.request, entry.data)} :
                \E contexts \in {Seen(call.hits, call.request, keys)} :
                \E matched \in {Evaluate(call.hits, contexts)} :
                   calls' = [calls EXCEPT ![c] =
                       [stage |-> "done", engine |-> call.engine, request |-> call.request,
                        decision |-> Decision(engine.snapshot, call.request, entry.data, keys, matched)]]
       /\ UNCHANGED <<world, report, answer>>

Answered == {c \in World.callers : calls[c].stage = "done"}

\* The caller has its answer.
Return(c) ==
    /\ calls[c].stage \in {"done", "refused"}
    /\ calls' = [calls EXCEPT ![c] = Idle]
    /\ UNCHANGED <<world, engines, report, answer, recent>>

\* A question to the rules endpoint, on the engine that serves.
Ask(q) ==
    /\ engines # <<>>
    /\ answer' = [asked |-> TRUE, engine |-> Len(engines), question |-> q,
                  reply |-> HandleRules(Last(engines).snapshot, q)]
    /\ UNCHANGED <<world, engines, report, calls, recent>>

\* The operator asks, and is done with the answer.
Question == ~answer.asked /\ \E q \in World.questions : Ask(q)

Leave ==
    /\ answer.asked
    /\ answer' = NoAnswer
    /\ UNCHANGED <<world, engines, report, calls, recent>>

Init ==
    /\ world \in DOMAIN Worlds
    /\ engines = <<>> /\ report = {} /\ recent = <<>>
    /\ calls = [c \in World.callers |-> Idle]
    /\ answer = NoAnswer

\* An answered call returns before anything else happens: nothing later changes
\* its answer, and nothing else depends on it.
Next ==
    \/ \E c \in World.callers : Return(c)
    \/ /\ Answered = {}
       /\ \/ \E spec \in World.policies : Apply(spec)
          \/ \E c \in World.callers, r \in World.requests : Start(c, r)
          \/ \E c \in World.callers : Finish(c)
          \/ Question
          \/ Leave

DSpec == Init /\ [][Next]_dvars

-----------------------------------------------------------------------------
(***************************************************************************)
(* What the author of a policy wrote, read off the spec itself: the        *)
(* reference the decisions and the annotations are held against.           *)
(***************************************************************************)
\* The segments of a prefix without its closing slash begin the path.
Under(path, value) ==
    LET stem == IF Last(value) = "" THEN Front(value) ELSE value
    IN Len(value) <= Len(path) /\ IsPrefix(stem, path)

Fits(value, path) ==
    /\ Len(value) = Len(path)
    /\ \A i \in DOMAIN value :
           IF value[i] \in DOMAIN Placeholders THEN path[i] # "" ELSE path[i] = value[i]

Covers(route, request) ==
    /\ route.methods = <<>> \/ request.method \in ToSet(route.methods)
    /\ \/ route.type = "Exact" /\ request.path = route.value
       \/ route.type = "Prefix" /\ Under(request.path, route.value)
       \/ route.type = "Template" /\ Fits(route.value, request.path)

\* The route of the block that serves a request, as a set of at most one.
ServingRoute(block, request) ==
    IF ~Set(block.target) THEN {}
    ELSE {block.target[i] : i \in {j \in DOMAIN block.target :
              /\ Covers(block.target[j], request)
              /\ \A k \in 1 .. j - 1 : ~Covers(block.target[k], request)}}

InTarget(block, request) ==
    ~Set(block.target) \/ block.target = <<>> \/ ServingRoute(block, request) # {}

\* A claim that can serve a key.
Usable(claim, type) ==
    /\ claim.kind = IF type = "StringArray" THEN "array" ELSE "string"
    /\ Len(claim.items) <= MaxArrayItems
    /\ ToSet(claim.items) \cap ({Foreign} \cup TooLongValues) = {}
    /\ ToSet(claim.items) # {""} /\ claim.items # <<>>

\* The identity of a request under a mapping: its own keys first, then the first
\* usable claim of its token.
IdentityBy(mapping, request) ==
    LET sources == <<mapping.claim \o mapping.claimPath>> \o mapping.fallbacks
        claim(i) == Walk(request.token.claims, sources[i])
        usable == {i \in DOMAIN sources : request.token.decodes /\ Usable(claim(i), mapping.type)}
        own    == IF mapping.key \in DOMAIN request.keys
                  THEN Distinct(Bounded(request.keys[mapping.key]).values) ELSE <<>>
        raw    == IF own # <<>> THEN own
                  ELSE IF usable = {} THEN <<>>
                  ELSE NonEmpty(claim(Min(usable)).items)
    IN IF mapping.normalization = "Lowercase" THEN LowerAll(raw) ELSE raw

SubMapping == [key |-> KeySub, claim |-> <<"sub">>, claimPath |-> <<>>, type |-> "String",
               normalization |-> "Lowercase", fallbacks |-> <<>>]

IdentityOf(spec, request, k) ==
    LET mine == {m \in ToSet(spec.mappings) : m.key = k}
    IN IF mine # {} THEN IdentityBy(CHOOSE m \in mine : TRUE, request)
       ELSE IF k = KeySub THEN IdentityBy(SubMapping, request)
       ELSE IF k \in DOMAIN request.keys THEN Distinct(Bounded(request.keys[k]).values)
       ELSE <<>>

\* What a rule of the block reads under a key.
Reads(spec, block, request, k) ==
    LET templates == {r \in ServingRoute(block, request) : r.type = "Template"}
        segments  == UNION {{request.path[i] : i \in {j \in DOMAIN r.value :
                                 r.value[j] \in DOMAIN Placeholders /\ Placeholders[r.value[j]] = k}} :
                            r \in templates}
    IN IF k = KeyMethod THEN <<request.method>>
       ELSE IF k = KeyPath
            THEN <<IF templates = {} THEN request.path ELSE (CHOOSE r \in templates : TRUE).value>>
       ELSE IF segments # {} THEN SetToSeq(segments)
       ELSE IdentityOf(spec, request, k)

Asserts(spec, p, values) ==
    LET members == UNION {ToSet(g.values) : g \in {h \in ToSet(spec.groups) : h.name = p.value}}
        set     == ToSet(values)
    IN \/ p.operator = "Equals" /\ values = <<p.value>>
       \/ p.operator = "Contains" /\ p.value \in set
       \/ p.operator = "In" /\ set \cap ToSet(p.values) # {}
       \/ p.operator = "InGroup" /\ set \cap members # {}
       \/ p.operator = "Exists" /\ set # {}
       \/ p.operator = "DoesNotExist" /\ set = {}

Matching(spec, block, request) ==
    {i \in DOMAIN block.rules :
        /\ \A p \in ToSet(block.rules[i].matches) : Asserts(spec, p, Reads(spec, block, request, p.key))
        /\ \A k \in ToSet(block.rules[i].counters) : Len(Reads(spec, block, request, k)) = 1}

\* The rules of the block that apply to the request: the others either do not
\* match or are decided away by a matching rule that is not a shadow rule.
Applying(spec, block, request) ==
    LET matching == Matching(spec, block, request)
        strong(i) == block.rules[i].behavior # "Shadow"
        ousts(j, i) == IF block.mode = "FirstMatch" THEN j < i
                       ELSE block.rules[i].name \in ToSet(block.rules[j].replaced)
    IN {i \in matching : \A j \in matching \ {i} : strong(j) => ~ousts(j, i)}

\* What the request is to be counted under.
Authored(spec, request) ==
    UNION {LET block == spec.limits[b]
               costs == {QueryCost(CompiledCost(ModelRoute(r).cost), request.query) :
                             r \in {s \in ServingRoute(block, request) : Set(s.cost)}}
               cost  == IF costs # {} THEN Max(costs) ELSE Max({1, request.cost})
           IN UNION {{<<block.name, rule.name, rate.period, rate.requests, cost,
                        rule.behavior = "Shadow",
                        [a \in DOMAIN rule.counters |->
                            Head(Reads(spec, block, request, rule.counters[a]))]>> :
                        rate \in ToSet(rule.rates)} :
                     rule \in {block.rules[i] : i \in Applying(spec, block, request)}} :
           b \in {c \in DOMAIN spec.limits : InTarget(spec.limits[c], request)}}

Judged(decision) ==
    UNION {{<<m.block, m.rule, m.buckets[i].window.period, m.buckets[i].window.requests,
              m.cost, m.shadow, m.buckets[i].key[2]>> : i \in DOMAIN m.buckets} :
           m \in ToSet(decision.rules)}

-----------------------------------------------------------------------------
\* Every engine's cache has room for an entry, holds tokens that were answered on
\* it and no entry over the bound, and every call under way is at a known stage
\* on an engine there is.
DTypeOK ==
    /\ Len(engines) <= World.generations /\ Len(recent) = Len(engines)
    /\ \A n \in DOMAIN engines :
           LET c == engines[n].cache
           IN /\ c.half >= 1
              /\ DOMAIN c.cur \cup DOMAIN c.prev \subseteq DOMAIN recent[n]
              /\ \A t \in DOMAIN c.cur \cup DOMAIN c.prev : Found(c, t).size <= MaxCachedEntryBytes
    /\ \A c \in World.callers :
           \/ calls[c] = Idle
           \/ /\ calls[c].stage \in {"found", "promote", "extract", "done", "refused"}
              /\ calls[c].engine \in DOMAIN engines

\* A decision counts the request under exactly the rules, windows, axis values and
\* cost that the spec of the generation it began with prescribes for the
\* identity the request itself carries: no other request's keys, no other
\* generation's plan and no entry of the token cache (tokencache.go
\* cachedExtract) changes it, and a request outside every target is not counted.
DecidesAsAuthored ==
    \A c \in Answered :
        LET spec == engines[calls[c].engine].spec
            decision == calls[c].decision
        IN /\ Judged(decision) = Authored(spec, calls[c].request)
           /\ (decision.outcome = "outside")
                = (\A b \in DOMAIN spec.limits : ~InTarget(spec.limits[b], calls[c].request))

\* Two windows of one decision never share a counter: compileRates refuses a second
\* window of one period, although newRateIndex is written for two rates that are
\* one bucket; what one charges, the other does not see.
OneBucketOnce ==
    \A c \in Answered :
        LET buckets == BucketsOf(calls[c].decision.rules)
        IN Cardinality({buckets[i].key : i \in DOMAIN buckets}) = Len(buckets)

\* ErrTooManyBuckets is out of reach of a generation that compiled: the worst
\* case decisionBuckets bounds at compile time covers every decision.
BackstopUnreachable ==
    \A c \in Answered : calls[c].decision.outcome # "too_many_buckets"

\* What a compiled generation decides reaches the store and is accepted there:
\* neither the engine's cap on buckets nor GuardBuckets' refusal of two buckets
\* with one key is ever met.
StoreAccepts == BackstopUnreachable /\ OneBucketOnce

\* Whatever calls interleave, a token cache stays within the entries and the
\* bytes it was made for, and the bytes it counts are those it holds.
CacheWithinBounds ==
    \A n \in DOMAIN engines :
        LET c == engines[n].cache
        IN /\ Cardinality(DOMAIN c.cur) + Cardinality(DOMAIN c.prev) <= Max({1, World.capacity})
           /\ BytesOf(c.cur) + BytesOf(c.prev) <= World.budget
           /\ c.bytes = BytesOf(c.cur)

\* A token in active use survives rotation: one answered through the cache is
\* still cached while the tokens stored since fit into one generation.
ActiveTokenKept ==
    \A n \in DOMAIN engines : \A t \in DOMAIN recent[n] :
        LET c == engines[n].cache
            since == recent[n][t]
        IN /\ Cardinality(since) <= IF c.single THEN 0 ELSE c.half
           /\ MapThenSumSet(LAMBDA e : e.size, since) <= c.halfBytes
           => Cached(c, t)

\* The token cache keeps what it is for and no more: it stays within its bounds
\* and keeps the tokens in use (tokencache.go).
CacheKeeps == DTypeOK /\ CacheWithinBounds /\ ActiveTokenKept

\* Two generations with one version (ruleview.Version) and one plan of extraction
\* decide every request alike, on the same counters: what an operator read under
\* a version is what that version enforces.
VersionTells ==
    \A i, j \in DOMAIN engines :
        LET one == engines[i].snapshot  two == engines[j].snapshot
            decide(snapshot, r) ==
                LET hits == Match(snapshot, r.path, r.method, r.query)
                IN Evaluate(hits, Seen(hits, r, KeysOf(snapshot, r, Extract(snapshot.plan, r.token))))
        IN i < j /\ one.plan = two.plan /\ Version(one) = Version(two)
           => \A r \in World.requests : decide(one, r) = decide(two, r)

-----------------------------------------------------------------------------
\* The request is one the question leaves possible in the block: it has the path
\* and the method asked about, it reaches the block, and it has what the
\* question says of its identity.  With a path a name that the domain declares is
\* the identity's, otherwise it is what the block's rules read.  A request
\* whose array claim repeats an item is left out: a question names a set.
Completes(spec, block, q, request) ==
    LET declared == {KeySub} \cup {m.key : m \in ToSet(spec.mappings)}
        held(n) == IF q.path # Unset /\ n \in declared
                   THEN IdentityOf(spec, request, n)
                   ELSE Reads(spec, block, request, n)
    IN /\ InTarget(block, request)
       /\ q.path # Unset => q.path = request.path
       /\ q.method # "" => q.method = request.method
       /\ \A n \in q.absent : held(n) = <<>>
       /\ \A n \in DOMAIN q.axes : /\ ToSet(held(n)) = ToSet(q.axes[n])
                                   /\ Len(held(n)) = Cardinality(ToSet(held(n)))

BlockNamed(spec, name) == CHOOSE b \in ToSet(spec.limits) : b.name = name

\* An annotation of the rules endpoint is right about every request that
\* completes the question: always means that the rule applies to it, never that
\* it does not, other rules of the block included (applicability.go preempt).
VerdictSound ==
    answer.asked =>
        LET spec == engines[answer.engine].spec
        IN \A b \in DOMAIN answer.reply.blocks :
               LET view  == answer.reply.blocks[b]
                   block == BlockNamed(spec, view.block)
               IN view.rules # <<>> =>
                  \A r \in {s \in World.requests : Completes(spec, block, answer.question, s)} :
                      LET applying == Applying(spec, block, r)
                      IN \A i \in DOMAIN view.rules :
                             /\ view.rules[i].verdict = "always" => i \in applying
                             /\ view.rules[i].verdict = "never" => i \notin applying

\* q says everything p says, and one thing more about the identity.
Sharpens(p, q) ==
    /\ p.path = q.path /\ p.method = q.method
    /\ p.absent \subseteq q.absent /\ DOMAIN p.axes \subseteq DOMAIN q.axes
    /\ \A n \in DOMAIN p.axes : p.axes[n] = q.axes[n]
    /\ Cardinality(q.absent) + Cardinality(DOMAIN q.axes)
         = Cardinality(p.absent) + Cardinality(DOMAIN p.axes) + 1

\* "Supplying more axes sharpens the answer monotonically" (applicability.go): a
\* verdict of always or never stands when the question says more, as long as
\* some request still completes it.
VerdictStands ==
    answer.asked /\ ~answer.reply.refused =>
        LET engine == engines[answer.engine]
        IN \A q \in {p \in World.questions : Sharpens(answer.question, p)} :
           \E reply \in {HandleRules(engine.snapshot, q)} :
               ~reply.refused =>
                   \A b \in DOMAIN reply.blocks :
                       LET before == answer.reply.blocks[b].rules
                           after  == reply.blocks[b].rules
                           block  == BlockNamed(engine.spec, reply.blocks[b].block)
                       IN before # <<>> /\ (\E r \in World.requests : Completes(engine.spec, block, q, r))
                          => \A i \in DOMAIN before :
                                 before[i].verdict # "conditional" => after[i].verdict = before[i].verdict

\* What the rules endpoint says of a rule holds, and goes on holding as the question
\* says more (applicability.go).
AnnotationsHold == VerdictSound /\ VerdictStands

=============================================================================
