------------------------------- MODULE Engine -------------------------------
(***************************************************************************)
(* The engine's decision on one request (engine/engine.go) over the        *)
(* counter store's contract: the buckets the matched rules expand to, the  *)
(* verdict over them, the numbers of the response headers and the          *)
(* outcomes of the rules.                                                  *)
(*                                                                         *)
(* What the matcher returned is a sequence of rules                        *)
(*     [shadow, cost, windows],                                            *)
(* cost being what the matched route read from the query string, zero      *)
(* where it reads none, and windows a sequence of [key, limit].            *)
(***************************************************************************)
EXTENDS QuotaContract, Sequences

CONSTANTS
    Matches,            \* what the matcher may return
    KeyRank,            \* the lexicographic order of the counter keys
    MaxDecisionBuckets  \* engine.MaxDecisionBuckets

\* The matcher returns compiled rules: their windows carry keys and the limits
\* these are tuned to, and no key twice, a key naming its rule and window.
ASSUME EngineConstants ==
    /\ \A matched \in Matches :
          /\ matched \in Seq([shadow: BOOLEAN, cost: Costs \cap Nat,
                              windows: Seq([key: Keys, limit: UNION {Limits[k] : k \in Keys}])])
          /\ \A r \in DOMAIN matched : \A i \in DOMAIN matched[r].windows :
                /\ matched[r].windows[i].limit \in Limits[matched[r].windows[i].key]
                /\ \A q \in DOMAIN matched : \A h \in DOMAIN matched[q].windows :
                      matched[q].windows[h].key = matched[r].windows[i].key =>
                          q = r /\ h = i
    /\ KeyRank \in [Keys -> Int]
    /\ \A k, h \in Keys : KeyRank[k] = KeyRank[h] => k = h

\* Result.Buckets: one bucket per window of every rule, in rule order, with the
\* position of its rule.
RuleBuckets(matched, cost, r) ==
    [i \in DOMAIN matched[r].windows |->
        [key    |-> matched[r].windows[i].key,
         limit  |-> matched[r].windows[i].limit,
         shadow |-> matched[r].shadow,
         cost   |-> IF matched[r].cost = 0 THEN cost ELSE matched[r].cost,
         rule   |-> r]]

Buckets(matched, cost) ==
    LET upTo[r \in 0..Len(matched)] ==
            IF r = 0 THEN <<>> ELSE upTo[r - 1] \o RuleBuckets(matched, cost, r)
    IN upTo[Len(matched)]

\* The call the store gets; the keys of one decision are unique.
CallOf(buckets) ==
    [k \in {buckets[i].key : i \in DOMAIN buckets} |->
        LET i == CHOOSE j \in DOMAIN buckets : buckets[j].key = k
        IN [limit |-> buckets[i].limit, shadow |-> buckets[i].shadow, cost |-> buckets[i].cost]]

-----------------------------------------------------------------------------
BucketCapacity(bucket) ==
    IF bucket.limit.burst > 0 THEN bucket.limit.burst ELSE bucket.limit.requests

\* A mutant: the shortest wait chosen on a refusal.
StricterShortestWait(buckets, verdicts, i, best, allowed) ==
    LET v == verdicts[buckets[i].key]  u == verdicts[buckets[best].key]
    IN IF allowed THEN v.remaining < u.remaining ELSE v.retry < u.retry

\* stricter: a smaller remaining over cost on allow; on refusal a cost that
\* never fits, then the longer wait; the smaller key on a tie.
Stricter(buckets, verdicts, i, best, allowed) ==
    LET b == buckets[i]      v == verdicts[b.key]
        c == buckets[best]   u == verdicts[c.key]
        byKey == KeyRank[b.key] < KeyRank[c.key]
    IN IF allowed
       THEN LET left  == v.remaining * c.cost
                right == u.remaining * b.cost
            IN left < right \/ (left = right /\ byKey)
       ELSE \/ v.exceeds /\ ~u.exceeds
            \/ v.exceeds /\ u.exceeds /\ byKey
            \/ ~v.exceeds /\ ~u.exceeds /\ v.retry > u.retry
            \/ ~v.exceeds /\ ~u.exceeds /\ v.retry = u.retry /\ byKey

\* The buckets a choice of the strictest looks at.
Binding(buckets, verdicts, range, allowed, skipShadow) ==
    {i \in range : /\ ~(skipShadow /\ buckets[i].shadow)
                   /\ allowed \/ ~verdicts[buckets[i].key].allowed}

\* strictestIndex: one pass over the range; 0 when nothing binds.
StrictestIndex(buckets, verdicts, range, allowed, skipShadow) ==
    LET binding == Binding(buckets, verdicts, range, allowed, skipShadow)
        best[i \in 0..Len(buckets)] ==
            IF i = 0 THEN 0
            ELSE IF /\ i \in binding
                    /\ best[i - 1] = 0 \/ Stricter(buckets, verdicts, i, best[i - 1], allowed)
                 THEN i ELSE best[i - 1]
    IN best[Len(buckets)]

\* A mutant: the wait for the request itself, its whole cost, and not for one.
EffectiveWindowWholeCost(bucket, v) ==
    IF v.remaining >= BucketCapacity(bucket) THEN -1
    ELSE IF AlgorithmOf[bucket.key] # "GCRA" THEN v.reset
    ELSE v.reset - TauMicros(WindowOf(bucket.key, bucket.limit))
         + (v.remaining + bucket.cost) * EmissionMicros(WindowOf(bucket.key, bucket.limit))

\* effectiveWindow: how long until the bucket admits one request more.
EffectiveWindow(bucket, v) ==
    IF v.remaining >= BucketCapacity(bucket) THEN -1
    ELSE IF AlgorithmOf[bucket.key] # "GCRA" THEN v.reset
    ELSE v.reset - TauMicros(WindowOf(bucket.key, bucket.limit))
         + (v.remaining + 1) * EmissionMicros(WindowOf(bucket.key, bucket.limit))

NoHeaders == [rule |-> 0]

\* aggregate: the strictest enforcing bucket's numbers, and whether an
\* enforcing bucket refused what no waiting cures.
Aggregate(buckets, verdicts, allowed) ==
    LET exceeds == ~allowed /\ \E i \in DOMAIN buckets :
                      ~buckets[i].shadow /\ verdicts[buckets[i].key].exceeds
        best    == StrictestIndex(buckets, verdicts, DOMAIN buckets, allowed, TRUE)
        v       == verdicts[buckets[best].key]
    IN IF best = 0
       THEN [headers |-> NoHeaders, exceeds |-> FALSE]
       ELSE [headers |-> [rule      |-> buckets[best].rule,
                          key       |-> buckets[best].key,
                          limit     |-> buckets[best].limit.requests,
                          remaining |-> v.remaining,
                          retry     |-> IF exceeds THEN -1 ELSE v.retry,
                          reset     |-> v.reset,
                          cost      |-> buckets[best].cost,
                          effective |-> EffectiveWindow(buckets[best], v)],
             exceeds |-> exceeds]

\* ruleOutcomes: what the metrics and the audit stream say of each rule.
RuleOutcomes(matched, buckets, verdicts) ==
    [r \in DOMAIN matched |->
        LET own     == {i \in DOMAIN buckets : buckets[i].rule = r}
            allowed == \A i \in own : verdicts[buckets[i].key].allowed
            best    == StrictestIndex(buckets, verdicts, own, allowed, FALSE)
        IN [shadow    |-> matched[r].shadow,
            allowed   |-> allowed,
            exceeds   |-> \E i \in own : /\ ~verdicts[buckets[i].key].allowed
                                         /\ verdicts[buckets[i].key].exceeds,
            capacity  |-> IF best = 0 THEN 0 ELSE BucketCapacity(buckets[best]),
            remaining |-> IF best = 0 THEN 0 ELSE verdicts[buckets[best].key].remaining,
            retry     |-> IF best = 0 THEN 0 ELSE verdicts[buckets[best].key].retry]]

\* A decision that needed no store: no rule matched.
Unmatched == [allowed |-> TRUE, exceeds |-> FALSE, headers |-> NoHeaders, rules |-> <<>>]

\* evaluate, once the store has answered.
DecisionOf(matched, buckets, verdicts) ==
    LET allowed == Admitted(CallOf(buckets), verdicts)
        agg     == Aggregate(buckets, verdicts, allowed)
    IN [allowed |-> allowed,
        exceeds |-> agg.exceeds,
        headers |-> agg.headers,
        rules   |-> RuleOutcomes(matched, buckets, verdicts)]

-----------------------------------------------------------------------------
\* The verdicts a call would get from the store if it were left alone for r, and
\* the decision a request would get from it as it stands.
VerdictsAfter(call, r) ==
    [k \in DOMAIN call |->
        Judge(k, call[k].limit, Idle(k, debt[k], now, r), call[k].cost, now + r).current]

Judged(matched, cost) ==
    LET buckets  == Buckets(matched, cost)
        call     == CallOf(buckets)
        verdicts == VerdictsAfter(call, 0)
    IN [buckets |-> buckets, call |-> call, verdicts |-> verdicts,
        decision |-> DecisionOf(matched, buckets, verdicts)]

\* The retry hint of a decision over several buckets is exact: waiting it out
\* admits the request in every enforcing bucket, no shorter wait does, and a
\* decision without a hint is refused by empty buckets too.
RetryAdmits(j) ==
    LET d == j.decision
        h == d.headers
        admitted(r) == Admitted(j.call, VerdictsAfter(j.call, r))
    IN ~d.allowed =>
         /\ h # NoHeaders
         /\ d.exceeds <=> h.retry < 0
         /\ h.retry >= 0 => /\ admitted(h.retry)
                            /\ \A r \in 0..(h.retry - 1) : ~admitted(r)
         /\ d.exceeds => \A r \in 0..MaxPeriodMicros : ~admitted(r)

\* The header numbers do not depend on the order in which the rules and their
\* windows are laid out: the bucket they come from binds harder than every other.
HeadersOrderFree(j) ==
    LET ok   == j.decision.allowed
        bind == Binding(j.buckets, j.verdicts, DOMAIN j.buckets, ok, TRUE)
    IN \A i, k \in bind :
          j.buckets[i].key = j.decision.headers.key /\ k # i =>
              /\ Stricter(j.buckets, j.verdicts, i, k, ok)
              /\ ~Stricter(j.buckets, j.verdicts, k, i, ok)

\* The verdict over the buckets and the verdicts over the rules say the same.
RulesAgree(j) ==
    LET d == j.decision
    IN /\ d.allowed <=> \A r \in DOMAIN d.rules : d.rules[r].shadow \/ d.rules[r].allowed
       /\ d.exceeds <=> \E r \in DOMAIN d.rules : ~d.rules[r].shadow /\ d.rules[r].exceeds

\* What a decision over several buckets tells the caller is right: the verdicts of
\* its rules, the wait, and the bucket the header numbers come from (engine.go
\* aggregate).
DecisionExact ==
    \A matched \in Matches, cost \in Costs \cap (Nat \ {0}) :
        LET j == Judged(matched, cost)
        IN RulesAgree(j) /\ RetryAdmits(j) /\ HeadersOrderFree(j)

\* After a verdict v of a bucket that owes d, the effective window is the wait
\* until the bucket holds more than the remaining that v reports.
EffectiveTells(k, l, cost, v, d) ==
    LET e == EffectiveWindow([key |-> k, limit |-> l, cost |-> cost], v)
        left(r) == Judge(k, l, Idle(k, d, now, r), cost, now + r).current.remaining
    IN IF e < 0 THEN d = 0
       ELSE /\ left(e) > v.remaining
            /\ \A r \in 0..(e - 1) : left(r) <= v.remaining
            /\ e <= v.reset
            /\ v.retry >= 0 => e <= v.retry

\* The effective window is exact, before and after a charge: the bucket holds
\* more than the remaining it reports once that time has passed and not sooner,
\* never later than the reset and than the retry hint; and a bucket with no
\* effective window is full.
EffectiveExact ==
    \A k \in Keys : \A l \in Limits[k], cost \in Costs \cap (Nat \ {0}) :
        LET o == Judge(k, l, debt[k], cost, now)
        IN /\ EffectiveTells(k, l, cost, o.current, debt[k])
           /\ o.current.allowed => EffectiveTells(k, l, cost, o.charged, o.next)

=============================================================================
