----------------------------- MODULE RateCheck ------------------------------
(***************************************************************************)
(* The check handler (service/internal/rls, ShouldRateLimit): one check    *)
(* carries several descriptors, each decided by the engine in a store      *)
(* call of its own, while other checks run.  The store is the contract of  *)
(* QuotaContract, which may lose the reply of a call it has served.        *)
(*                                                                         *)
(* A descriptor is [matched, addend, negative, exempt]: the rules its      *)
(* path, method and identity match, its hits_addend (Unset or a number),   *)
(* is_negative_hits, and whether its path is exempt in the domain.         *)
(***************************************************************************)
EXTENDS Engine

CONSTANTS
    Callers,                 \* checks that may run at one time
    Requests,                \* the requests they send
    MaxDescriptorsPerCheck,  \* maxDescriptorsPerCheck
    MaxHitsAddend            \* maxHitsAddend

Unset == -1

\* What a request carries; bare are the rules that match it without descriptors.
ASSUME CheckConstants ==
    /\ Requests \subseteq
         [known: BOOLEAN, hits: Nat, bare: Matches,
          descriptors: Seq([matched: Matches, addend: Nat \cup {Unset},
                            negative: BOOLEAN, exempt: BOOLEAN])]
    /\ MaxHitsAddend \in Nat

VARIABLE check   \* caller -> the handler's locals

cvars == <<now, debt, answer, check>>

NoResponse == [code |-> "none", allowed |-> FALSE, headers |-> NoHeaders]

Idling == [pc |-> "idle", todo |-> <<>>, decisions |-> <<>>, response |-> NoResponse]

-----------------------------------------------------------------------------
\* engineRequests: one engine request per descriptor, and one for a request
\* without descriptors.  A descriptor's explicit zero is decided for free.
EngineRequests(req) ==
    IF req.descriptors = <<>>
    THEN <<[matched |-> req.bare, cost |-> req.hits, free |-> FALSE, exempt |-> FALSE]>>
    ELSE [i \in DOMAIN req.descriptors |->
            LET d == req.descriptors[i]
            IN [matched |-> d.matched,
                cost    |-> IF d.addend = Unset THEN req.hits ELSE d.addend,
                free    |-> d.addend = 0,
                exempt  |-> d.exempt]]

\* A mutant: the descriptors bounded one by one and not together.
CostViolationEach(req) ==
    \E i \in DOMAIN req.descriptors :
        req.descriptors[i].negative \/ req.descriptors[i].addend > MaxHitsAddend

Total(costs) ==
    LET upTo[i \in 0..Len(costs)] == IF i = 0 THEN 0 ELSE upTo[i - 1] + costs[i]
    IN upTo[Len(costs)]

\* costViolation: a cost the engine does not charge.
CostViolation(req) ==
    LET requestCost == IF req.hits = 0 THEN 1 ELSE req.hits
        ds          == req.descriptors
        costs       == [i \in DOMAIN ds |->
                          IF ds[i].addend = Unset THEN requestCost ELSE ds[i].addend]
        total       == IF ds = <<>> THEN requestCost ELSE Total(costs)
    IN \/ \E i \in DOMAIN ds : ds[i].negative \/ ds[i].addend > MaxHitsAddend
       \/ total > MaxHitsAddend

WithoutExempt(requests) ==
    LET kept[i \in 0..Len(requests)] ==
            IF i = 0 THEN <<>>
            ELSE IF requests[i].exempt THEN kept[i - 1]
                 ELSE Append(kept[i - 1], requests[i])
    IN kept[Len(requests)]

\* strictestDecision: among refusals the longest wait, among admissions the
\* fewest further requests; decisions without headers lose every comparison.
Overrides(d, best, allowed) ==
    LET h == d.headers  b == best.headers
    IN /\ h # NoHeaders /\ d.allowed = allowed
       /\ \/ b = NoHeaders
          \/ allowed /\ h.remaining * b.cost < b.remaining * h.cost
          \/ ~allowed /\ h.retry > b.retry

StrictestDecision(decisions, allowed) ==
    LET best[i \in 0..Len(decisions)] ==
            IF i = 0 THEN [allowed |-> allowed, headers |-> NoHeaders]
            ELSE IF Overrides(decisions[i], best[i - 1], allowed)
                 THEN [allowed |-> decisions[i].allowed, headers |-> decisions[i].headers]
                 ELSE best[i - 1]
    IN best[Len(decisions)]

Respond(code, chosen) ==
    [code |-> code, allowed |-> chosen.allowed, headers |-> chosen.headers]

Bare(code) == [code |-> code, allowed |-> code = "OK", headers |-> NoHeaders]

Done(p, response) ==
    check' = [check EXCEPT ![p].pc = "done", ![p].todo = <<>>, ![p].response = response]

-----------------------------------------------------------------------------
CInit ==
    /\ Init
    /\ check = [p \in Callers |-> Idling]

CTick == Tick /\ UNCHANGED check

\* A check arrives: the refusals and admissions that need no decision.
Receive(p, req) ==
    /\ check[p].pc = "idle"
    /\ LET requests == EngineRequests(req)
           kept     == WithoutExempt(requests)
       IN IF ~req.known THEN Done(p, Bare("OK"))
          ELSE IF Len(requests) > MaxDescriptorsPerCheck THEN Done(p, Bare("OVER_LIMIT"))
          ELSE IF CostViolation(req) THEN Done(p, Bare("OVER_LIMIT"))
          ELSE IF kept = <<>> THEN Done(p, Bare("OK"))
          ELSE check' = [check EXCEPT ![p].pc = "deciding", ![p].todo = kept]
    /\ UNCHANGED <<now, debt, answer>>

Allowed(decisions) == \A i \in DOMAIN decisions : decisions[i].allowed

\* A decision was made; after the last one the check answers.
Decided(p, d) ==
    LET decisions == Append(check[p].decisions, d)
        allowed   == Allowed(decisions)
        last      == Len(check[p].todo) = 1
    IN check' = [check EXCEPT
         ![p].pc = IF last THEN "done" ELSE @,
         ![p].todo = Tail(@),
         ![p].decisions = decisions,
         ![p].response = IF last
                         THEN Respond(IF allowed THEN "OK" ELSE "OVER_LIMIT",
                                      StrictestDecision(decisions, allowed))
                         ELSE @]

\* A mutant: a store error answers unavailable whatever was refused before it.
FailedLaunders(p) == Done(p, Bare("UNAVAILABLE"))

\* The store gave no answer: a refusal already made stands, otherwise the check
\* is unavailable.
Failed(p) ==
    IF ~Allowed(check[p].decisions)
    THEN Done(p, Respond("OVER_LIMIT", StrictestDecision(check[p].decisions, FALSE)))
    ELSE Done(p, Bare("UNAVAILABLE"))

\* The buckets of an engine request; a cost of zero is the default of one.
BucketsOf(c) == Buckets(c.matched, IF c.cost = 0 THEN 1 ELSE c.cost)

\* evaluate for the next descriptor: a request no rule counts needs no store.
NextCheck(p) == Head(check[p].todo)

NextBuckets(p) == BucketsOf(NextCheck(p))

DecideUnmatched(p) ==
    /\ check[p].pc = "deciding"
    /\ NextBuckets(p) = <<>>
    /\ Decided(p, Unmatched)
    /\ UNCHANGED <<now, debt, answer>>

\* The backstop refuses the check whatever the other descriptors said.
DecideOverBudget(p) ==
    /\ check[p].pc = "deciding"
    /\ Len(NextBuckets(p)) > MaxDecisionBuckets
    /\ Done(p, Bare("OVER_LIMIT"))
    /\ UNCHANGED <<now, debt, answer>>

DecideInStore(p) ==
    /\ check[p].pc = "deciding"
    /\ Len(NextBuckets(p)) \in 1..MaxDecisionBuckets
    /\ LET buckets == NextBuckets(p)
           call    == CallOf(buckets)
       IN /\ IF NextCheck(p).free THEN Peek(call) ELSE Decide(call)
          /\ IF answer' = NoAnswer
             THEN Failed(p)
             ELSE Decided(p, DecisionOf(NextCheck(p).matched, buckets, answer'))

\* The call never reaches the store.
DecideFails(p) ==
    /\ check[p].pc = "deciding"
    /\ Len(NextBuckets(p)) \in 1..MaxDecisionBuckets
    /\ Fail
    /\ Failed(p)

Return(p) ==
    /\ check[p].pc = "done"
    /\ check' = [check EXCEPT ![p] = Idling]
    /\ UNCHANGED <<now, debt, answer>>

CNext ==
    \/ CTick
    \/ \E p \in Callers :
          \/ \E req \in Requests : Receive(p, req)
          \/ DecideUnmatched(p) \/ DecideOverBudget(p)
          \/ DecideInStore(p) \/ DecideFails(p)
          \/ Return(p)

CSpec == CInit /\ [][CNext]_cvars

-----------------------------------------------------------------------------
\* Types of the handlers' locals.
CTypeOK ==
    \A p \in Callers :
        /\ check[p].pc \in {"idle", "deciding", "done"}
        /\ check[p].response.code \in {"none", "OK", "OVER_LIMIT", "UNAVAILABLE"}
        /\ check[p].pc = "deciding" <=> check[p].todo # <<>>
        /\ check[p].pc = "done" <=> check[p].response # NoResponse

\* A refusal of one descriptor is the refusal of the check, whatever the later
\* descriptors meet, a store that stops answering included; an OK means every
\* descriptor was admitted; and the numbers of a refusal come from a refusal.
RefusalStands ==
    CTypeOK /\ \A p \in Callers : check[p].pc = "done" =>
        LET r == check[p].response
        IN /\ ~Allowed(check[p].decisions) => r.code = "OVER_LIMIT"
           /\ r.headers # NoHeaders => (r.allowed <=> r.code = "OK")

\* What the store call of an engine request charges the counter k.
Charge(c, k) ==
    LET call == CallOf(BucketsOf(c))
    IN IF c.free \/ k \notin DOMAIN call THEN 0 ELSE call[k].cost

\* What the route that counts on k reads from the query string, charged instead
\* of what the descriptor states; zero where it reads none.
OwnCost(c, k) ==
    LET counting == {r \in DOMAIN c.matched : \E i \in DOMAIN c.matched[r].windows :
                        c.matched[r].windows[i].key = k}
    IN IF c.free \/ counting = {} THEN 0 ELSE c.matched[CHOOSE r \in counting : TRUE].cost

Charges(requests, k) == [i \in DOMAIN requests |-> Charge(requests[i], k)]

OwnCosts(requests, k) == [i \in DOMAIN requests |-> OwnCost(requests[i], k)]

\* What one check can still charge a counter, over all of its descriptors, stays
\* within the bound of one of them and the costs its routes read themselves:
\* costViolation and engineRequests read the stated costs, the protocol's default
\* and the explicit zero, each on its own, and only a query string adds to them.
ChargeBounded ==
    \A p \in Callers, k \in Keys :
        Total(Charges(check[p].todo, k)) <= MaxHitsAddend + Total(OwnCosts(check[p].todo, k))

=============================================================================
