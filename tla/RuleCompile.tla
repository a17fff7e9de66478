---------------------------- MODULE RuleCompile -----------------------------
(***************************************************************************)
(* The engine's compiler (engine/compile): a policy in, a snapshot and the *)
(* problems out.  A problem is [block, rule, reason]; their order, wording *)
(* and number are left out.  One blocking problem leaves the snapshot      *)
(* without blocks, so that nothing built from a part with a problem is     *)
(* ever served, and the operators that build the parts do not repeat the   *)
(* checks.  The text a regular expression looks at is described by         *)
(* constants.                                                              *)
(***************************************************************************)
EXTENDS PolicyModel, Algorithms, FiniteSets, FiniteSetsExt, SequencesExt

CONSTANTS
    Placeholders,   \* a segment {name} of a template -> the name
    Braced,         \* other segments with a brace in them
    BadNames,       \* names that keyName or costParameter refuses
    HttpMethods,    \* httpMethods
    MaxCost,        \* model.MaxCost
    MaxDomainDecisionBuckets

ASSUME CompileConstants ==
    /\ MaxCost \in Nat \ {0}
    /\ MaxDomainDecisionBuckets \in Nat
    /\ DOMAIN Placeholders \cap Braced = {}

Problem(block, rule, reason) == [block |-> block, rule |-> rule, reason |-> reason]

Informational(reason) == reason \in {"CaptureShadowsMappedKey", "CostExceedsCapacity"}

Blocking(problems) == \E p \in problems : ~Informational(p.reason)

\* The elements of a sequence that an earlier element equals.
Repeats(s) == {i \in DOMAIN s : \E j \in 1 .. i - 1 : s[j] = s[i]}

-----------------------------------------------------------------------------
(***************************************************************************)
(* Keys, groups and the plan of extraction.                                *)
(***************************************************************************)
BuiltinSub == [key |-> KeySub, path |-> <<"sub">>, type |-> "String",
               normalization |-> "Lowercase", fallbacks |-> <<>>]

HasEmptySegment(path) == path = <<>> \/ \E i \in DOMAIN path : path[i] = ""

Extraction(km) ==
    [key  |-> km.key,
     path |-> IF km.claim # <<>> THEN km.claim ELSE km.claimPath,
     type |-> IF km.type = "" THEN "String" ELSE km.type,
     normalization |-> IF km.normalization = "" THEN "None" ELSE km.normalization,
     fallbacks |-> km.fallbacks]

KeyMappingFails(km) ==
    \/ km.key \in BadNames \cup {KeyPath, KeyMethod, KeyToken}
    \/ (km.claim = <<>>) = (km.claimPath = <<>>)
    \/ km.type \notin ValueTypes
    \/ km.normalization \notin Normalizations
    \/ HasEmptySegment(Extraction(km).path)
    \/ \E i \in DOMAIN km.fallbacks : HasEmptySegment(km.fallbacks[i])

\* The built-in sub comes first unless a mapping overrides it.
Plan(policy) ==
    LET mapped == [i \in DOMAIN policy.mappings |-> Extraction(policy.mappings[i])]
    IN IF \E i \in DOMAIN mapped : mapped[i].key = KeySub
       THEN mapped
       ELSE <<BuiltinSub>> \o mapped

ListValuedKeys(plan) == {plan[i].key : i \in {j \in DOMAIN plan : plan[j].type = "StringArray"}}

EffectiveKeys(plan) == {KeyPath, KeyMethod, KeySub} \cup {plan[i].key : i \in DOMAIN plan}

GroupValues(policy, name) ==
    UNION {ToSet(policy.groups[i].values) :
               i \in {j \in DOMAIN policy.groups : policy.groups[j].name = name}}

EnvironmentProblems(domain, policy) ==
    LET keys   == [i \in DOMAIN policy.mappings |-> policy.mappings[i].key]
        groups == [i \in DOMAIN policy.groups |-> policy.groups[i].name]
    IN IF \/ policy.domain # domain
          \/ Repeats(keys) # {}
          \/ \E i \in DOMAIN keys : KeyMappingFails(policy.mappings[i])
          \/ Repeats(groups) # {}
          \/ "" \in ToSet(groups)
       THEN {Problem("", "", "InvalidSpec")}
       ELSE {}

-----------------------------------------------------------------------------
(***************************************************************************)
(* Routes.                                                                 *)
(***************************************************************************)
\* strings.Split(strings.TrimPrefix(value, "/"), "/").
TemplateParts(value) == IF Head(value) = "" /\ Len(value) > 1 THEN Tail(value) ELSE value

Segments(value) ==
    LET parts == TemplateParts(value)
    IN [i \in DOMAIN parts |->
            IF parts[i] \in DOMAIN Placeholders
            THEN [literal |-> "", capture |-> Placeholders[parts[i]]]
            ELSE [literal |-> parts[i], capture |-> ""]]

CapturesOf(segments) == {segments[i].capture : i \in DOMAIN segments} \ {""}

TemplateReasons(value, keys) ==
    LET parts == TemplateParts(value)
        named == [i \in DOMAIN parts |-> Segments(value)[i].capture]
    IN UNION {IF parts[i] = "" \/ parts[i] \in Braced THEN {"InvalidSpec"}
              ELSE IF named[i] = "" THEN {}
              ELSE IF \/ named[i] \in BadNames \cup {KeyPath, KeyMethod, KeySub, KeyToken}
                      \/ i \in Repeats(named)
                   THEN {"InvalidSpec"}
              ELSE IF named[i] \in keys THEN {"CaptureShadowsMappedKey"}
              ELSE {} : i \in DOMAIN parts}

CompiledCost(cost) ==
    IF Set(cost)
    THEN [parameter |-> cost.name, default |-> IF cost.default = 0 THEN 1 ELSE cost.default]
    ELSE Unset

CostFails(cost) ==
    /\ Set(cost)
    /\ \/ cost.source # "QueryParameter"
       \/ cost.name \in BadNames
       \/ CompiledCost(cost).default \notin 1 .. MaxCost

CompiledRoute(route) ==
    [type     |-> route.type,
     value    |-> route.value,
     segments |-> IF route.type = "Template" THEN Segments(route.value) ELSE <<>>,
     methods  |-> ToSet(route.methods),
     cost     |-> CompiledCost(route.cost)]

RouteReasons(route, keys) ==
    (IF \/ Head(route.value) # "" \/ Len(route.value) = 1     \* no leading slash
        \/ route.type \notin PathTypes
        \/ ~ToSet(route.methods) \subseteq HttpMethods
        \/ Repeats(route.methods) # {}
        \/ CostFails(route.cost)
     THEN {"InvalidSpec"} ELSE {})
    \cup (IF route.type = "Template" THEN TemplateReasons(route.value, keys) ELSE {})

-----------------------------------------------------------------------------
(***************************************************************************)
(* Rules.                                                                  *)
(***************************************************************************)
\* Group indirection ends here.
CompiledPredicate(policy, p) ==
    [key |-> p.key, operator |-> p.operator, value |-> p.value,
     values |-> CASE p.operator = "InGroup" -> GroupValues(policy, p.value)
                  [] p.operator = "In" -> ToSet(p.values)
                  [] OTHER -> {}]

\* operatorArity.
ArityFails(p) ==
    CASE p.operator \in {"Equals", "Contains", "InGroup"} -> p.value = "" \/ p.values # <<>>
      [] p.operator = "In" -> p.values = <<>> \/ p.value # ""
      [] p.operator \in {"Exists", "DoesNotExist"} -> p.value # "" \/ p.values # <<>>
      [] OTHER -> TRUE

\* keys are those the block resolves, lists the list-valued ones among them.
PredicateReasons(policy, p, keys, lists) ==
    IF p.key \in {KeyPath, KeyMethod, KeyToken} THEN {"InvalidSpec"}
    ELSE IF p.key \notin keys THEN {"UnresolvedKeyReference"}
    ELSE IF ArityFails(p) THEN {"InvalidSpec"}
    ELSE IF p.operator = "Equals" /\ p.key \in lists THEN {"IncompatibleOperator"}
    ELSE IF /\ p.operator = "InGroup"
            /\ \A i \in DOMAIN policy.groups : policy.groups[i].name # p.value
         THEN {"UnresolvedGroupReference"}
    ELSE {}

CounterReasons(axis, keys, lists) ==
    IF axis \notin keys THEN {"UnresolvedKeyReference"}
    ELSE IF axis \in lists THEN {"InvalidCounterAxis"}
    ELSE {}

AlgorithmOf(rate) == IF rate.algorithm = "" THEN "GCRA" ELSE rate.algorithm

\* The default burst of GCRA is a full bucket.
WindowOf(rate) ==
    [requests |-> rate.requests, period |-> rate.period,
     burst |-> IF AlgorithmOf(rate) = "GCRA" /\ rate.burst = 0 THEN rate.requests ELSE rate.burst]

\* The prefix of a rate's counter keys: block, rule, algorithm and period, every
\* part escaped, so that different parts make different prefixes.
CompiledRate(block, rule, rate) ==
    [algorithm |-> AlgorithmOf(rate), window |-> WindowOf(rate),
     prefix |-> <<block, rule, AlgorithmOf(rate), rate.period>>]

RateReasons(rates) ==
    UNION {IF i \in Repeats([j \in DOMAIN rates |-> rates[j].period]) THEN {"InvalidSpec"}
           ELSE IF AlgorithmOf(rates[i]) \notin AlgorithmNames THEN {"InvalidSpec"}
           ELSE IF ~Check(AlgorithmOf(rates[i]), WindowOf(rates[i])) THEN {"InvalidWindow"}
           ELSE {} : i \in DOMAIN rates}

Resolved(word, default) == IF word = "" THEN default ELSE word

\* ratesCompilable, then the entries.
RatesReasons(rule) ==
    IF rule.behavior = "Bypass"
    THEN IF rule.rates = <<>> THEN {} ELSE {"InvalidSpec"}
    ELSE IF rule.rates = <<>> THEN {"InvalidSpec"} ELSE RateReasons(rule.rates)

CompiledRule(policy, block, rule) ==
    [name     |-> rule.name,
     behavior |-> Resolved(rule.behavior, "Enforce"),
     matches  |-> [i \in DOMAIN rule.matches |-> CompiledPredicate(policy, rule.matches[i])],
     counters |-> rule.counters,
     rates    |-> IF rule.behavior = "Bypass" THEN <<>>
                  ELSE [i \in DOMAIN rule.rates |->
                            CompiledRate(block.name, rule.name, rule.rates[i])],
     replaced |-> rule.replaced]

\* The mode compared with FirstMatch is the authored one.
RuleReasons(policy, block, rule, keys, lists) ==
    (IF \/ rule.behavior \notin Behaviors
        \/ rule.behavior = "Bypass" /\ block.mode # "FirstMatch" /\ rule.replaced = <<>>
     THEN {"InvalidSpec"} ELSE {})
    \cup UNION {PredicateReasons(policy, rule.matches[i], keys, lists) : i \in DOMAIN rule.matches}
    \cup UNION {CounterReasons(rule.counters[i], keys, lists) : i \in DOMAIN rule.counters}
    \cup RatesReasons(rule)

\* checkReplacedRules.
ReplacedReasons(block, rule) ==
    IF rule.replaced = <<>> THEN {}
    ELSE IF block.mode = "FirstMatch" THEN {"InvalidSpec"}
    ELSE IF \E i \in DOMAIN rule.replaced :
                \/ rule.replaced[i] = rule.name
                \/ \A j \in DOMAIN block.rules : block.rules[j].name # rule.replaced[i]
         THEN {"UnresolvedReplacedRules"}
    ELSE {}

\* windowBelow and bucketCapacity: the burst of GCRA, the requests of a fixed window.
CapacityOf(window) == IF window.burst = 0 THEN window.requests ELSE window.burst

\* checkCostCapacity.
CostReasons(routes, rule) ==
    IF \E i \in DOMAIN routes : /\ Set(routes[i].cost)
                                /\ \E j \in DOMAIN rule.rates :
                                       routes[i].cost.default > CapacityOf(rule.rates[j].window)
    THEN {"CostExceedsCapacity"} ELSE {}

-----------------------------------------------------------------------------
(***************************************************************************)
(* Blocks, and the snapshot.                                               *)
(***************************************************************************)
CompiledBlock(policy, block) ==
    LET routes == [i \in DOMAIN block.routes |-> CompiledRoute(block.routes[i])]
    IN [name     |-> block.name,
        mode     |-> Resolved(block.mode, "All"),
        routes   |-> routes,
        captures |-> UNION {CapturesOf(routes[i].segments) : i \in DOMAIN routes},
        rules    |-> [i \in DOMAIN block.rules |-> CompiledRule(policy, block, block.rules[i])]]

BlockProblems(policy, plan, block) ==
    LET compiled == CompiledBlock(policy, block)
        keys   == EffectiveKeys(plan) \cup compiled.captures
        lists  == ListValuedKeys(plan) \ compiled.captures
        names  == [i \in DOMAIN block.rules |-> block.rules[i].name]
        broken == \/ block.mode \notin Modes
                  \/ block.rules = <<>>
                  \/ Repeats(names) # {}
    IN {Problem(block.name, "", reason) : reason \in
            (IF broken THEN {"InvalidSpec"} ELSE {})
            \cup UNION {RouteReasons(block.routes[i], EffectiveKeys(plan)) : i \in DOMAIN block.routes}}
       \cup UNION {{Problem(block.name, names[i], reason) : reason \in
                        RuleReasons(policy, block, block.rules[i], keys, lists)
                        \cup ReplacedReasons(block, block.rules[i])
                        \cup CostReasons(compiled.routes, compiled.rules[i])} :
                   i \in DOMAIN names}

\* A mutant: a cascade is taken to stop at its widest rule, shadow or not.
BlockDecisionBucketsWidest(block) ==
    LET rates == [i \in DOMAIN block.rules |-> Len(block.rules[i].rates)]
    IN IF block.mode = "FirstMatch" THEN Max({0} \cup Range(rates))
       ELSE MapThenSumSet(LAMBDA i : rates[i], DOMAIN rates)

\* One block's share of the worst case: a cascade settles on its widest
\* counting rule after every shadow rule.
BlockDecisionBuckets(block) ==
    LET rates  == [i \in DOMAIN block.rules |-> Len(block.rules[i].rates)]
        always == {i \in DOMAIN rates : \/ block.mode # "FirstMatch"
                                        \/ block.rules[i].behavior = "Shadow"}
    IN MapThenSumSet(LAMBDA i : rates[i], always)
       + Max({0} \cup {rates[i] : i \in DOMAIN rates \ always})

DecisionBuckets(blocks) ==
    MapThenSumSet(LAMBDA i : BlockDecisionBuckets(blocks[i]), DOMAIN blocks)

\* Compile.  The namespace and the domain's name are taken to be well formed.
Compile(domain, policy) ==
    LET plan     == Plan(policy)
        blocks   == [i \in DOMAIN policy.blocks |-> CompiledBlock(policy, policy.blocks[i])]
        names    == [i \in DOMAIN blocks |-> blocks[i].name]
        local    == EnvironmentProblems(domain, policy)
                    \cup UNION {BlockProblems(policy, plan, policy.blocks[i]) : i \in DOMAIN blocks}
                    \cup (IF blocks = <<>> \/ Repeats(names) # {}
                          THEN {Problem("", "", "InvalidSpec")} ELSE {})
        \* A rate with a problem has no window, and its generation is refused anyway.
        over     == ~Blocking(local) /\ DecisionBuckets(blocks) > MaxDomainDecisionBuckets
        problems == local \cup (IF over THEN {Problem("", "", "DomainBudgetExceeded")} ELSE {})
    IN [problems |-> problems,
        snapshot |-> [domain |-> domain, plan |-> plan,
                      blocks |-> IF Blocking(problems) THEN <<>> ELSE blocks]]

=============================================================================
