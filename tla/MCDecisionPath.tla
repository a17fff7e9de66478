--------------------------- MODULE MCDecisionPath ---------------------------
(***************************************************************************)
(* Worlds for DecisionPath.  Each one asks one question of the path: the   *)
(* routes of a block, the cascade of its rules, the token cache under      *)
(* concurrent calls and generations, the costs of a query, the version of  *)
(* a rule set, and the refusals of the compiler.                           *)
(***************************************************************************)
EXTENDS DecisionPath

CONSTANTS c1, c2

MCPlaceholders == ("{t}" :> "t") @@ ("{u}" :> "u")
MCStartsWith == {<<"a", "ab">>}
MCDecodes == ("%32" :> "2") @@ ("%" :> "")
MCNumberOf == ("1" :> 1) @@ ("2" :> 2) @@ ("9" :> 9)
MCLowered == ("Ann" :> "ann") @@ ("X" :> "x")

\* Spec constructors.
Pred(key, operator, value, values) ==
    [key |-> key, operator |-> operator, value |-> value, values |-> values]
RateOf(requests, period) ==
    [requests |-> requests, period |-> period, burst |-> Unset, algorithm |-> ""]
OneRate == <<RateOf(2, 8)>>
TwoRates == <<RateOf(2, 8), RateOf(3, 16)>>
RuleOf(name, matches, counters, rates, behavior, replaced) ==
    [name |-> name, matches |-> matches, counters |-> counters, rates |-> rates,
     behavior |-> behavior, replaced |-> replaced]
RouteOf(type, value, methods) ==
    [type |-> type, value |-> value, methods |-> methods, cost |-> Unset]
BlockOf(name, mode, target, rules) == [name |-> name, mode |-> mode, target |-> target, rules |-> rules]
MappingOf(key, claim, type, normalization, fallbacks) ==
    [key |-> key, claim |-> claim, claimPath |-> <<>>, type |-> type,
     normalization |-> normalization, fallbacks |-> fallbacks]
SpecOf(mappings, groups, limits) ==
    [domain |-> "d", mappings |-> mappings, groups |-> groups, limits |-> limits]

\* Claims and tokens.
Text(v) == [kind |-> "string", items |-> <<v>>, fields |-> NoKeys]
List(vs) == [kind |-> "array", items |-> vs, fields |-> NoKeys]
Object(fields) == [kind |-> "object", items |-> <<>>, fields |-> fields]
TokenOf(text, fields) == [text |-> text, decodes |-> TRUE, claims |-> Object(fields)]
NoToken == [text |-> "", decodes |-> FALSE, claims |-> Object(NoKeys)]
BadToken == [text |-> "bad", decodes |-> FALSE, claims |-> Object(NoKeys)]

RequestOf(path, method, token) ==
    [via |-> "gateway", path |-> path, method |-> method, query |-> <<>>, token |-> token,
     keys |-> NoKeys, cost |-> 0]
QuestionOf(path, method, axes, absent) ==
    [path |-> path, method |-> method, axes |-> axes, absent |-> absent]

Root == <<"", "">>
A    == <<"", "a">>
ASlash == <<"", "a", "">>
Ab   == <<"", "ab">>
AB   == <<"", "a", "b">>
XB   == <<"", "x", "b">>
ABC  == <<"", "a", "b", "c">>

-----------------------------------------------------------------------------
\* Two routes of one block, in either order, with and without an identity key of
\* the capture's name.
RouteShapes ==
    {RouteOf("Exact", AB, <<"POST">>), RouteOf("Prefix", A, <<>>), RouteOf("Prefix", ASlash, <<"GET">>),
     RouteOf("Prefix", Root, <<>>), RouteOf("Template", <<"", "a", "{t}">>, <<"GET">>),
     RouteOf("Template", <<"", "{t}", "b">>, <<>>)}

PlanMapping == MappingOf("plan", <<"plan">>, "", "", <<>>)
CaptureMapping == MappingOf("t", <<"tenant">>, "StringArray", "", <<>>)

RoutingPolicies ==
    {SpecOf(mappings, <<>>,
            <<BlockOf("b", "FirstMatch", <<one, two>>,
                      <<RuleOf("r1", <<Pred("t", "In", "", <<"b", "x">>)>>, <<"t">>, OneRate, "", <<>>),
                        RuleOf("r2", <<Pred("t", "Exists", "", <<>>)>>, <<"path">>, OneRate, "Shadow", <<>>),
                        RuleOf("r3", <<>>, <<"path", "method">>, OneRate, "Enforce", <<>>)>>)>>) :
        mappings \in {<<>>, <<CaptureMapping>>}, one \in RouteShapes, two \in RouteShapes}

Tenants == {NoToken, TokenOf("tb", "tenant" :> List(<<"b">>)), TokenOf("txy", "tenant" :> List(<<"x", "y">>))}

RoutingRequests ==
    {RequestOf(path, method, token) :
        path \in {Root, A, ASlash, Ab, AB, XB, ABC}, method \in {"GET", "POST"}, token \in Tenants}

RoutingQuestions ==
    {QuestionOf(route[1], route[2], axes, absent) :
        route \in {<<Unset, "">>} \cup ({A, AB, XB} \X {"", "GET"}),
        axes \in {NoKeys, "t" :> <<"b">>, "t" :> <<"x">>, "method" :> <<"GET">>,
                  ("t" :> <<"b">>) @@ ("method" :> <<"GET">>)},
        absent \in {{}, {"t"}}}

Alone == [domain |-> "d", capacity |-> 0, budget |-> 0, generations |-> 1]

Routing == Alone @@ [policies |-> RoutingPolicies, requests |-> RoutingRequests,
                     questions |-> {}, callers |-> {c1}]

RoutingAsked == Alone @@ [policies |-> RoutingPolicies, requests |-> RoutingRequests,
                          questions |-> RoutingQuestions, callers |-> {}]

-----------------------------------------------------------------------------
\* Three rules of one block, of every behavior, under both modes; in mode All each
\* rule replaces the next one.
Conditions == {<<>>, <<Pred("plan", "InGroup", "paid", <<>>)>>, <<Pred("roles", "Contains", "x", <<>>)>>}

Mappings == <<MappingOf("plan", <<"plan">>, "", "", <<<<"org", "plan">>>>),
              MappingOf("roles", <<"roles">>, "StringArray", "Lowercase", <<>>)>>

Groups == <<[name |-> "paid", values |-> <<"gold", "silver">>]>>

CascadePolicies ==
    {SpecOf(Mappings, Groups,
            <<BlockOf("b", mode, Unset,
                      [i \in 1 .. 3 |->
                          RuleOf(<<"r1", "r2", "r3">>[i], matches[i], counters,
                                 IF behaviors[i] = "Bypass" THEN <<>>
                                 ELSE IF counters = <<>> THEN TwoRates ELSE OneRate, behaviors[i],
                                 IF mode = "All" /\ i < 3 THEN <<<<"r2", "r3">>[i]>> ELSE <<>>)])>>) :
        mode \in {"All", "FirstMatch"},
        matches \in [1 .. 3 -> Conditions],
        behaviors \in {<<"", "", "">>, <<"Shadow", "", "Enforce">>, <<"Bypass", "Shadow", "">>,
                       <<"Shadow", "Shadow", "">>, <<"", "Bypass", "Shadow">>},
        counters \in {<<>>, <<"plan">>}}

CascadeTokens ==
    {NoToken, BadToken,
     TokenOf("gold", ("plan" :> Text("gold")) @@ ("roles" :> List(<<"x", "y">>))
                     @@ ("sub" :> Text("Ann")) @@ ("uid" :> Text("X"))),
     TokenOf("org", ("plan" :> Text("long")) @@ ("roles" :> List(<<"x", Foreign>>))
                    @@ ("org" :> Object("plan" :> Text("silver")))),
     TokenOf("free", ("plan" :> Text("free")) @@ ("roles" :> List(<<"", "x">>)))}

CascadeRequests ==
    {RequestOf(A, "GET", token) : token \in CascadeTokens}
    \cup {[RequestOf(A, "GET", token) EXCEPT !.via = via, !.keys = keys, !.cost = 2] :
             token \in {NoToken, BadToken}, via \in {"gateway", "simulate"},
             keys \in {("roles" :> <<"X", "x">>) @@ ("plan" :> <<"">>), "plan" :> <<"silver">>,
                       "plan" :> <<"a", "b", "c", "d">>}}

CascadeQuestions ==
    {QuestionOf(Unset, "", axes, absent) :
        axes \in {NoKeys, "plan" :> <<"gold">>, "plan" :> <<"free">>, "roles" :> <<"x", "y">>,
                  "roles" :> <<"x">>,
                  ("plan" :> <<"gold">>) @@ ("roles" :> <<"x", "y">>),
                  ("plan" :> <<"free">>) @@ ("roles" :> <<"x">>)},
        absent \in {{}, {"roles"}, {"plan"}}}

Cascade == Alone @@ [policies |-> CascadePolicies, requests |-> CascadeRequests,
                     questions |-> {}, callers |-> {c1}]

CascadeAsked == Alone @@ [policies |-> CascadePolicies, requests |-> CascadeRequests,
                          questions |-> CascadeQuestions, callers |-> {}]

-----------------------------------------------------------------------------
\* Two callers, three tokens and two generations that read them differently.
CachePolicies ==
    {SpecOf(<<MappingOf("plan", claim, "", "", <<<<"alt">>>>)>>, <<>>,
            <<BlockOf("b", "All", Unset,
                      <<RuleOf("r", <<>>, <<"plan", "sub">>, OneRate, "", <<>>)>>)>>) :
        claim \in {<<"plan">>, <<"tier">>}}

Number == [kind |-> "other", items |-> <<>>, fields |-> NoKeys]

\* "big" takes its plan from the fallback, past a number, and is never cached;
\* "small" has no plan.
CacheToken(name) ==
    TokenOf(name, ("sub" :> Text("Ann"))
                  @@ (IF name = "small" THEN NoKeys
                      ELSE IF name = "big" THEN ("plan" :> Number) @@ ("tier" :> Number) @@ ("alt" :> Text("gold"))
                      ELSE ("plan" :> Text(name)) @@ ("tier" :> Text("gold"))))

Plainly(names) == {RequestOf(A, "GET", CacheToken(name)) : name \in names}

Overlaid == [RequestOf(A, "GET", CacheToken("t1")) EXCEPT !.keys = "plan" :> <<"own", "own">>]

Caching(capacity, budget, generations, requests) ==
    [domain |-> "d", capacity |-> capacity, budget |-> budget, generations |-> generations,
     policies |-> CachePolicies, requests |-> requests, questions |-> {}, callers |-> {c1, c2}]

\* A retired engine that no call holds is gone, a snapshot follows from its spec,
\* and what was stored since a token's last use matters as long as the token
\* may be claimed to be cached.
MCView ==
    LET live(n) == n = Len(engines) \/ \E c \in World.callers : calls[c] # Idle /\ calls[c].engine = n
        claim(n, t) == IF Cardinality(recent[n][t]) > engines[n].cache.half THEN {"lost"} ELSE recent[n][t]
    IN <<world, report, calls, answer,
         [n \in DOMAIN engines |->
             IF live(n)
             THEN <<engines[n].spec, engines[n].cache, [t \in DOMAIN recent[n] |-> claim(n, t)]>>
             ELSE <<engines[n].spec>>]>>

-----------------------------------------------------------------------------
\* Variations of one policy, which a version has to tell apart where they decide
\* differently and need not where they do not.
VariedBlock(mode, route, p, counters, behavior, replaced) ==
    BlockOf("b", mode, <<route>>,
            <<RuleOf("r1", <<p>>, counters, OneRate, behavior, replaced),
              RuleOf("r2", <<>>, <<"path">>, TwoRates, "", <<>>)>>)

Free == Pred("plan", "In", "", <<"silver", "gold">>)
Paid == Pred("plan", "InGroup", "paid", <<>>)
AnyA == RouteOf("Prefix", A, <<>>)
Costly(default) == [source |-> "QueryParameter", name |-> "n", default |-> default]

VariedPolicies ==
    {SpecOf(Mappings, Groups, <<block>>) : block \in
        {VariedBlock("All", AnyA, Free, <<>>, "", <<>>),
         VariedBlock("", AnyA, Paid, <<>>, "Enforce", <<>>),
         VariedBlock("All", AnyA, Pred("plan", "Equals", "gold", <<>>), <<>>, "", <<>>),
         VariedBlock("FirstMatch", AnyA, Paid, <<>>, "", <<>>),
         VariedBlock("All", AnyA, Pred("plan", "DoesNotExist", "", <<>>), <<>>, "", <<>>),
         VariedBlock("All", RouteOf("Prefix", A, <<"GET">>), Paid, <<>>, "", <<>>),
         VariedBlock("All", RouteOf("Template", <<"", "{t}", "b">>, <<>>), Paid, <<"t">>, "", <<>>),
         VariedBlock("All", RouteOf("Template", <<"", "a", "{t}">>, <<>>), Paid, <<"t">>, "", <<>>),
         VariedBlock("All", [AnyA EXCEPT !.cost = Costly(2)], Paid, <<>>, "", <<>>),
         VariedBlock("All", [AnyA EXCEPT !.cost = Costly(Unset)], Paid, <<>>, "", <<>>),
         VariedBlock("All", AnyA, Paid, <<"plan">>, "", <<>>),
         VariedBlock("All", AnyA, Paid, <<>>, "Shadow", <<"r2">>),
         VariedBlock("All", AnyA, Paid, <<>>, "", <<"r2">>)}}
    \cup {SpecOf(Append(Mappings, MappingOf("sub", <<"uid">>, "", "", <<<<"sub">>>>)), Groups,
                 <<VariedBlock("All", AnyA, Paid, <<"sub">>, "", <<>>)>>)}

Query(values) == [i \in DOMAIN values |-> [name |-> "n", value |-> values[i]]]

VariedRequests ==
    {[RequestOf(path, method, token) EXCEPT !.query = Query(values)] :
        path \in {A, AB}, method \in {"GET", "POST"}, token \in CascadeTokens,
        values \in {<<>>, <<"2", "1">>, <<"%32", "%">>, <<"x", "9">>}}

Varied(generations, callers) ==
    [domain |-> "d", capacity |-> 2, budget |-> 20, generations |-> generations,
     policies |-> VariedPolicies, requests |-> VariedRequests, questions |-> {}, callers |-> callers]

-----------------------------------------------------------------------------
\* One policy for each thing the compiler refuses, and one it takes.
Sound == SpecOf(Mappings, Groups, <<VariedBlock("All", AnyA, Paid, <<"plan">>, "", <<"r2">>)>>)

WithRoute(route) == [Sound EXCEPT !.limits[1].target = <<route>>]
WithMatch(p) == [Sound EXCEPT !.limits[1].rules[1].matches = <<p>>]
WithRates(rates) == [Sound EXCEPT !.limits[1].rules[1].rates = rates]
WithMapping(mapping) == [Sound EXCEPT !.mappings = Append(@, mapping)]

RefusedPolicies ==
    {Sound, [Sound EXCEPT !.domain = "e"], [Sound EXCEPT !.limits = <<>>],
     [Sound EXCEPT !.limits = @ \o @], [Sound EXCEPT !.limits[1].rules = <<>>],
     [Sound EXCEPT !.limits[1].mode = "Some"], [Sound EXCEPT !.limits[1].mode = "FirstMatch"],
     [Sound EXCEPT !.limits[1].rules[2].name = "r1"], [Sound EXCEPT !.limits[1].rules[1].replaced = <<"r1">>],
     [Sound EXCEPT !.limits[1].rules[1].behavior = "Bypass"],
     [Sound EXCEPT !.limits[1].rules[1].counters = <<"roles">>],
     [Sound EXCEPT !.limits[1].rules[1].counters = <<"tenant">>],
     [Sound EXCEPT !.groups = @ \o @], [Sound EXCEPT !.groups = <<>>]}
    \cup {WithMapping(mapping) : mapping \in
            {PlanMapping, MappingOf("path", <<"p">>, "", "", <<>>), MappingOf("q", <<>>, "", "", <<>>),
             MappingOf("q", <<"q", "">>, "", "", <<>>), MappingOf("q", <<"q">>, "Map", "", <<>>)}}
    \cup {WithRoute(route) : route \in
            {RouteOf("Prefix", <<"a">>, <<>>), RouteOf("Glob", A, <<>>), RouteOf("Exact", A, <<"GET", "GET">>),
             RouteOf("Exact", A, <<"FETCH">>), RouteOf("Template", ASlash, <<>>),
             RouteOf("Template", <<"", "{t}", "{t}">>, <<>>), RouteOf("Template", <<"", "{">>, <<>>),
             [AnyA EXCEPT !.cost = Costly(9)]}}
    \cup {WithMatch(p) : p \in
            {Pred("path", "Exists", "", <<>>), Pred("tenant", "Exists", "", <<>>), Pred("plan", "Exists", "x", <<>>),
             Pred("plan", "Equals", "", <<>>), Pred("roles", "Equals", "x", <<>>), Pred("plan", "InGroup", "x", <<>>)}}
    \cup {WithRates(rates) : rates \in
            {<<>>, OneRate \o OneRate, <<RateOf(0, 8)>>, <<[RateOf(1, 8) EXCEPT !.algorithm = "Leaky"]>>,
             <<[RateOf(1, 8) EXCEPT !.algorithm = "FixedWindow", !.burst = 1]>>}}

Refusals ==
    [domain |-> "d", capacity |-> 2, budget |-> 20, generations |-> 2, policies |-> RefusedPolicies,
     requests |-> {RequestOf(AB, "GET", TokenOf("t", "plan" :> Text("gold")))}, questions |-> {},
     callers |-> {c1}]

CacheOne == Caching(1, 10, 1, Plainly({"t1", "t2", "big"}) \cup {Overlaid})
CacheTwo == Caching(2, 20, 1, Plainly({"t1", "t2", "t3"}) \cup {Overlaid})
CacheSix == Caching(6, 24, 1, Plainly({"t1", "t2", "small"}))
CacheSwap == Caching(2, 20, 2, Plainly({"t1"}) \cup {Overlaid})
Versions == Varied(2, {})
Costs == Varied(1, {c1})

MCWorlds ==
    [w \in {"routing", "routing_asked", "cascade", "cascade_asked", "one", "two", "six", "swap",
            "versions", "costs", "refusals"} |->
        CASE w = "routing" -> Routing [] w = "routing_asked" -> RoutingAsked
          [] w = "cascade" -> Cascade [] w = "cascade_asked" -> CascadeAsked
          [] w = "one" -> CacheOne [] w = "two" -> CacheTwo [] w = "six" -> CacheSix
          [] w = "swap" -> CacheSwap [] w = "versions" -> Versions [] w = "costs" -> Costs
          [] w = "refusals" -> Refusals]
=============================================================================
