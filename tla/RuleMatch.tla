----------------------------- MODULE RuleMatch ------------------------------
(***************************************************************************)
(* The engine's matcher (engine/match): the target phase, which picks the  *)
(* blocks of a request by its path and method, and the rule phase, which   *)
(* expands the rules that apply into counter keys.                         *)
(*                                                                         *)
(* The value of a key is a sequence, empty where the key is absent.  A     *)
(* query is a sequence of [name, value] as sent.                           *)
(***************************************************************************)
EXTENDS RuleCompile

CONSTANTS
    StartsWith,    \* pairs <<s, t>>: segment t begins with segment s and is longer
    Decodes,       \* query text as sent -> its decoded form, "" where malformed
    NumberOf       \* text of digits -> its number

-----------------------------------------------------------------------------
(***************************************************************************)
(* The cost a route reads from the query string.                           *)
(***************************************************************************)
Unescape(s) == IF s \in DOMAIN Decodes THEN Decodes[s] ELSE s

PositiveInteger(s) == IF s \in DOMAIN NumberOf THEN Min({NumberOf[s], MaxCost}) ELSE 0

QueryCost(cost, query) ==
    LET mine == {i \in DOMAIN query : Unescape(query[i].name) = cost.parameter}
        read(i) == LET n == PositiveInteger(Unescape(query[i].value))
                   IN IF n = 0 THEN cost.default ELSE n
    IN IF mine = {} THEN cost.default ELSE Max({read(i) : i \in mine})

-----------------------------------------------------------------------------
(***************************************************************************)
(* Paths.                                                                  *)
(***************************************************************************)
NoCaptures == [n \in {} |-> ""]

\* strings.HasPrefix of the joined texts.
HasPrefix(path, value) ==
    /\ Len(value) <= Len(path)
    /\ Front(value) = SubSeq(path, 1, Len(value) - 1)
    /\ LET s == Last(value)  t == path[Len(value)]
       IN s = "" \/ s = t \/ <<s, t>> \in StartsWith

\* The match ends at the end of the path, at a slash of the value, or before a
\* slash of the path.
MatchPrefix(value, path) ==
    /\ HasPrefix(path, value)
    /\ \/ path = value
       \/ Last(value) = ""
       \/ Len(path) > Len(value) /\ path[Len(value)] = Last(value)

\* A placeholder takes exactly one non-empty segment, and the template covers
\* the whole path.
MatchTemplate(segments, path) ==
    LET parts == Tail(path)
    IN /\ Head(path) = "" /\ Len(path) > 1
       /\ Len(parts) = Len(segments)
       /\ \A i \in DOMAIN segments : IF segments[i].capture = ""
                                     THEN parts[i] = segments[i].literal
                                     ELSE parts[i] # ""

TemplateCaptures(segments, path) ==
    [n \in CapturesOf(segments) |->
        path[1 + CHOOSE i \in DOMAIN segments : segments[i].capture = n]]

MatchPath(route, path) ==
    CASE route.type = "Exact"    -> path = route.value
      [] route.type = "Prefix"   -> MatchPrefix(route.value, path)
      [] route.type = "Template" -> MatchTemplate(route.segments, path)

CapturesIn(route, path) ==
    IF route.type = "Template" THEN TemplateCaptures(route.segments, path) ELSE NoCaptures

-----------------------------------------------------------------------------
(***************************************************************************)
(* The target phase.                                                       *)
(***************************************************************************)
\* matchTarget: the first route, in authored order, that admits the request; the
\* set is empty where none does, or where the block has no routes at all.
MatchTarget(block, path, method) ==
    LET admitting == {i \in DOMAIN block.routes :
                        /\ block.routes[i].methods = {} \/ method \in block.routes[i].methods
                        /\ MatchPath(block.routes[i], path)}
    IN IF admitting = {} THEN {} ELSE {Min(admitting)}

\* One targeted block: what the path axis reports inside it, the captures, and
\* the cost, zero where the route reads none.
Hit(block, i, path, query) ==
    LET route == block.routes[i]
    IN [block    |-> block,
        axis     |-> IF route.type = "Template" THEN route.value ELSE path,
        captures |-> CapturesIn(route, path),
        cost     |-> IF Set(route.cost) THEN QueryCost(route.cost, query) ELSE 0]

HitsOf(block, path, method, query) ==
    IF block.routes = <<>>
    THEN <<[block |-> block, axis |-> path, captures |-> NoCaptures, cost |-> 0]>>
    ELSE SetToSeq({Hit(block, i, path, query) : i \in MatchTarget(block, path, method)})

Match(snapshot, path, method, query) ==
    FlattenSeq([b \in DOMAIN snapshot.blocks |->
                    HitsOf(snapshot.blocks[b], path, method, query)])

\* Candidates.Targets.
Targets(hits) ==
    [i \in DOMAIN hits |-> [block |-> hits[i].block, captures |-> hits[i].captures, undecided |-> {}]]

\* The routes that decide a request for the path under some method: a route
\* decides the methods it names that no earlier admitting route named, and none
\* after a route without methods.
Deciders(block, path) ==
    LET admitting == {i \in DOMAIN block.routes : MatchPath(block.routes[i], path)}
        earlier(i) == {j \in admitting : j < i}
    IN {i \in admitting :
            /\ \A j \in earlier(i) : block.routes[j].methods # {}
            /\ \/ block.routes[i].methods = {}
               \/ ~block.routes[i].methods \subseteq UNION {block.routes[j].methods : j \in earlier(i)}}

\* targetByPath.
TargetByPath(block, path) ==
    LET deciders == Deciders(block, path)
        captures(i) == CapturesIn(block.routes[i], path)
        produced(n) == {i \in deciders : n \in DOMAIN captures(i)}
        values(n)   == {captures(i)[n] : i \in produced(n)}
        decided == {n \in block.captures : produced(n) = deciders /\ Cardinality(values(n)) = 1}
    IN IF block.routes = <<>>
       THEN <<[block |-> block, captures |-> NoCaptures, undecided |-> {}]>>
       ELSE IF deciders = {} THEN <<>>
       ELSE <<[block     |-> block,
               captures  |-> [n \in decided |-> CHOOSE v \in values(n) : TRUE],
               undecided |-> {n \in block.captures \ decided : produced(n) # {}}]>>

TargetsByPath(snapshot, path) ==
    FlattenSeq([b \in DOMAIN snapshot.blocks |-> TargetByPath(snapshot.blocks[b], path)])

-----------------------------------------------------------------------------
(***************************************************************************)
(* The rule phase.  A block sees a request through                         *)
(*     [method, keys, axis, captures, cost].                               *)
(***************************************************************************)
Context(hit, method, keys, cost) ==
    [method |-> method, keys |-> keys, axis |-> hit.axis, captures |-> hit.captures,
     cost |-> IF hit.cost = 0 THEN cost ELSE hit.cost]

\* valueOf: a capture shadows the key of its name.
ValueOf(ctx, k) ==
    CASE k = KeyPath   -> <<ctx.axis>>
      [] k = KeyMethod -> <<ctx.method>>
      [] OTHER -> IF k \in DOMAIN ctx.captures THEN <<ctx.captures[k]>>
                  ELSE IF k \in DOMAIN ctx.keys THEN ctx.keys[k] ELSE <<>>

\* predicateHolds; the management API judges the values of a question with it.
Holds(p, values) ==
    CASE p.operator = "Equals"   -> values = <<p.value>>
      [] p.operator \in {"In", "InGroup"} -> ToSet(values) \cap p.values # {}
      [] p.operator = "Contains" -> p.value \in ToSet(values)
      [] p.operator = "Exists"   -> values # <<>>
      [] p.operator = "DoesNotExist" -> values = <<>>

RuleMatches(rule, ctx) ==
    /\ \A i \in DOMAIN rule.matches : Holds(rule.matches[i], ValueOf(ctx, rule.matches[i].key))
    /\ \A i \in DOMAIN rule.counters : Len(ValueOf(ctx, rule.counters[i])) = 1

\* matchedRule: one bucket per window, keyed by the axis values.
MatchedRule(block, rule, ctx) ==
    LET axes == [i \in DOMAIN rule.counters |-> Head(ValueOf(ctx, rule.counters[i]))]
    IN [block |-> block.name, rule |-> rule.name, shadow |-> rule.behavior = "Shadow",
        cost |-> ctx.cost,
        buckets |-> [i \in DOMAIN rule.rates |->
                        [key    |-> <<rule.rates[i].prefix, axes>>,
                         window |-> rule.rates[i].window]]]

MatchedRules(block, ctx, indices) ==
    LET rules == SetToSortSeq(indices, <)
    IN [n \in DOMAIN rules |-> MatchedRule(block, block.rules[rules[n]], ctx)]

\* The cascade runs to the first matching rule that is not a shadow rule, which
\* counts unless it is a bypass.
EvalFirstMatch(block, ctx) ==
    LET matching == {i \in DOMAIN block.rules : RuleMatches(block.rules[i], ctx)}
        ending   == {i \in matching : block.rules[i].behavior # "Shadow"}
    IN MatchedRules(block, ctx,
           {i \in matching : /\ block.rules[i].behavior # "Bypass"
                             /\ \A j \in ending : i <= j})

\* Every matching rule, less those a matching rule other than a shadow replaces.
EvalAll(block, ctx) ==
    LET matching == {i \in DOMAIN block.rules : RuleMatches(block.rules[i], ctx)}
        suppressed == UNION {ToSet(block.rules[i].replaced) :
                               i \in {j \in matching : block.rules[j].behavior # "Shadow"}}
    IN MatchedRules(block, ctx, {i \in matching : /\ block.rules[i].behavior # "Bypass"
                                                  /\ block.rules[i].name \notin suppressed})

EvalBlock(block, ctx) ==
    IF block.mode = "FirstMatch" THEN EvalFirstMatch(block, ctx) ELSE EvalAll(block, ctx)

\* Candidates.Evaluate, over the contexts of the targeted blocks.
Contexts(hits, method, keys, cost) ==
    [i \in DOMAIN hits |-> Context(hits[i], method, keys, cost)]

Evaluate(hits, contexts) ==
    FlattenSeq([i \in DOMAIN hits |-> EvalBlock(hits[i].block, contexts[i])])

\* Result.Buckets.
BucketsOf(matched) == FlattenSeq([i \in DOMAIN matched |-> matched[i].buckets])

=============================================================================
