--------------------------- MODULE Applicability ----------------------------
(***************************************************************************)
(* The rules endpoint of the management API (management/api.go             *)
(* handleRules, applicability.go) and the rendering of a rule set          *)
(* (ruleview): which rules act on a client of whom a part of the identity  *)
(* is known.                                                               *)
(*                                                                         *)
(* A question is [path, method, axes, absent]: path is Unset and method "" *)
(* where the query does not name them, axes maps a name to the values      *)
(* supplied, and absent is the set of names declared known-absent.  The    *)
(* names of the query's parameters are taken to be known ones.             *)
(***************************************************************************)
EXTENDS RuleMatch, Identity

Refused == [refused |-> TRUE, blocks |-> <<>>]

-----------------------------------------------------------------------------
(***************************************************************************)
(* The scope of a question: its values by name, an empty sequence being a  *)
(* key known to be absent.                                                 *)
(***************************************************************************)
KnownKeys(snapshot) ==
    {KeyPath, KeyMethod} \cup EffectiveKeys(snapshot.plan)
    \cup UNION {snapshot.blocks[b].captures : b \in DOMAIN snapshot.blocks}

\* parseScope's refusals.
ScopeRefused(snapshot, q) ==
    LET names == DOMAIN q.axes
    IN \/ ~(names \cup q.absent) \subseteq KnownKeys(snapshot)
       \/ names \cap q.absent # {}
       \/ \E n \in names : \/ "" \in ToSet(q.axes[n])
                           \/ /\ n \notin ListValuedKeys(snapshot.plan)
                              /\ Cardinality(ToSet(q.axes[n])) > 1

\* parseScope.
ScopeOf(q) ==
    [n \in DOMAIN q.axes \cup q.absent |->
        IF n \in q.absent THEN <<>> ELSE SetToSeq(ToSet(q.axes[n]))]

\* capturedKeys of the blocks of the given names.
CapturedKeys(snapshot, names) ==
    UNION {snapshot.blocks[b].captures :
               b \in {c \in DOMAIN snapshot.blocks : snapshot.blocks[c].name \in names}}

\* unnormalized: a value that the plan's normalization would change names no
\* identity a request carries, unless a capture may carry it.
Unnormalized(snapshot, values, captured) ==
    \E i \in DOMAIN snapshot.plan :
        LET e == snapshot.plan[i]
        IN /\ e.normalization = "Lowercase"
           /\ e.key \in DOMAIN values \ captured
           /\ LowerAll(values[e.key]) # values[e.key]

-----------------------------------------------------------------------------
(***************************************************************************)
(* One rule under a scope, without the other rules of its block.           *)
(***************************************************************************)
CapturedByEveryRoute(block, name) ==
    /\ block.routes # <<>>
    /\ \A i \in DOMAIN block.routes : name \in CapturesOf(block.routes[i].segments)

\* lookup's nonEmpty: every request that reaches the block has the key.
AlwaysPresent(block, name) == name \in {KeyPath, KeyMethod} \/ CapturedByEveryRoute(block, name)

ConditionState(block, p, scope) ==
    IF p.key \in DOMAIN scope
    THEN IF Holds(p, scope[p.key]) THEN "satisfied" ELSE "failed"
    ELSE IF AlwaysPresent(block, p.key) /\ p.operator = "Exists" THEN "satisfied"
    ELSE IF AlwaysPresent(block, p.key) /\ p.operator = "DoesNotExist" THEN "failed"
    ELSE "undecided"

AxisState(block, axis, scope) ==
    IF axis \in DOMAIN scope
    THEN IF Len(scope[axis]) = 1 THEN "satisfied" ELSE "failed"
    ELSE IF AlwaysPresent(block, axis) THEN "satisfied" ELSE "undecided"

\* evaluateRule: its state, and the keys that hold it open.
RuleState(block, rule, scope) ==
    LET conditions == {[key |-> rule.matches[i].key,
                        state |-> ConditionState(block, rule.matches[i], scope)] :
                           i \in DOMAIN rule.matches}
        axes == {[key |-> rule.counters[i], state |-> AxisState(block, rule.counters[i], scope)] :
                     i \in DOMAIN rule.counters}
        open(S) == {x.key : x \in {y \in S : y.state = "undecided"}}
        gates == {[reason |-> "undecided_condition", on |-> k] : k \in open(conditions)}
                 \cup {[reason |-> "missing_axis", on |-> k] : k \in open(axes) \ open(conditions)}
    IN IF \E x \in conditions \cup axes : x.state = "failed"
       THEN [state |-> "failed", gates |-> {}]
       ELSE [state |-> IF gates = {} THEN "satisfied" ELSE "undecided", gates |-> gates]

\* preemptors: what can keep rule i from applying.
Preemptors(block, i) ==
    {j \in DOMAIN block.rules \ {i} :
        /\ block.rules[j].behavior # "Shadow"
        /\ IF block.mode = "FirstMatch" THEN j < i
           ELSE block.rules[i].name \in ToSet(block.rules[j].replaced)}

\* preempt: the effect of the block's other rules.
VerdictOf(block, base, i) ==
    LET others == Preemptors(block, i)
        gates  == base[i].gates
                  \cup {[reason |-> "may_be_preempted", on |-> block.rules[j].name] :
                           j \in {k \in others : base[k].state = "undecided"}}
    IN IF base[i].state = "failed" \/ \E j \in others : base[j].state = "satisfied"
       THEN [verdict |-> "never", gates |-> {}]
       ELSE [verdict |-> IF gates = {} THEN "always" ELSE "conditional", gates |-> gates]

Annotate(block, scope) ==
    LET base == [i \in DOMAIN block.rules |-> RuleState(block, block.rules[i], scope)]
    IN [i \in DOMAIN block.rules |-> VerdictOf(block, base, i)]

-----------------------------------------------------------------------------
(***************************************************************************)
(* The question's own request.                                             *)
(***************************************************************************)
\* selectTargets.
SelectTargets(snapshot, q) ==
    IF q.path = Unset
    THEN [b \in DOMAIN snapshot.blocks |->
             [block |-> snapshot.blocks[b], captures |-> NoCaptures, undecided |-> {}]]
    ELSE IF q.method = "" THEN TargetsByPath(snapshot, q.path)
    ELSE Targets(Match(snapshot, q.path, q.method, <<>>))

\* The value of a capture that the route decided.
Decided(target, name) ==
    IF name \in DOMAIN target.captures THEN <<target.captures[name]>> ELSE <<>>

\* forTarget's refusal: a capture the caller declared as well, of no identity
\* key, has to agree with the route.
TargetRefused(snapshot, target, scope) ==
    \E n \in (target.block.captures \ target.undecided) \ EffectiveKeys(snapshot.plan) :
        n \in DOMAIN scope /\ scope[n] # Decided(target, n)

\* A mutant: the identity's value stays where the method would decide.
ForTargetKeeps(snapshot, target, scope) ==
    LET effective == EffectiveKeys(snapshot.plan)
        settled == {n \in target.block.captures \ target.undecided :
                       n \notin effective \/ n \in DOMAIN target.captures}
    IN [n \in DOMAIN scope \cup settled |->
            IF n \in settled THEN Decided(target, n) ELSE scope[n]]

\* forTarget: what the route decided about the block's captures.  One that
\* shadows an identity key replaces its value where the route produced it and
\* leaves the key open where the method would decide.
ForTarget(snapshot, target, scope) ==
    LET effective == EffectiveKeys(snapshot.plan)
        settled == {n \in target.block.captures \ target.undecided :
                       n \notin effective \/ n \in DOMAIN target.captures}
        opened  == target.undecided \cap effective
    IN [n \in (DOMAIN scope \ opened) \cup settled |->
            IF n \in settled THEN Decided(target, n) ELSE scope[n]]

\* handleRules: per targeted block, the annotations of its rules.  Without an
\* identity no rule is annotated.
HandleRules(snapshot, q) ==
    LET scope   == ScopeOf(q)
        targets == SelectTargets(snapshot, q)
        every   == {snapshot.blocks[b].name : b \in DOMAIN snapshot.blocks}
        refused == \/ q.path = Unset /\ q.method # ""
                   \/ ScopeRefused(snapshot, q)
                   \/ Unnormalized(snapshot, scope, CapturedKeys(snapshot, every))
                   \/ /\ q.path # Unset /\ DOMAIN scope # {}
                      /\ \E t \in DOMAIN targets : TargetRefused(snapshot, targets[t], scope)
        asked(t) == IF q.path = Unset THEN scope ELSE ForTarget(snapshot, targets[t], scope)
    IN IF refused THEN Refused
       ELSE [refused |-> FALSE,
             blocks  |-> [t \in DOMAIN targets |->
                            [block |-> targets[t].block.name,
                             rules |-> IF DOMAIN scope = {} THEN <<>>
                                       ELSE Annotate(targets[t].block, asked(t))]]]

-----------------------------------------------------------------------------
(***************************************************************************)
(* ruleview: the rendering whose hash is the version of the rule set.      *)
(***************************************************************************)
\* A compiled InGroup renders as the In it is.
PredicateView(p) ==
    LET operator == IF p.operator = "InGroup" THEN "In" ELSE p.operator
    IN [key |-> p.key, operator |-> operator,
        value |-> IF operator \in {"Equals", "Contains"} THEN p.value ELSE "",
        values |-> IF operator = "In" THEN p.values ELSE {}]

RuleView(rule) ==
    [rule |-> rule.name, mode |-> rule.behavior, axes |-> rule.counters,
     matches |-> [i \in DOMAIN rule.matches |-> PredicateView(rule.matches[i])],
     replaced |-> rule.replaced,
     rates |-> [i \in DOMAIN rule.rates |->
                   [algorithm |-> rule.rates[i].algorithm, window |-> rule.rates[i].window]]]

\* A mutant: the methods of a route are left out.
RouteViewBare(route) == [type |-> route.type, value |-> route.value, cost |-> route.cost]

RouteView(route) ==
    [type |-> route.type, value |-> route.value, methods |-> route.methods, cost |-> route.cost]

BlockView(block) ==
    [block |-> block.name, mode |-> block.mode, captures |-> block.captures,
     routes |-> [i \in DOMAIN block.routes |-> RouteView(block.routes[i])],
     rules |-> [i \in DOMAIN block.rules |-> RuleView(block.rules[i])]]

Render(snapshot) ==
    [domain |-> snapshot.domain, keys |-> EffectiveKeys(snapshot.plan),
     lists |-> ListValuedKeys(snapshot.plan),
     blocks |-> [b \in DOMAIN snapshot.blocks |-> BlockView(snapshot.blocks[b])]]

\* The hash of the rendering, which stands for it.
Version(snapshot) == Render(snapshot)

=============================================================================
