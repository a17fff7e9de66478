---------------------------- MODULE PolicyModel -----------------------------
(***************************************************************************)
(* A policy in its two vocabularies: the spec of the resource (api/v1) and *)
(* the engine's model of it (engine/model), which internal/convert makes   *)
(* from the spec.  The enumerations carry the same words on both sides.    *)
(*                                                                         *)
(* Text is kept as far as something splits or compares it.  A path is the  *)
(* sequence strings.Split(path, "/") returns, so that /a/b is              *)
(* <<"", "a", "b">> and / is <<"", "">>, and a dotted claim is the         *)
(* sequence of its segments, <<>> where the field is not set.              *)
(***************************************************************************)
EXTENDS Integers, Sequences

CONSTANT Unset     \* a nil pointer of the spec

KeyPath   == "path"
KeyMethod == "method"
KeySub    == "sub"
KeyToken  == "token"

PathTypes   == {"Exact", "Prefix", "Template"}
Modes       == {"", "All", "FirstMatch"}
Operators   == {"Equals", "In", "InGroup", "Contains", "Exists", "DoesNotExist"}
Behaviors   == {"", "Enforce", "Shadow", "Bypass"}
ValueTypes  == {"", "String", "StringArray"}
Normalizations == {"", "None", "Lowercase"}

\* The spec of a RateLimitPolicy.
SpecPredicate == [key: STRING, operator: STRING, value: STRING, values: Seq(STRING)]
SpecRate  == [requests: Int, period: Int, burst: Int \cup {Unset}, algorithm: STRING]
SpecRule  == [name: STRING, matches: Seq(SpecPredicate), counters: Seq(STRING),
              rates: Seq(SpecRate), behavior: STRING, replaced: Seq(STRING)]
SpecCost  == [source: STRING, name: STRING, default: Int \cup {Unset}]
SpecRoute == [type: STRING, value: Seq(STRING), methods: Seq(STRING),
              cost: SpecCost \cup {Unset}]
SpecBlock == [name: STRING, mode: STRING, target: Seq(SpecRoute) \cup {Unset},
              rules: Seq(SpecRule)]
SpecMapping == [key: STRING, claim: Seq(STRING), claimPath: Seq(STRING), type: STRING,
                normalization: STRING, fallbacks: Seq(Seq(STRING))]
SpecGroup == [name: STRING, values: Seq(STRING)]
Spec      == [domain: STRING, mappings: Seq(SpecMapping), groups: Seq(SpecGroup),
              limits: Seq(SpecBlock)]

-----------------------------------------------------------------------------
Set(field) == field # Unset

\* A nil cost stays nil; a nil default is zero, which the compiler reads as one.
ModelRoute(route) ==
    [route EXCEPT !.cost =
        IF Set(@) THEN [@ EXCEPT !.default = IF Set(@) THEN @ ELSE 0] ELSE Unset]

\* A nil burst is zero, which the compiler reads as a full bucket.
ModelRule(rule) ==
    [rule EXCEPT !.rates =
        [i \in DOMAIN rule.rates |->
            [rule.rates[i] EXCEPT !.burst = IF Set(@) THEN @ ELSE 0]]]

ModelBlock(block) ==
    [name   |-> block.name,
     mode   |-> block.mode,
     routes |-> IF Set(block.target)
                THEN [i \in DOMAIN block.target |-> ModelRoute(block.target[i])]
                ELSE <<>>,
     rules  |-> [i \in DOMAIN block.rules |-> ModelRule(block.rules[i])]]

\* convert.Policy.
ModelPolicy(spec) ==
    [domain   |-> spec.domain,
     mappings |-> spec.mappings,
     groups   |-> spec.groups,
     blocks   |-> [i \in DOMAIN spec.limits |-> ModelBlock(spec.limits[i])]]

=============================================================================
