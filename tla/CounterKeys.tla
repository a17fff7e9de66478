---------------------------- MODULE CounterKeys -----------------------------
(***************************************************************************)
(* The key of a counter: how the engine builds it (engine/key) and how the *)
(* management API takes it apart again (management/keys.go).               *)
(*                                                                         *)
(* A text is a sequence of characters.  The layout is                      *)
(*   rl:v1:{namespace/domain}:block/rule:algorithm:period:axis:axis:       *)
(* and every part that comes from a resource or a token is escaped.  A     *)
(* period is one character here; Periods are the ones that read as a       *)
(* number.                                                                 *)
(***************************************************************************)
EXTENDS Integers, Sequences, FiniteSets, SequencesExt

CONSTANTS Namespace, Domain,    \* the texts of this component and of the domain
          Periods               \* the characters that read as a whole number

\* The characters escape encodes, and their two digits.
HexOf == [c \in {"%", ":", "/", "{", "}"} |->
            CASE c = "%" -> <<"2", "5">> [] c = ":" -> <<"3", "A">> [] c = "/" -> <<"2", "F">>
              [] c = "{" -> <<"7", "B">> [] c = "}" -> <<"7", "D">>]

Encoded(c) == IF c \in DOMAIN HexOf THEN <<"%">> \o HexOf[c] ELSE <<c>>

\* A mutant: the escape character itself is kept.
EscapeBare(v) == FlattenSeq([i \in DOMAIN v |-> IF v[i] = "%" THEN <<"%">> ELSE Encoded(v[i])])

Escape(v) == FlattenSeq([i \in DOMAIN v |-> Encoded(v[i])])

DomainTag == <<"{">> \o Escape(Namespace) \o <<"/">> \o Escape(Domain) \o <<"}">>

DomainPrefix == <<"r", "l", ":", "v", "1", ":">> \o DomainTag \o <<":">>

BlockPrefix(block) == DomainPrefix \o Escape(block) \o <<"/">>

RulePrefix(block, rule) == BlockPrefix(block) \o Escape(rule) \o <<":">>

RatePrefix(block, rule, algorithm, period) ==
    RulePrefix(block, rule) \o algorithm \o <<":", period, ":">>

Bucket(prefix, axes) == prefix \o FlattenSeq([i \in DOMAIN axes |-> Escape(axes[i]) \o <<":">>])

\* The key the decision path counts under.
KeyOf(c) == Bucket(RatePrefix(c.block, c.rule, c.algorithm, c.period), c.axes)

-----------------------------------------------------------------------------
(***************************************************************************)
(* The reader.  What can fail returns a set, empty where it failed.        *)
(***************************************************************************)
\* strings.Split.
Split(s, c) ==
    FoldLeft(LAMBDA parts, x : IF x = c THEN Append(parts, <<>>)
                               ELSE [parts EXCEPT ![Len(parts)] = Append(@, x)],
             << <<>> >>, s)

\* The characters two digits may stand for: a reserved one, or some other byte.
Decoded(high, low) ==
    LET reserved == {c \in DOMAIN HexOf : HexOf[c] = <<high, low>>}
    IN IF reserved # {} THEN reserved
       ELSE IF {high, low} \subseteq {"2", "3", "5", "7", "A", "B", "D", "F"} THEN {"other"} ELSE {}

UnescapeSegment(s) ==
    LET from[i \in 1 .. Len(s) + 1] ==
            IF i > Len(s) THEN {<<>>}
            ELSE IF s[i] # "%" THEN {<<s[i]>> \o rest : rest \in from[i + 1]}
            ELSE IF i + 2 > Len(s) THEN {}
            ELSE {<<c>> \o rest : c \in Decoded(s[i + 1], s[i + 2]), rest \in from[i + 3]}
    IN from[1]

\* All of the texts, unescaped in order, or nothing.
UnescapeAll(texts) ==
    LET from[i \in 1 .. Len(texts) + 1] ==
            IF i > Len(texts) THEN {<<>>}
            ELSE {<<v>> \o rest : v \in UnescapeSegment(texts[i]), rest \in from[i + 1]}
    IN from[1]

\* The block and the rule of the escaped pair.
SplitRuleSegment(segment) ==
    LET parts == Split(segment, "/")
    IN IF Len(parts) # 2 THEN {}
       ELSE {pair \in UnescapeAll(parts) : pair[1] # <<>> /\ pair[2] # <<>>}

\* The fields after the domain's prefix.  Every one is terminated, the last one
\* included.
FieldsOf(k) ==
    LET fields == Split(SubSeq(k, Len(DomainPrefix) + 1, Len(k)), ":")
    IN IF Last(fields) = <<>> THEN Front(fields) ELSE fields

ParseCounterKey(k) ==
    LET fields == FieldsOf(k)
    IN IF \/ ~IsPrefix(DomainPrefix, k) \/ Len(fields) < 3
          \/ Len(fields[3]) # 1 \/ fields[3][1] \notin Periods
       THEN {}
       ELSE {[block |-> pair[1], rule |-> pair[2], algorithm |-> fields[2], period |-> fields[3][1],
              ratePrefix |-> DomainPrefix \o FlattenSeq([i \in 1 .. 3 |-> fields[i] \o <<":">>]),
              axes |-> axes] :
                 pair \in SplitRuleSegment(fields[1]),
                 axes \in UnescapeAll(SubSeq(fields, 4, Len(fields)))}

=============================================================================
