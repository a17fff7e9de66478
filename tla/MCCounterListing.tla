-------------------------- MODULE MCCounterListing --------------------------
(***************************************************************************)
(* Listings of a domain with four counters and one foreign key: over the   *)
(* in-process store; over Redis tables that are resized and masters that   *)
(* change; with the limited filter while verdicts change; and under a rule *)
(* set that is swapped.                                                    *)
(***************************************************************************)
EXTENDS CounterListing, TLC

MCNamespace == <<"n">>
MCDomain == <<"d">>
Gcra == <<"g">>

\* The axis of k2 has a reserved character, and the block of k4 has a name that
\* begins like the other block's.
CounterOf(block, rule, axes) ==
    [block |-> block, rule |-> rule, algorithm |-> Gcra, period |-> "6", axes |-> axes]
B == <<"b">>
BB == <<"b", "b">>
R == <<"r">>
S == <<"s">>
X == <<"x">>
XColon == <<"x", ":">>

MCCounters ==
    ("k1" :> CounterOf(B, R, <<X>>)) @@ ("k2" :> CounterOf(B, R, <<XColon>>))
    @@ ("k3" :> CounterOf(B, S, <<>>)) @@ ("k4" :> CounterOf(BB, R, <<X>>))
MCForeign == "k5" :> DomainPrefix \o <<"b", "/", "r", ":", "%", "2">>
MCOrder == <<"k5", "k1", "k2", "k3", "k4">>

MCPlaced == [node \in {"m", "n"} |->
    ("k1" :> 0) @@ ("k2" :> IF node = "m" THEN 2 ELSE 0) @@ ("k3" :> IF node = "m" THEN 1 ELSE 2)
    @@ ("k4" :> IF node = "m" THEN 2 ELSE 3) @@ ("k5" :> 3)]

\* Texts with reserved characters, and with what those are encoded as.
ProbeTexts == {<<"a">>, <<":">>, <<"%", "3", "A">>, <<"a", "/">>}
KeyProbes ==
    {CounterOf(block, rule, axes) :
        block \in {<<"a">>, <<"a", "a">>, <<"a", "/", "a">>}, rule \in {<<"a">>, <<"%">>},
        axes \in {<<>>} \cup {<<v>> : v \in ProbeTexts} \cup {<<v, w>> : v, w \in ProbeTexts}}

Rates == {CounterOf(B, R, <<"sub">>), CounterOf(B, S, <<>>), CounterOf(BB, R, <<"sub">>)}
\* The rule of k3 is gone and the rule of k1 and k2 has another axis.
Redefined == {CounterOf(B, R, <<"sub", "t">>), CounterOf(BB, R, <<"sub">>)}
MCRuleSets == ("rates" :> Rates) @@ ("redefined" :> Redefined)

NoAxes == [n \in {} |-> {}]
SelectionOf(ids, axes, limited) ==
    [ids |-> ids, algorithm |-> <<>>, period |-> "", axes |-> axes, limited |-> limited]
MCSelections ==
    ("all" :> SelectionOf({}, NoAxes, FALSE)) @@ ("block" :> SelectionOf({<<B>>}, NoAxes, FALSE))
    @@ ("rule" :> [SelectionOf({<<B, R>>}, NoAxes, FALSE) EXCEPT !.algorithm = Gcra, !.period = "6"])
    @@ ("client" :> SelectionOf({<<B>>, <<BB, R>>}, "sub" :> {XColon}, FALSE))
    @@ ("limited" :> SelectionOf({}, NoAxes, TRUE)) @@ ("unread" :> SelectionOf({}, "sub" :> {<<>>}, FALSE))

Listing(kind, keys, selections, pageSize, sizes, masters) ==
    [store |-> kind, keys |-> keys, refusable |-> {}, selections |-> selections, malformed |-> {"unread"},
     pageSize |-> pageSize, sizes |-> sizes, masters |-> masters, ruleSets |-> {"rates"},
     changes |-> 2, faults |-> 1, probes |-> {}]

Memory == Listing("memory", Keys \ {"k2"}, {"all", "rule", "unread"}, 2, {1}, {"m"})
Resized == Listing("redis", Keys \ {"k5"}, {"all"}, 2, {1, 2, 4}, {"m"})
Moved == Listing("redis", {"k2", "k4"}, {"all", "client"}, 1, {2, 4}, {"m", "n"})
Judging == [Listing("redis", {"k1", "k2", "k3"}, {"block", "limited"}, 2, {2, 4}, {"m"})
              EXCEPT !.refusable = {"k1", "k2"}]
Swapped == [Listing("memory", Keys \ {"k5"}, {"all", "client"}, 1, {1}, {"m"})
              EXCEPT !.ruleSets = {"rates", "redefined"}]
Probed == [Listing("memory", {}, {"all"}, 1, {1}, {"m"})
             EXCEPT !.changes = 0, !.faults = 0, !.probes = KeyProbes]

MCWorlds ==
    [w \in {"probed", "memory", "resized", "moved", "judging", "swapped"} |->
        CASE w = "memory" -> Memory [] w = "resized" -> Resized [] w = "moved" -> Moved
          [] w = "judging" -> Judging [] w = "swapped" -> Swapped [] w = "probed" -> Probed]
=============================================================================
