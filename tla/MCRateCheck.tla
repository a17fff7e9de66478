---------------------------- MODULE MCRateCheck -----------------------------
(***************************************************************************)
(* Three keys: a GCRA one tuned between two bursts, another GCRA one and a *)
(* fixed window.  The requests cover a rule with two windows, a shadow     *)
(* rule beside an enforcing one, a route that reads its own cost, a        *)
(* request over the bucket budget, unmatched and exempt descriptors, and   *)
(* the costs at their bounds.                                              *)
(***************************************************************************)
EXTENDS RateCheck, TLC

MCKeys == {"g", "h", "f"}
MCAlgorithmOf == [g |-> "GCRA", h |-> "GCRA", f |-> "FixedWindow"]
MCPeriodOf == [g |-> 4, h |-> 3, f |-> 3]
Wide == [requests |-> 3, burst |-> 2]
Tight == [requests |-> 2, burst |-> 1]
Slow == [requests |-> 1, burst |-> 2]
Quota == [requests |-> 2, burst |-> 0]
MCLimits == [g |-> {Wide, Tight}, h |-> {Slow}, f |-> {Quota}]
MCKeyRank == [f |-> 1, g |-> 2, h |-> 3]
MCCosts == 0..3

Rule(shadow, cost, windows) == [shadow |-> shadow, cost |-> cost, windows |-> windows]
W(k, l) == [key |-> k, limit |-> l]

Nothing == <<>>
Both == <<Rule(FALSE, 0, <<W("g", Wide), W("f", Quota)>>)>>
Shadowed == <<Rule(TRUE, 0, <<W("g", Tight)>>), Rule(FALSE, 0, <<W("h", Slow)>>)>>
Costly == <<Rule(FALSE, 3, <<W("h", Slow)>>), Rule(FALSE, 0, <<W("g", Wide)>>)>>
Many == <<Rule(FALSE, 0, <<W("g", Wide), W("h", Slow)>>), Rule(FALSE, 0, <<W("f", Quota)>>)>>

D(matched, addend) == [matched |-> matched, addend |-> addend, negative |-> FALSE, exempt |-> FALSE]
Exempt(d) == [d EXCEPT !.exempt = TRUE]
Negative(d) == [d EXCEPT !.negative = TRUE]
R(hits, descriptors) ==
    [known |-> TRUE, hits |-> hits, bare |-> Both, descriptors |-> descriptors]

MCRequests ==
    {[R(1, <<>>) EXCEPT !.known = FALSE],
     R(0, <<>>), R(4, <<>>),
     R(1, <<D(Both, Unset), D(Shadowed, Unset)>>),
     R(0, <<D(Both, 2), D(Costly, 0)>>),
     R(1, <<D(Shadowed, Unset), Exempt(D(Both, Unset)), D(Nothing, Unset)>>),
     R(1, <<D(Both, Unset), D(Many, Unset)>>),
     R(0, <<D(Both, 3), D(Costly, 1)>>),
     R(1, <<Exempt(D(Both, Unset))>>),
     R(1, <<Negative(D(Both, Unset))>>),
     R(1, <<D(Both, Unset), D(Both, Unset), D(Both, Unset), D(Both, Unset)>>)}

MCMatches == {Nothing, Both, Shadowed, Costly, Many}

MCCalls == {CallOf(Buckets(matched, cost)) : matched \in Matches, cost \in Costs}

MCSymmetry == Permutations(Callers)

\* No action reads the last answer.
MCView == <<now, debt, check>>

=============================================================================
