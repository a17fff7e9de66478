------------------------------ MODULE MCEngine ------------------------------
(***************************************************************************)
(* Three keys: a GCRA one tuned between two bursts, so that its debt can   *)
(* be deeper than the bucket, another GCRA one, and a fixed window tuned   *)
(* between two quotas.  The matches cover a rule of two windows, a shadow  *)
(* rule beside an enforcing one, a route that reads its own cost, and      *)
(* equal windows of two rules.                                             *)
(***************************************************************************)
EXTENDS Engine, QuotaLedger

MCKeys == {"g", "h", "f"}
MCAlgorithmOf == [g |-> "GCRA", h |-> "GCRA", f |-> "FixedWindow"]
MCPeriodOf == [g |-> 4, h |-> 4, f |-> 3]
Wide == [requests |-> 3, burst |-> 2]
Tight == [requests |-> 2, burst |-> 1]
Quota == [requests |-> 2, burst |-> 0]
Less == [requests |-> 1, burst |-> 0]
MCLimits == [g |-> {Wide, Tight}, h |-> {Wide}, f |-> {Quota, Less}]
MCKeyRank == [f |-> 1, g |-> 2, h |-> 3]
MCCosts == 0..3

Rule(shadow, cost, windows) == [shadow |-> shadow, cost |-> cost, windows |-> windows]
W(k, l) == [key |-> k, limit |-> l]

MCMatches ==
    {<<>>,
     <<Rule(FALSE, 0, <<W("g", Wide), W("f", Quota)>>)>>,
     <<Rule(TRUE, 0, <<W("g", Tight)>>), Rule(FALSE, 0, <<W("h", Wide)>>)>>,
     <<Rule(FALSE, 2, <<W("h", Wide)>>), Rule(FALSE, 0, <<W("g", Wide)>>)>>,
     <<Rule(TRUE, 0, <<W("g", Wide)>>), Rule(TRUE, 0, <<W("h", Wide)>>)>>,
     <<Rule(FALSE, 0, <<W("h", Wide), W("g", Wide)>>), Rule(FALSE, 0, <<W("f", Less)>>)>>}

MCCalls ==
    {CallOf(Buckets(matched, cost)) : matched \in MCMatches \ {<<>>}, cost \in 1..2}

\* No action reads the last answer.
MCView == <<now, debt, watched, since, spent>>

=============================================================================
