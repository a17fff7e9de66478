------------------------------ MODULE MCStores ------------------------------
(***************************************************************************)
(* Two keys, one of each algorithm, the GCRA one tuned between two limits. *)
(* The period of the fixed window is not a multiple of the GCRA period, so *)
(* expiries and boundaries fall apart.                                     *)
(***************************************************************************)
EXTENDS CounterStores

MCKeys == {"g", "f"}
MCAlgorithmOf == [g |-> "GCRA", f |-> "FixedWindow"]
MCPeriodOf == [g |-> 4, f |-> 3]
MCLimits ==
    [g |-> {[requests |-> 3, burst |-> 2], [requests |-> 1, burst |-> 1]},
     f |-> {[requests |-> 3, burst |-> 0]}]
MCCosts == 0..2

Enforcing(k) == {x \in Bucket(k) : ~x.shadow}
Paid(k) == {x \in Bucket(k) : x.cost >= 1}

\* Every call on one enforcing key, and every call on both that the guard lets
\* through with the GCRA key enforcing.
MCCalls ==
    [{"g"} -> Enforcing("g")] \cup [{"f"} -> Enforcing("f")] \cup
    {[g |-> x, f |-> y] : x \in Paid("g") \cap Enforcing("g"), y \in Paid("f")}

\* No action reads the last answer, so states that differ only in it are one;
\* a step's answer is still compared with the contract's.
MCView == <<backend, now, db, deleting, mnow, m>>

=============================================================================
