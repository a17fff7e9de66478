---------------------------- MODULE MCBulkReset -----------------------------
(***************************************************************************)
(* Worlds around the bulk reset handler: a preview and the execution of    *)
(* what it looked at, with a fault and retries of both; the same with late *)
(* calls; two previews that compete for the domain; a second execution     *)
(* with the same token, the preview's key reused for an execution, and an  *)
(* execution of another selection; a rule set that moves on in between; a  *)
(* filtered sweep of several counters; sweeps, filtered or not, whose walk *)
(* meets a counter twice.  Version 2 lowercases an axis of "all", and      *)
(* version 3 does not have the domain.                                     *)
(***************************************************************************)
EXTENDS BulkReset, TLC

One == {CHOOSE c \in Counters : TRUE}
MCAdmits == <<Selections, Selections \ {"all"}, {}>>
MCSelected == [all |-> Counters, one |-> One, few |-> One]

Preview(k, s) == [key |-> k, dry |-> TRUE, selection |-> s]
Execution(k, s) == [key |-> k, dry |-> FALSE, selection |-> s]

World(requests, versions, repeats, late, lost) ==
    [requests |-> requests, versions |-> versions, repeats |-> repeats, late |-> late,
     faults |-> lost]

Pair(s) == {Preview("k1", s), Execution("k2", s)}

Retried == World(Pair("one"), {1, 3}, 0, FALSE, 1)
Late == World(Pair("one"), {1}, 0, TRUE, 1)
Rivals == World({Preview("k1", "one"), Preview("k2", "one")}, {1}, 0, FALSE, 0)
Replayed ==
    World(Pair("one") \cup {Execution("k3", "one"), Execution("k1", "one"), Execution("k2", "all")},
          {1}, 0, FALSE, 0)
Moved == World(Pair("one"), {1, 2}, 0, FALSE, 0)
Filtered == World(Pair("all"), {1}, 0, FALSE, 1)
FilteredAgain == World(Pair("few"), {1}, 1, FALSE, 1)
Again == World(Pair("one"), {1}, 1, FALSE, 0)

MCWorlds == {Late, Rivals, Replayed, Moved, Filtered, FilteredAgain, Again}
MCRecovery == {Retried}

\* A minting that is repeated, and a second execution with its token.
MCLateToken == {World(Pair("one") \cup {Execution("k3", "one")}, {1}, 0, TRUE, 1)}

MCSymmetry == Permutations(Callers)

\* No action reads an answer.
MCView ==
    <<record, lease, tokens, accepted, ran,
      [p \in Callers |-> IF call[p].pc = "answered" THEN Answer("none") ELSE call[p]],
      inflight, world>>

=============================================================================
