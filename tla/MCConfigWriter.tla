--------------------------- MODULE MCConfigWriter ---------------------------
(***************************************************************************)
(* Two policies, two builds of the operator in two pods, and a ConfigMap   *)
(* that holds a large policy and a small one.                              *)
(*   small, large  compile everywhere;                                     *)
(*   bad           compiles nowhere;                                       *)
(*   old           compiles in the old build only;                         *)
(*   new           has a field of the new build; `rest' is what a watch of *)
(*                 the old schema reads of it.                             *)
(***************************************************************************)
EXTENDS ConfigWriter

MCNames == {1, 2}
MCSpecs == {"small", "large", "bad", "old", "new", "rest"}
MCSizeOf == [s \in MCSpecs |-> CASE s = "large" -> 3 [] s = "new" -> 2 [] OTHER -> 1]
MCLimit == 4
MCBuilds == {"b1", "b2"}
MCCompiles == [b \in MCBuilds |->
    IF b = "b1" THEN {"small", "large", "old", "rest"} ELSE {"small", "large", "new", "rest"}]
MCUndefined == [b \in MCBuilds |-> IF b = "b1" THEN {"new"} ELSE {}]
MCPods == {"p1", "p2"}
MCBuild == [p \in MCPods |-> IF p = "p1" THEN "b1" ELSE "b2"]
MCPruned == [s \in MCSpecs |-> IF s = "new" THEN "rest" ELSE s]

World(edits, crashes, faults, hands, pods, old, mine, other) ==
    [edits |-> edits, crashes |-> crashes, faults |-> faults, hands |-> hands,
     pods |-> pods, old |-> old, specs |-> <<mine, other>>]

\* Authors race for the room in the ConfigMap, and requests are lost.
Full == World(4, 0, 1, 0, {"p1"}, {}, {"small", "large", "bad"}, {"large"})
\* The lease goes from a build to the other.
Upgrade == World(3, 1, 0, 0, MCPods, {}, {"old", "new", "bad"}, {})
\* The watches predate the new field.
OldWatch == World(2, 1, 0, 0, MCPods, MCPods, {"small", "new"}, {"large"})
\* The ConfigMap is deleted or damaged.
Hands == World(3, 0, 0, 1, {"p1"}, {}, {"small", "bad"}, {"small"})

MCWorlds == {Full, Upgrade, OldWatch, Hands}

\* A watch of the old schema, in the old build, and nothing else goes wrong.
MCSkewed == {World(1, 0, 0, 0, {"p1"}, {"p1"}, {"new"}, {})}
\* A write of a dead leader arrives late.
MCLate == {World(2, 1, 0, 0, {"p1"}, {}, {"small", "bad"}, {})}

=============================================================================
