------------------------- MODULE MCReplicaConfig ----------------------------
(***************************************************************************)
(* Two domains.  m2 changes both, m3 has a spec that does not compile here *)
(* and no second domain, m4 brings back the first spec under a new UID, m5 *)
(* cannot be decoded, m6 is explicitly empty, m7 has another spec under    *)
(* the generation and UID of m2 (a read of the policy that was pruned).    *)
(***************************************************************************)
EXTENDS ReplicaConfig

E(generation, uid, spec) == [generation |-> generation, uid |-> uid, spec |-> spec]

Good(entries) == [form |-> "good", entries |-> entries]

M1 == Good([x |-> E(1, "u", "s1"), y |-> E(1, "w", "s1")])
M2 == Good([x |-> E(2, "u", "s2"), y |-> E(2, "w", "s2")])
M3 == Good([x |-> E(3, "u", "skew")])
M4 == Good([x |-> E(1, "v", "s1"), y |-> E(3, "w", "skew")])
M5 == [form |-> "undecodable", entries |-> <<>>]
M6 == Good(<<>>)
M7 == Good([x |-> E(2, "u", "s1"), y |-> E(2, "w", "s2")])
Blank == [form |-> "blank", entries |-> <<>>]

MCManifests == {M1, M2, M3, M4, M5, M6, M7}
MCDocs == {M1, M3, Blank}

=============================================================================
