--------------------------- MODULE MCPolicyStatus ---------------------------
(***************************************************************************)
(* One policy and two replicas.  A world says what changes around them,    *)
(* and how often; each is a story that the others leave out.               *)
(***************************************************************************)
EXTENDS PolicyStatus

MCSizeOf == [s \in Specs |-> 1]
MCCompiles == [b \in Builds |-> {"good", "better"}]
MCUndefined == [b \in Builds |-> {}]

Quiet == [spec |-> "good", next |-> "better", fleet |-> Replicas, edit |-> 0,
          recreate |-> 0, room |-> 0, scale |-> 0, refuse |-> 0, fall |-> 0, reach |-> 0,
          crash |-> 0, others |-> 0, lost |-> 0]

MCWorlds == {
    [Quiet EXCEPT !.edit = 1, !.next = "bad", !.lost = 1],
    [Quiet EXCEPT !.edit = 1, !.spec = "bad", !.crash = 1],
    [Quiet EXCEPT !.recreate = 1],
    [Quiet EXCEPT !.scale = 2],
    [Quiet EXCEPT !.scale = 1, !.lost = 1, !.fleet = {"p"}],
    [Quiet EXCEPT !.fall = 1, !.others = 1],
    [Quiet EXCEPT !.reach = 2],
    [Quiet EXCEPT !.edit = 1, !.room = 1],
    [Quiet EXCEPT !.room = 2],
    [Quiet EXCEPT !.refuse = 1, !.crash = 1]}

=============================================================================
