------------------------- MODULE MCAddressedReset ---------------------------
(***************************************************************************)
(* A rule with one window, then with two and axes in lower case, then      *)
(* removed.  A reset of both windows, its preview, a pinned one, a limited *)
(* one, and one whose axis value is not in lower case.                     *)
(***************************************************************************)
EXTENDS AddressedReset, TLC

Both == {"minute", "hour"}

MCEnforced == <<{"minute"}, Both, {}>>
MCLowering == {2}

Plain == [dry |-> FALSE, limited |-> FALSE, expected |-> 0, windows |-> Both,
          mixed |-> FALSE]

MCCommands ==
    {Plain, [Plain EXCEPT !.dry = TRUE, !.windows = {"hour"}],
     [Plain EXCEPT !.expected = 1], [Plain EXCEPT !.limited = TRUE],
     [Plain EXCEPT !.mixed = TRUE]}

MCSymmetry == Permutations(Callers)

\* No action reads an answer.
MCView ==
    <<binding, [p \in Callers |-> IF call[p].pc = "answered" THEN Reply("none") ELSE call[p]],
      late, faults>>

=============================================================================
