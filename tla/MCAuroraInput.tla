--------------------------- MODULE MCAuroraInput ---------------------------
(***************************************************************************)
(* AuroraInput with two slots, two users and two handles; the pilot has no *)
(* script, one that is refused, or one whose presses overlap.              *)
(***************************************************************************)
EXTENDS AuroraInput, TLC

CONSTANTS h1, h2

Symmetry == Permutations({h1, h2})

Press(start, hold, held) == [op |-> "press", start |-> start, stop |-> 0, period |-> 0, buttons |-> held, hold |-> hold]

Repeat(start, stop, period, held, hold) ==
    [op |-> "repeat", start |-> start, stop |-> stop, period |-> period, buttons |-> held, hold |-> hold]

MCScripts ==
    {<<>>,
     <<Press(0, 3, {"cross"}), Repeat(0, 4, 2, {"up"}, 2)>>, \* held for its whole period
     <<Repeat(0, 8, 2, {"up"}, 1), Press(0, 3, {"cross"})>>, \* too many
     <<Repeat(0, 4, 2, {"up"}, 1), Press(0, 2, {"cross"})>>}

=============================================================================
