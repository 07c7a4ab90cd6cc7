----------------------------- MODULE FrameScreen -----------------------------
(***************************************************************************)
(* What presenting a frame means to its caller: the screen shows whole     *)
(* frames, in the order they were offered, none twice, none skipped, and   *)
(* the next one is offered only when the last one is on screen.            *)
(***************************************************************************)
EXTENDS Naturals

VARIABLES
    offered,  \* the last frame handed to the display
    shown,    \* the frame on screen, 0 for none
    on        \* the display is open

vars == <<offered, shown, on>>

Init == offered = 0 /\ shown = 0 /\ on = TRUE

Offer ==
    /\ on /\ shown = offered
    /\ offered' = offered + 1
    /\ UNCHANGED <<shown, on>>

Show ==
    /\ on /\ shown < offered
    /\ shown' = offered
    /\ UNCHANGED <<offered, on>>

Close ==
    /\ on /\ on' = FALSE
    /\ shown' = 0
    /\ UNCHANGED offered

Next == Offer \/ Show \/ Close

Spec == Init /\ [][Next]_vars
=============================================================================
