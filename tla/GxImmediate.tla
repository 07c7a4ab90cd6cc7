------------------------------ MODULE GxImmediate ------------------------------
(***************************************************************************)
(* GX as the game programs it: every command acts at once.  A draw or a    *)
(* clear changes the EFB, a copy takes what the EFB shows at that moment,  *)
(* and the end of a frame shows its last display copy, or else the EFB.    *)
(* Draws issued ahead of a frame belong to it: its opening clear is below  *)
(* them.  So, too, do those that an abandoned frame left behind.           *)
(* The n-th command paints the image n, so no older image can come back.   *)
(***************************************************************************)
EXTENDS Naturals

CONSTANTS Dest, None

VARIABLES
    issued,    \* draws, clears and copies so far
    inFrame,   \* a frame is open
    ahead,     \* draws have been issued ahead of the next frame
    left,      \* an abandoned frame has left draws for the next one
    efb,       \* the image in the EFB
    texture,   \* per destination: the image of the last EFB copy to it
    latest,    \* the frame's display copy, or None
    output     \* the image last shown on screen or read back by the CPU

frame == <<inFrame, ahead, left>>
vars == <<issued, frame, efb, texture, latest, output>>

Init ==
    /\ issued = 0 /\ inFrame = FALSE /\ ahead = FALSE /\ left = FALSE
    /\ efb = 0 /\ texture = [d \in Dest |-> 0]
    /\ latest = None /\ output = 0

Issue == issued' = issued + 1
Paint == efb' = issued + 1

\* A draw, in a frame or ahead of the next one.
Draw ==
    /\ Issue /\ Paint
    /\ ahead' = ~inFrame
    /\ UNCHANGED <<inFrame, left, texture, latest, output>>

\* Copies, with or without a clear of the EFB behind them.
CopyTexture(d) ==
    /\ inFrame /\ Issue
    /\ texture' = [texture EXCEPT ![d] = efb]
    /\ Paint \/ UNCHANGED efb
    /\ UNCHANGED <<frame, latest, output>>

CopyDisplay ==
    /\ inFrame /\ Issue
    /\ latest' = efb
    /\ Paint \/ UNCHANGED efb
    /\ UNCHANGED <<frame, texture, output>>

\* A copy throws, before or after its clear.
CopyFails ==
    /\ inFrame /\ Issue
    /\ Paint \/ UNCHANGED efb
    /\ UNCHANGED <<frame, texture, latest, output>>

\* The frame opens with a clear.
BeginFrame ==
    /\ ~inFrame /\ inFrame' = TRUE
    /\ Issue
    /\ IF ahead \/ left THEN UNCHANGED efb ELSE Paint
    /\ ahead' = FALSE /\ left' = FALSE
    /\ UNCHANGED <<texture, latest, output>>

EndFrame ==
    /\ inFrame /\ inFrame' = FALSE
    /\ output' = IF latest = None THEN efb ELSE latest
    /\ latest' = None
    /\ UNCHANGED <<issued, ahead, left, efb, texture>>

\* A frame is given up; its last draws may be lost, or come with the next frame.
Abandon ==
    /\ inFrame /\ inFrame' = FALSE
    /\ ahead' \in BOOLEAN /\ left' \in BOOLEAN
    /\ efb' \in 0 .. issued
    /\ latest' = None
    /\ UNCHANGED <<issued, texture, output>>

\* What was left runs ahead of the next frame after all.
Settle == left /\ left' = FALSE /\ UNCHANGED <<issued, inFrame, ahead, efb, texture, latest, output>>

Read(d) == output' = texture[d] /\ UNCHANGED <<issued, frame, efb, texture, latest>>

Next ==
    \/ Draw \/ CopyDisplay \/ CopyFails
    \/ BeginFrame \/ EndFrame \/ Abandon \/ Settle
    \/ \E d \in Dest : CopyTexture(d) \/ Read(d)

Spec == Init /\ [][Next]_vars
=============================================================================
