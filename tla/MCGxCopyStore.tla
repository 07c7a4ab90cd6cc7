---------------------------- MODULE MCGxCopyStore ----------------------------
(***************************************************************************)
(* The copy store over three cells of RAM: equal, nested, straddling and   *)
(* disjoint ranges; four stamps let a copy straddle two others and be      *)
(* written to.                                                             *)
(* The page marks over two windows of 24 bytes, pages of 16 and blocks of  *)
(* 4; scalars of up to 4.  Ranges begin and end at, before and behind the  *)
(* ends of blocks and pages.                                               *)
(* Neither depends on the other, so a behaviour exercises one of them.     *)
(***************************************************************************)
EXTENDS GxCopyStore, DeferredPages

MCWindows == {0, 32}
MCBanks == {[first |-> 0, end |-> 8], [first |-> 12, end |-> 24]}
MCPlain == {0, 1, 2}
MCGiven == [start : {0, 3, 16}, length : {1, 5}] \cup {[start |-> 7, length |-> 2], [start |-> 60, length |-> 4]}

MCInit == Init /\ PagesInit

MCNext ==
    \/ PagesInit /\ Next /\ UNCHANGED pageVars
    \/ Init /\ PagesNext /\ UNCHANGED vars

MCSpec == MCInit /\ [][MCNext]_<<vars, pageVars>>
=============================================================================
