------------------------------- MODULE GuestRam -------------------------------
(***************************************************************************)
(* Wii RAM as guest code must see it: an EFB copy, a store and a bulk      *)
(* write take effect at once and whole, a read returns what was written    *)
(* last, and an operation that fails changes nothing.  The n-th write      *)
(* writes n, so no older value can come back.                              *)
(***************************************************************************)
EXTENDS Naturals

CONSTANT Cell

VARIABLES
    mem,      \* what each cell holds
    written,  \* copies, stores and bulk writes so far
    returned  \* what the last read returned

vars == <<mem, written, returned>>

Init ==
    /\ mem = [c \in Cell |-> 0]
    /\ written = 0 /\ returned = 0

Write(cells) ==
    /\ written' = written + 1
    /\ mem' = [c \in Cell |-> IF c \in cells THEN written + 1 ELSE mem[c]]
    /\ UNCHANGED returned

Read(c) ==
    /\ returned' = mem[c]
    /\ UNCHANGED <<mem, written>>

Next ==
    \/ \E cells \in (SUBSET Cell) \ {{}} : Write(cells)
    \/ \E c \in Cell : Read(c)

Spec == Init /\ [][Next]_vars
=============================================================================
