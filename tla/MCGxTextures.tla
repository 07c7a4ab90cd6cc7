---------------------------- MODULE MCGxTextures ----------------------------
(***************************************************************************)
(* GxTextures with two cells of RAM and a host vector, and textures that   *)
(* share an address with different sizes, have mips, or a palette.         *)
(***************************************************************************)
EXTENDS GxTextures

Small == [shape |-> <<5, 128, 8>>, cell |-> 1, len |-> 1, palette |-> 0]
Large == [shape |-> <<66, 66, 7>>, cell |-> 1, len |-> 2, palette |-> 0]
Paletted == [shape |-> <<1, 129, 1>>, cell |-> 1, len |-> 1, palette |-> 2]
Hosted == [shape |-> <<130, 66, 8>>, cell |-> 3, len |-> 1, palette |-> 0] \* over the budget

MCScenes == {{Small, Large}, {Paletted}, {Hosted}}

=============================================================================
