------------------------------ MODULE MCGxFrame ------------------------------
(***************************************************************************)
(* Two copy destinations that share three targets, and the smallest        *)
(* display pool, so that targets are reused while work refers to them.     *)
(***************************************************************************)
EXTENDS GxFrame, TLC

\* Nothing orders destinations or targets, and no liveness is checked.
Symmetry == Permutations(Dest) \union Permutations(Texture) \union Permutations(Display)
=============================================================================
