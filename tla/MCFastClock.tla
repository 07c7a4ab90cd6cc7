------------------------------ MODULE MCFastClock ------------------------------
(***************************************************************************)
(* The clock: two threads, and time for an anchor to be replaced several   *)
(* times.  The log: two threads and its writer.  Nothing of either depends *)
(* on the other, so a behaviour exercises one of them.                     *)
(***************************************************************************)
EXTENDS FastClock, AsyncLog, TLC

\* Nothing orders threads.
Symmetry == Permutations(Thread)

MCInit == Init /\ LogInit

MCNext == \/ LogInit /\ Next /\ UNCHANGED logVars
          \/ Init /\ LogNext /\ UNCHANGED vars

MCSpec == MCInit /\ [][MCNext]_<<vars, logVars>>
=============================================================================
