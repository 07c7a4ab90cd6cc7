----------------------------- MODULE DrawStream -----------------------------
(***************************************************************************)
(* What a batched GX draw queue promises the code that draws through it,   *)
(* without batches, rings or a label: draws are accepted with consecutive  *)
(* serials, they execute in that order, whatever an accepted draw reads is *)
(* pinned until the draw has executed or an error has reported it lost,    *)
(* and after a failure nothing is accepted and nothing is unpinned.        *)
(*                                                                         *)
(* AgcGxDraw implements this specification (its theorem and its run say    *)
(* under which mapping).                                                   *)
(***************************************************************************)
EXTENDS Naturals

CONSTANT Resource  \* what a draw reads: a material's textures and its targets

VARIABLES
    accepted,   \* the last serial a draw call returned
    completed,  \* the serial the completion label reports
    executed,   \* serials whose draws the GPU has executed
    discarded,  \* serials whose loss an error reported
    pinned,     \* [serial, res] pairs kept alive
    stopped     \* a submission failed or a wait timed out

vars == <<accepted, completed, executed, discarded, pinned, stopped>>

Init ==
    /\ accepted = 0 /\ completed = 0
    /\ executed = {} /\ discarded = {} /\ pinned = {}
    /\ stopped = FALSE

Accept(r) ==
    /\ ~stopped
    /\ accepted' = accepted + 1
    /\ pinned' = pinned \union {[serial |-> accepted + 1, res |-> r]}
    /\ UNCHANGED <<completed, executed, discarded, stopped>>

\* The label moves to n: every draw up to n that was not reported lost has run.
Complete(n) ==
    /\ n \in completed + 1 .. accepted
    /\ completed' = n
    /\ executed' = executed \union ((completed + 1 .. n) \ discarded)
    /\ UNCHANGED <<accepted, discarded, pinned, stopped>>

\* Pins go only for draws that have run or were reported lost.
Unpin ==
    /\ ~stopped
    /\ pinned' \subseteq pinned
    /\ \A p \in pinned \ pinned' : p.serial <= completed \/ p.serial \in discarded
    /\ UNCHANGED <<accepted, completed, executed, discarded, stopped>>

\* An error tells the caller that accepted draws will not run.
Discard ==
    /\ discarded \subseteq discarded'
    /\ discarded' \ discarded \subseteq completed + 1 .. accepted
    /\ UNCHANGED <<accepted, completed, executed, pinned>>
    /\ stopped' \in {stopped, TRUE}

\* The queue is destroyed while idle: what was never submitted is lost with it.
Close ==
    /\ ~stopped
    /\ discarded \subseteq discarded'
    /\ discarded' \ discarded \subseteq completed + 1 .. accepted
    /\ \A p \in pinned : p.serial <= completed \/ p.serial \in discarded'
    /\ pinned' = {}
    /\ UNCHANGED <<accepted, completed, executed, stopped>>

Next ==
    \/ \E r \in Resource : Accept(r)
    \/ \E n \in completed + 1 .. accepted : Complete(n)
    \/ Unpin
    \/ Discard
    \/ Close

Spec == Init /\ [][Next]_vars
=============================================================================
