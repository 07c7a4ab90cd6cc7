---------------------------- MODULE MCGuestFlat ----------------------------
(* Four granules of addresses; memory too little for the largest layout:   *)
(* MEM1 with a mirror, MEM2 out of order, an owned region of a length      *)
(* that needs rounding, an empty one, and layouts Validate refuses.        *)
(* Beside it, two services that hand memory to what may still be using it: *)
(* fibers and their stacks, and audio and its buffers.  Nothing of one     *)
(* depends on another, so a behaviour exercises one of the three.          *)
EXTENDS GuestFlat, HostContexts, AudioOut

MCRegion(base, size, kind) == [base |-> base, size |-> size, kind |-> kind]

MCLayouts ==
    {<<MCRegion(0, 8, "mem1"), MCRegion(16, 5, "mem1"), MCRegion(24, 3, "owned")>>,
     <<MCRegion(8, 3, "mem2"), MCRegion(0, 0, "mem1"), MCRegion(24, 8, "mem2")>>,
     <<MCRegion(0, 24, "owned"), MCRegion(24, 8, "mem2")>>,
     <<MCRegion(0, 9, "owned"), MCRegion(8, 8, "mem1")>>,
     <<MCRegion(4, 4, "owned")>>, <<MCRegion(24, 9, "owned")>>, <<MCRegion(8, 8, "other")>>}

MCCalls == [offsets |-> {0, 1, 4, 30}, froms |-> {0, 2}, sizes |-> {0, 3, 4}]

MCSpots == {0, 6, 19, 31}

MCInit == Init /\ HostInit /\ AudioInit

MCNext ==
    \/ HostInit /\ AudioInit /\ Next /\ UNCHANGED <<hostVars, audioVars>>
    \/ Init /\ AudioInit /\ HostNext /\ UNCHANGED <<vars, audioVars>>
    \/ Init /\ HostInit /\ AudioNext /\ UNCHANGED <<vars, hostVars>>

MCSpec == MCInit /\ [][MCNext]_<<vars, hostVars, audioVars>>
=============================================================================
