------------------------------- MODULE AgcBlit -------------------------------
(***************************************************************************)
(* Asynchronous GPU copies, clears and depth fills (ps5/gpu/agc_blit.cpp)  *)
(* and the GPU that executes them.                                         *)
(*                                                                         *)
(* Each blit owns an arena: its commands, its completion label and the     *)
(* owners of what it reads and writes.  Up to InFlight arenas are in use   *)
(* while the caller goes on.  A clear samples a 1x1 constant that the CPU  *)
(* writes; the constant is reused only when no unfinished blit holds it.   *)
(*                                                                         *)
(* One thread calls the blitter and the GPU moves between any two of its   *)
(* steps.  Rectangles, formats and register values are left out.           *)
(***************************************************************************)
EXTENDS Naturals, Sequences, FiniteSets

CONSTANTS
    InFlight,   \* arenas (16 in the code)
    MaxSerial,  \* last serial handed out (UINT64_MAX in the code)
    Target,     \* the callers' colour and depth targets
    Constant,   \* identities of 1x1 fill targets; a freed one may come back
    Colour,     \* fill colours
    None

ASSUME BlitAssumption ==
    /\ InFlight \in Nat \ {0}
    /\ MaxSerial \in Nat
    /\ None \notin Target \union Constant \union Colour
    /\ Target \intersect Constant = {}

ArenaId == 1 .. InFlight

VARIABLES
    arenas,    \* per arena: memory, serial, submitted flag, owners, commands
    labels,    \* per arena: its completion label
    serial,    \* serial of the last blit submitted
    failed,    \* a submission failed or a wait timed out
    constant,  \* the fill constant kept for the next clear, or None
    colours,   \* what each fill target holds
    gpu,       \* blits the driver accepted and the GPU has not ended
    call,      \* the call in progress
    storage    \* "live", "freed" or "retained": what the destructor left

cpuVars == <<serial, failed, constant, colours>>
vars == <<arenas, labels, cpuVars, gpu, call, storage>>

Owner == Target \union Constant \union {None}
Arena == [memory : BOOLEAN, serial : Nat, submitted : BOOLEAN,
          source : Owner, target : Owner, commands : Nat]
Entry == [arena : ArenaId, fence : Nat, source : Owner, target : Owner, colour : Colour \union {None}]
Idle  == [op |-> "none", at |-> "idle", source |-> None, target |-> None, arena |-> 0]
Call  == [op : {"none", "blit", "finish", "destroy"},
          at : {"idle", "claim", "write", "submit", "retire", "join", "wait", "end"},
          source : Owner, target : Owner, arena : 0 .. InFlight]

NoArena == [memory |-> FALSE, serial |-> 0, submitted |-> FALSE,
            source |-> None, target |-> None, commands |-> 0]

\* The constructor allocates the first arena.
Init ==
    /\ arenas = [a \in ArenaId |-> [NoArena EXCEPT !.memory = (a = 1)]]
    /\ labels = [a \in ArenaId |-> 0]
    /\ serial = 0 /\ failed = FALSE
    /\ constant = None /\ colours = [c \in Constant |-> None]
    /\ gpu = <<>> /\ call = Idle /\ storage = "live"

-----------------------------------------------------------------------------
(* Helpers of the implementation, each after the slips it could contain.    *)

Return == call' = Idle

\* Arena::landed(): the label holds the serial of the arena's own blit.
Landed(a) == labels[a] = arenas[a].serial

\* Arena::release(), for the arenas in done.
Released(done) ==
    [a \in ArenaId |-> IF a \in done
                       THEN [arenas[a] EXCEPT !.submitted = FALSE, !.source = None, !.target = None]
                       ELSE arenas[a]]

\* What one retire() may release.  The GPU runs on while the loop reads the
\* labels, so a blit that lands behind the loop stays for the next retire().
Retirable == SUBSET {a \in ArenaId : arenas[a].submitted /\ Landed(a)}

\* unresolved(): some submission may still run on the GPU.
Unresolved == failed \/ \E a \in ArenaId : arenas[a].submitted /\ ~Landed(a)

Submitted == {a \in ArenaId : arenas[a].submitted}

Oldest(S) == CHOOSE a \in S : \A b \in S : arenas[a].serial <= arenas[b].serial

First(S) == CHOOSE a \in S : \A b \in S : a <= b

\* Slip: an arena is free once its memory exists.
FreeByMemory(as) == {a \in ArenaId : as[a].memory}

\* claim(): an arena with memory and no submission.
Free(as) == {a \in ArenaId : as[a].memory /\ ~as[a].submitted}

\* Who holds a fill target: the unfinished blits' arenas.
Held(c) == \E a \in ArenaId : arenas[a].source = c

\* fill_constant(): the use count is one.
Reusable == constant # None /\ ~Held(constant)

\* fill_constant(): keep the constant or make a new one, then write it by CPU.
FillConstant(c, colour) ==
    /\ c = constant \/ ~Held(c)
    /\ Reusable <=> c = constant
    /\ constant' = c
    /\ colours' = [colours EXCEPT ![c] = colour]

-----------------------------------------------------------------------------
(* The calls.  What validation rejects changes nothing.                     *)

Ready == storage = "live" /\ call = Idle

\* copy(), copy_sampled(), copy_depth().
CallCopy(s, t) ==
    /\ Ready /\ ~failed /\ s # t
    /\ call' = [op |-> "blit", at |-> "claim", source |-> s, target |-> t, arena |-> 0]
    /\ UNCHANGED <<arenas, labels, cpuVars, gpu, storage>>

\* clear_color(), fill_depth_tested(): the constant is written before execute().
CallClear(t, colour) ==
    /\ Ready /\ ~failed
    /\ \E c \in Constant :
         /\ FillConstant(c, colour)
         /\ call' = [op |-> "blit", at |-> "claim", source |-> c, target |-> t, arena |-> 0]
    /\ UNCHANGED <<arenas, labels, serial, failed, gpu, storage>>

CallFinish ==
    /\ Ready /\ ~failed
    /\ call' = [Idle EXCEPT !.op = "finish", !.at = "join"]
    /\ UNCHANGED <<arenas, labels, cpuVars, gpu, storage>>

\* ~AgcBlit(): finish() unless a failure forbids it, its exception swallowed.
CallDestroy ==
    /\ Ready
    /\ call' = [Idle EXCEPT !.op = "destroy", !.at = IF failed THEN "end" ELSE "join"]
    /\ UNCHANGED <<arenas, labels, cpuVars, gpu, storage>>

WriteInto(a) == call' = [call EXCEPT !.at = "write", !.arena = a]
WaitFor(a)   == call' = [call EXCEPT !.at = "wait", !.arena = a]

\* execute(): the serials have run out.
Exhausted == serial = MaxSerial

SerialExhausted ==
    /\ call.at = "claim" /\ Exhausted
    /\ Return
    /\ UNCHANGED <<arenas, labels, cpuVars, gpu, storage>>

\* claim(): a free arena, else a new one, whose allocation may fail, else the
\* oldest submission's.
Claim ==
    /\ call.at = "claim" /\ ~Exhausted
    /\ \E done \in Retirable :
         LET as  == Released(done)
             new == {a \in ArenaId : ~as[a].memory}
         IN  \/ /\ Free(as) # {}
                /\ arenas' = as
                /\ WriteInto(First(Free(as)))
             \/ /\ Free(as) = {} /\ new # {}
                /\ \/ /\ arenas' = [as EXCEPT ![First(new)].memory = TRUE]
                      /\ WriteInto(First(new))
                   \/ arenas' = as /\ Return
             \/ /\ Free(as) = {} /\ new = {}
                /\ arenas' = as
                /\ WaitFor(Oldest(ArenaId))
    /\ UNCHANGED <<labels, cpuVars, gpu, storage>>

\* execute(): the commands go into the arena and its label is cleared.
Write ==
    /\ call.at = "write"
    /\ arenas' = [arenas EXCEPT ![call.arena].commands = serial + 1]
    /\ labels' = [labels EXCEPT ![call.arena] = 0]
    /\ call' = [call EXCEPT !.at = "submit"]
    /\ UNCHANGED <<cpuVars, gpu, storage>>

\* A register or command block does not fit: the arena stays unsubmitted.
WriteOverflows ==
    /\ call.at = "write"
    /\ arenas' = [arenas EXCEPT ![call.arena].commands = serial + 1]
    /\ Return
    /\ UNCHANGED <<labels, cpuVars, gpu, storage>>

\* The owners move into the arena as it counts as submitted.
Own ==
    arenas' = [arenas EXCEPT ![call.arena].source = call.source, ![call.arena].target = call.target,
                             ![call.arena].serial = serial + 1, ![call.arena].submitted = TRUE]

\* The GPU's view of the blit.
Enqueue ==
    gpu' = Append(gpu, [arena |-> call.arena, fence |-> serial + 1,
                        source |-> call.source, target |-> call.target,
                        colour |-> IF call.source \in Constant THEN colours[call.source] ELSE None])

\* The driver takes the command buffer, or reports an error: then whether it
\* took it is unknown, and nothing is reclaimed.
Submit ==
    /\ call.at = "submit"
    /\ Own
    /\ serial' = serial + 1
    /\ \/ /\ Enqueue
          /\ call' = [call EXCEPT !.at = "retire"]
          /\ UNCHANGED failed
       \/ /\ failed' = TRUE
          /\ Enqueue \/ UNCHANGED gpu
          /\ Return
    /\ UNCHANGED <<labels, constant, colours, storage>>

\* The retire() after the suspend point.
Retire ==
    /\ call.at = "retire"
    /\ \E done \in Retirable : arenas' = Released(done)
    /\ Return
    /\ UNCHANGED <<labels, cpuVars, gpu, storage>>

\* finish(): nothing submitted is left.
Joined == Submitted = {}

\* finish(): the next oldest submission, until none is left.
Join ==
    /\ call.at = "join"
    /\ \/ Joined /\ IF call.op = "destroy" THEN call' = [call EXCEPT !.at = "end"] ELSE Return
       \/ ~Joined /\ WaitFor(Oldest(Submitted))
    /\ UNCHANGED <<arenas, labels, cpuVars, gpu, storage>>

\* wait() sees the label: the arena is released and the caller goes on.
WaitDone ==
    /\ call.at = "wait" /\ Landed(call.arena)
    /\ arenas' = Released({call.arena})
    /\ call' = [call EXCEPT !.at = IF call.op = "blit" THEN "write" ELSE "join"]
    /\ UNCHANGED <<labels, cpuVars, gpu, storage>>

\* Slip: the tries start over.
WaitTimeoutRetries == call.at = "wait" /\ ~Landed(call.arena) /\ UNCHANGED vars

\* wait() uses up its tries: everything is kept; the destructor goes on.
WaitTimeout ==
    /\ call.at = "wait" /\ ~Landed(call.arena)
    /\ failed' = TRUE
    /\ IF call.op = "destroy" THEN call' = [call EXCEPT !.at = "end"] ELSE Return
    /\ UNCHANGED <<arenas, labels, serial, constant, colours, gpu, storage>>

\* The timing callback or the sleep inside gpu_wait_slice() throws: nothing is
\* released and the blitter has not failed; the destructor goes on.
WaitInterrupted ==
    /\ call.at = "wait"
    /\ IF call.op = "destroy" THEN call' = [call EXCEPT !.at = "end"] ELSE Return
    /\ UNCHANGED <<arenas, labels, cpuVars, gpu, storage>>

\* The end of the destructor: unresolved work keeps the whole implementation.
DestroyEnd ==
    /\ call.at = "end"
    /\ \/ /\ Unresolved
          /\ storage' = "retained"
          /\ UNCHANGED <<arenas, constant>>
       \/ /\ ~Unresolved
          /\ storage' = "freed"
          /\ arenas' = [a \in ArenaId |-> NoArena]
          /\ constant' = None
    /\ Return
    /\ UNCHANGED <<labels, serial, failed, colours, gpu>>

-----------------------------------------------------------------------------
\* The GPU ends its oldest blit and writes that arena's label.  It may hang.
GpuEnd ==
    /\ gpu # <<>>
    /\ labels' = [labels EXCEPT ![Head(gpu).arena] = Head(gpu).fence]
    /\ gpu' = Tail(gpu)
    /\ UNCHANGED <<arenas, cpuVars, call, storage>>

CallStep ==
    \/ SerialExhausted \/ Claim \/ Write \/ WriteOverflows \/ Submit \/ Retire
    \/ Join \/ WaitDone \/ WaitTimeout \/ DestroyEnd

Next ==
    \/ \E s, t \in Target : CallCopy(s, t)
    \/ \E t \in Target, colour \in Colour : CallClear(t, colour)
    \/ CallFinish \/ CallDestroy
    \/ CallStep \/ WaitInterrupted
    \/ GpuEnd

Spec == Init /\ [][Next]_vars

\* A call's steps are a running thread's; nothing is assumed of the GPU.
FairSpec == Spec /\ WF_vars(CallStep)

-----------------------------------------------------------------------------
(* Properties.                                                              *)

\* Every variable keeps its type; arena serials lie within those handed out.
TypeOK ==
    /\ arenas \in [ArenaId -> Arena]
    /\ labels \in [ArenaId -> Nat]
    /\ serial \in 0 .. MaxSerial
    /\ failed \in BOOLEAN
    /\ constant \in Constant \union {None}
    /\ colours \in [Constant -> Colour \union {None}]
    /\ gpu \in Seq(Entry)
    /\ call \in Call
    /\ storage \in {"live", "freed", "retained"}

\* claim() never hands out an arena whose commands the GPU may still read.
StorageStable ==
    \A i \in DOMAIN gpu : arenas[gpu[i].arena].commands = gpu[i].fence

\* What an unfinished blit samples and renders to is held by its arena
\* (retire(), wait(), finish() and the destructor all release arenas).
OwnersHeld ==
    \A i \in DOMAIN gpu : /\ arenas[gpu[i].arena].source = gpu[i].source
                          /\ arenas[gpu[i].arena].target = gpu[i].target

\* fill_constant() never rewrites, nor reuses the memory of, a constant that an
\* unfinished clear still samples.
FillStable ==
    \A i \in DOMAIN gpu :
        gpu[i].source \in Constant => colours[gpu[i].source] = gpu[i].colour

\* The destructor frees the arenas only when the GPU runs none of them.
FreedOnlyIdle == storage = "freed" => gpu = <<>>

\* Nothing an unfinished blit uses is touched: its commands, what it samples and
\* renders to, its constant, and the arenas at destruction.
InFlightIntact == TypeOK /\ StorageStable /\ OwnersHeld /\ FillStable /\ FreedOnlyIdle

\* finish() returns without an error only when no blit is unfinished: the CPU
\* may read the targets and VideoOut may scan them out.
FinishJoins ==
    [][ (call.op = "finish" /\ call' = Idle /\ ~failed' /\ ~WaitInterrupted) => gpu' = <<>> ]_vars

\* Every call ends, finish()'s loop and the destructor included, even when the
\* GPU hangs.
CallsReturn == (call # Idle) ~> (call = Idle)

\* A call ends, and finish() has joined what it says it has.
CallsEndWell == CallsReturn /\ FinishJoins
=============================================================================
