------------------------------ MODULE FastClock ------------------------------
(***************************************************************************)
(* The fast monotonic clock (ps5/runtime/fast_clock.h): time from a cheap  *)
(* counter and an anchor that ties it to the kernel's clock.               *)
(*                                                                         *)
(* Readers never block: a sequence lock protects the anchor, and a reader  *)
(* that finds it too old replaces it.  One action is one atomic access, so *)
(* threads interleave wherever they can; the code's acquire loads and      *)
(* release stores order them as here.                                      *)
(***************************************************************************)
EXTENDS Naturals

CONSTANTS
    Thread,       \* threads that read the clock
    Frequency,    \* ticks of the counter in a second
    Second,       \* nanoseconds in a second (10^9 in the code)
    ResyncTicks,  \* age at which an anchor is replaced (250 ms in the code)
    MaxCall,      \* bound: ticks that pass from the start of a call to its last
                  \* reading of the counter
    Skew,         \* how far the counter and the kernel's clock drift apart in a run
    MaxTick       \* bound: ticks in a run

ASSUME ClockAssumption ==
    /\ Frequency \in Nat \ {0} /\ Second \in Nat
    /\ ResyncTicks \in Nat \ {0}
    /\ MaxCall \in Nat /\ Skew \in Nat /\ MaxTick \in Nat

VARIABLES
    counter,      \* the process time counter
    kernel,       \* the kernel's monotonic clock, in nanoseconds
    sequence,     \* odd while the anchor is being replaced
    baseCounter, baseNanos,  \* the anchor
    resyncing,    \* a thread is replacing the anchor
    last,         \* the greatest value returned, or about to be
    pc,           \* per thread: its next access
    local,        \* per thread: what now_nanos() has read and computed
    result,       \* history: the value returned last
    returned,     \* history: the greatest value returned
    floor         \* history: per thread in a call, returned when the call began

sources == <<counter, kernel>>
anchor  == <<sequence, baseCounter, baseNanos>>
history == <<result, returned, floor>>
vars == <<sources, anchor, resyncing, last, pc, local, history>>

Local == [counter : Nat, sequence : Nat, baseCounter : Nat, baseNanos : Nat,
          after : Nat, nanos : Nat, previous : Nat]
Blank == [counter |-> 0, sequence |-> 0, baseCounter |-> 0, baseNanos |-> 0,
          after |-> 0, nanos |-> 0, previous |-> 0]
Access == {"idle", "sequence", "baseCounter", "baseNanos", "check", "resync", "slow", "after",
           "odd", "storeCounter", "storeNanos", "even", "clear", "last", "raise"}

\* The constructor has set the first anchor.
Init ==
    /\ counter = 0 /\ kernel = 0
    /\ sequence = 0 /\ baseCounter = 0 /\ baseNanos = 0
    /\ resyncing = FALSE /\ last = 0
    /\ pc = [t \in Thread |-> "idle"]
    /\ local = [t \in Thread |-> Blank]
    /\ result = 0 /\ returned = 0
    /\ floor = [t \in Thread |-> 0]

-----------------------------------------------------------------------------
(* Helpers of the implementation, each after the slips it could contain.    *)

\* scale(): whole nanoseconds.
Scale(ticks) == (ticks * Second) \div Frequency

Since(from, to) == IF to > from THEN to - from ELSE 0

\* The middle of the interval in which the kernel's clock was read.
Middle(from, to) == from + (to - from) \div 2

At(t, access)    == pc[t] = access
Go(t, access)    == pc' = [pc EXCEPT ![t] = access]
Keep(t, loc)     == local' = [local EXCEPT ![t] = loc]

\* All that is left of a call is the value it has computed.
ValueOnly(t) == Keep(t, [Blank EXCEPT !.nanos = local[t].nanos])

Return(t, v) ==
    /\ Keep(t, Blank) /\ Go(t, "idle")
    /\ result' = v
    /\ returned' = IF v > returned THEN v ELSE returned
    /\ floor' = [floor EXCEPT ![t] = 0]

Elapsed(t) == Since(local[t].baseCounter, local[t].counter)

\* Slip: an anchor that does not change is taken to be whole.
UnchangedOnly(t) == local[t].sequence = sequence

\* The reader saw one anchor, whole.
Whole(t) == local[t].sequence % 2 = 0 /\ local[t].sequence = sequence

\* Slip: the new anchor is not behind the last value returned.
BaseAhead(t) == IF kernel > last THEN kernel ELSE last

\* resync() always goes back to the kernel's time.
Base(t) == kernel

\* Slip: the last value is overwritten.
RaiseBlindly(t) ==
    /\ At(t, "raise")
    /\ last' = local[t].nanos
    /\ Return(t, local[t].nanos)
    /\ UNCHANGED <<sources, anchor, resyncing>>

-----------------------------------------------------------------------------
(* now_nanos().                                                             *)

Call(t) ==
    /\ At(t, "idle")
    /\ Keep(t, [Blank EXCEPT !.counter = counter]) /\ Go(t, "sequence")
    /\ floor' = [floor EXCEPT ![t] = returned]
    /\ UNCHANGED <<sources, anchor, resyncing, last, result, returned>>

LoadSequence(t) ==
    /\ At(t, "sequence")
    /\ Keep(t, [local[t] EXCEPT !.sequence = sequence]) /\ Go(t, "baseCounter")
    /\ UNCHANGED <<sources, anchor, resyncing, last, history>>

LoadCounter(t) ==
    /\ At(t, "baseCounter")
    /\ Keep(t, [local[t] EXCEPT !.baseCounter = baseCounter]) /\ Go(t, "baseNanos")
    /\ UNCHANGED <<sources, anchor, resyncing, last, history>>

LoadNanos(t) ==
    /\ At(t, "baseNanos")
    /\ Keep(t, [local[t] EXCEPT !.baseNanos = baseNanos]) /\ Go(t, "check")
    /\ UNCHANGED <<sources, anchor, resyncing, last, history>>

\* The end of the loop: once more, or the time since the anchor.
Check(t) ==
    /\ At(t, "check")
    /\ IF Whole(t)
       THEN Keep(t, [local[t] EXCEPT !.nanos = local[t].baseNanos + Scale(Elapsed(t))]) /\ Go(t, "resync")
       ELSE Go(t, "sequence") /\ UNCHANGED local
    /\ UNCHANGED <<sources, anchor, resyncing, last, history>>

\* An anchor that is too old is replaced by one thread at a time.
TestResync(t) ==
    /\ At(t, "resync")
    /\ IF Elapsed(t) >= ResyncTicks /\ ~resyncing
       THEN resyncing' = TRUE /\ Go(t, "slow") /\ UNCHANGED local
       ELSE ValueOnly(t) /\ Go(t, "last") /\ UNCHANGED resyncing
    /\ UNCHANGED <<sources, anchor, last, history>>

-----------------------------------------------------------------------------
(* resync().                                                                *)

ReadKernel(t) ==
    /\ At(t, "slow")
    /\ Keep(t, [local[t] EXCEPT !.baseNanos = Base(t)]) /\ Go(t, "after")
    /\ UNCHANGED <<sources, anchor, resyncing, last, history>>

\* kernel_monotonic_nanos() gives 0 for a kernel call that fails.
KernelFails(t) ==
    /\ At(t, "slow")
    /\ Keep(t, [local[t] EXCEPT !.baseNanos = 0]) /\ Go(t, "after")
    /\ UNCHANGED <<sources, anchor, resyncing, last, history>>

\* Ticks while the kernel's clock was read, or while the thread did not run.
ReadAfter(t) ==
    /\ At(t, "after")
    /\ Keep(t, [local[t] EXCEPT !.after = counter,
                                !.baseCounter = Middle(local[t].counter, counter)])
    /\ Go(t, "odd")
    /\ UNCHANGED <<sources, anchor, resyncing, last, history>>

StoreOdd(t) ==
    /\ At(t, "odd")
    /\ sequence' = sequence + 1 /\ Go(t, "storeCounter")
    /\ UNCHANGED <<sources, baseCounter, baseNanos, resyncing, last, local, history>>

StoreCounter(t) ==
    /\ At(t, "storeCounter")
    /\ baseCounter' = local[t].baseCounter /\ Go(t, "storeNanos")
    /\ UNCHANGED <<sources, sequence, baseNanos, resyncing, last, local, history>>

StoreNanos(t) ==
    /\ At(t, "storeNanos")
    /\ baseNanos' = local[t].baseNanos /\ Go(t, "even")
    /\ UNCHANGED <<sources, sequence, baseCounter, resyncing, last, local, history>>

StoreEven(t) ==
    /\ At(t, "even")
    /\ sequence' = sequence + 1
    /\ Keep(t, [local[t] EXCEPT
                    !.nanos = local[t].baseNanos + Scale(Since(local[t].baseCounter, local[t].after))])
    /\ Go(t, "clear")
    /\ UNCHANGED <<sources, baseCounter, baseNanos, resyncing, last, history>>

Clear(t) ==
    /\ At(t, "clear")
    /\ resyncing' = FALSE
    /\ ValueOnly(t) /\ Go(t, "last")
    /\ UNCHANGED <<sources, anchor, last, history>>

-----------------------------------------------------------------------------
(* The end of now_nanos(): never below what any thread has returned.        *)

LoadLast(t) ==
    /\ At(t, "last")
    /\ Keep(t, [local[t] EXCEPT !.previous = last]) /\ Go(t, "raise")
    /\ UNCHANGED <<sources, anchor, resyncing, last, history>>

\* compare_exchange_weak, which may fail for no reason, and its loop.
Raise(t) ==
    /\ At(t, "raise")
    /\ LET l == local[t]
       IN  \/ /\ l.nanos <= l.previous
              /\ Return(t, l.previous)
              /\ UNCHANGED last
           \/ /\ l.nanos > l.previous /\ last = l.previous
              /\ last' = l.nanos
              /\ Return(t, l.nanos)
           \/ /\ l.nanos > l.previous
              /\ Keep(t, [l EXCEPT !.previous = last])
              /\ UNCHANGED <<last, pc, history>>
    /\ UNCHANGED <<sources, anchor, resyncing>>

-----------------------------------------------------------------------------

\* Both sources advance, at rates that differ a little, and no thread is kept
\* from its next step for long.
Tick ==
    /\ counter < MaxTick
    /\ \A t \in Thread : pc[t] \notin {"idle", "odd", "storeCounter", "storeNanos", "even", "clear",
                                       "last", "raise"}
                            => counter < local[t].counter + MaxCall
    /\ counter' = counter + 1
    /\ kernel' \in kernel .. Scale(counter + 1) + Skew
    /\ Scale(counter + 1) <= kernel' + Skew
    /\ UNCHANGED <<anchor, resyncing, last, pc, local, history>>

Step(t) ==
    \/ Call(t) \/ LoadSequence(t) \/ LoadCounter(t) \/ LoadNanos(t) \/ Check(t) \/ TestResync(t)
    \/ ReadKernel(t) \/ KernelFails(t) \/ ReadAfter(t)
    \/ StoreOdd(t) \/ StoreCounter(t) \/ StoreNanos(t) \/ StoreEven(t) \/ Clear(t)
    \/ LoadLast(t) \/ Raise(t)

Next == Tick \/ \E t \in Thread : Step(t)

Spec == Init /\ [][Next]_vars

-----------------------------------------------------------------------------
(* Properties.                                                              *)

\* Every variable keeps its type.
TypeOK ==
    /\ counter \in Nat /\ kernel \in Nat
    /\ sequence \in Nat /\ baseCounter \in Nat /\ baseNanos \in Nat
    /\ resyncing \in BOOLEAN /\ last \in Nat
    /\ pc \in [Thread -> Access]
    /\ local \in [Thread -> Local]
    /\ result \in Nat /\ returned \in Nat /\ floor \in [Thread -> Nat]

\* A reader that leaves the loop has read the anchor in force, both halves of it,
\* although other threads may be replacing it.
AnchorWhole ==
    [][ \A t \in Thread : (At(t, "check") /\ At(t, "resync")') =>
            /\ local[t].baseCounter = baseCounter /\ local[t].baseNanos = baseNanos
            /\ \A u \in Thread : ~At(u, "storeNanos") ]_vars

\* "Returned values never decrease, across re-anchors and across threads": a call
\* returns at least what any call had returned before it began.
NeverBackwards ==
    [][ \A t \in Thread : (At(t, "raise") /\ At(t, "idle")') => result' >= floor[t] ]_vars

\* "The lead never accumulates": however often threads re-anchor, and with whatever
\* counter values from before they were preempted, time is ahead of the kernel's by
\* at most half a call and the drift of the two sources.
LeadBounded == returned <= kernel + Scale((MaxCall + 1) \div 2) + 1 + 2 * Skew
=============================================================================
