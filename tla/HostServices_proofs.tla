------------------------ MODULE HostServices_proofs ------------------------
(***************************************************************************)
(* Four services the runtime gets from its host, each on its own: the fast *)
(* clock, for any number of threads; the asynchronous log, for any number  *)
(* of callers and lines; fiber contexts, for any fibers and host threads;  *)
(* and the audio output, for any number of openings and blocks.            *)
(*                                                                         *)
(* Clock.  IInv says that one thread replaces the anchor and what readers  *)
(* have of it; LeadInv that every anchor, and every value on its way, is   *)
(* behind the kernel's clock by the lead at most.                          *)
(*                                                                         *)
(* Log.  LinesKept is not inductive: that a line is whole in the file      *)
(* needs the order of the bytes the file, the batch and the queue hold     *)
(* together (LogInv).                                                      *)
(*                                                                         *)
(* Contexts.  ContextsSound is not inductive: a switch goes where the      *)
(* saved frame says.  HostInv adds what every frame that may be popped     *)
(* holds, that the count which the shutdown looks at is the number of      *)
(* contexts, and that only the owner is inside a call.                     *)
(*                                                                         *)
(* Audio.  That GetDeviceBuf() hands out the other buffer needs HeldLast,  *)
(* which says in which buffer the device is at every step of a block, and  *)
(* that it holds the last one it took.                                     *)
(***************************************************************************)
EXTENDS FastClock, AsyncLog, HostContexts, AudioOut, FiniteSetTheorems, SequenceTheorems, TLAPS

-----------------------------------------------------------------------------
(* The fast clock and the asynchronous log.                                 *)

Writing   == {"slow", "after", "odd", "storeCounter", "storeNanos", "even", "clear"}
Replacing == {"storeCounter", "storeNanos", "even"}

\* At most one thread replaces the anchor, and the flag keeps others out.
WriterAlone ==
    /\ \A t \in Thread : pc[t] \in Writing => resyncing
    /\ \A t, u \in Thread : pc[t] \in Writing /\ pc[u] \in Writing => t = u

\* The sequence is odd exactly while the anchor is being stored.
Parity == (sequence % 2 = 1) <=> \E t \in Thread : pc[t] \in Replacing

\* What a reader has read so far is still in force if the sequence has not moved,
\* and its counter value is not ahead of the counter.
ReaderCurrent ==
    \A t \in Thread :
        /\ local[t].counter <= counter
        /\ pc[t] \in {"baseCounter", "baseNanos", "check"} => local[t].sequence <= sequence
        /\ local[t].sequence = sequence /\ sequence % 2 = 0 =>
             /\ pc[t] \in {"baseNanos", "check"} => local[t].baseCounter = baseCounter
             /\ pc[t] = "check" => local[t].baseNanos = baseNanos

\* No call has returned more than `last`, and a call has seen at least its floor.
ValuesOrdered ==
    /\ returned <= last
    /\ \A t \in Thread :
         /\ floor[t] <= returned
         /\ pc[t] = "raise" => floor[t] <= local[t].previous /\ local[t].previous <= last

IInv == TypeOK /\ WriterAlone /\ Parity /\ ReaderCurrent /\ ValuesOrdered

-----------------------------------------------------------------------------

LEMMA ScaleType == ASSUME NEW n \in Nat PROVE Scale(n) \in Nat
<1>1. n * Second \in Nat
  BY ClockAssumption
<1>2. \A a \in Nat, b \in Nat \ {0} : a \div b \in Nat
  BY SMTT(30)
<1> QED
  BY <1>1, <1>2, ClockAssumption DEF Scale

LEMMA SinceType == ASSUME NEW a \in Nat, NEW b \in Nat PROVE Since(a, b) \in Nat
  BY DEF Since

LEMMA MiddleType == ASSUME NEW a \in Nat, NEW b \in Nat, a <= b PROVE Middle(a, b) \in Nat
  BY DEF Middle

LEMMA InitIInv == Init => IInv
<1> SUFFICES ASSUME Init PROVE IInv
  OBVIOUS
<1>1. Blank \in Local
  BY DEF Blank, Local
<1>2. TypeOK
  BY <1>1 DEF Init, TypeOK, Access
<1>3. WriterAlone /\ Parity /\ ReaderCurrent /\ ValuesOrdered
  BY DEF Init, Blank, WriterAlone, Parity, ReaderCurrent, ValuesOrdered, Writing, Replacing
<1> QED
  BY <1>2, <1>3 DEF IInv

-----------------------------------------------------------------------------
(* A call outside the loop and resync().                                    *)

\* Time passes: nothing the invariant speaks of moves but the sources.
LEMMA TickKeepsIInv == ASSUME IInv, Tick PROVE IInv'
<1> USE DEF IInv
<1>1. counter' \in Nat /\ kernel' \in Nat
  <2>1. counter + 1 \in Nat /\ Scale(counter + 1) + Skew \in Nat
    BY ScaleType, ClockAssumption DEF TypeOK
  <2> QED
    BY <2>1 DEF Tick, TypeOK
<1>2. TypeOK'
  BY <1>1 DEF TypeOK, Tick, anchor, history
<1>3. ReaderCurrent'
  BY DEF Tick, TypeOK, Local, ReaderCurrent, anchor
<1>4. WriterAlone' /\ Parity' /\ ValuesOrdered'
  BY DEF Tick, WriterAlone, Parity, ValuesOrdered, anchor, history
<1> QED
  BY <1>2, <1>3, <1>4

LEMMA CallKeepsIInv == ASSUME IInv, NEW t \in Thread, Call(t) PROVE IInv'
<1> USE DEF IInv
<1>1. TypeOK'
  <2>1. [Blank EXCEPT !.counter = counter] \in Local
    BY DEF TypeOK, Blank, Local
  <2> QED
    BY <2>1 DEF TypeOK, Call, At, Keep, Go, Access, sources, anchor
<1>2. WriterAlone' /\ Parity'
  BY DEF WriterAlone, Parity, Call, At, Go, TypeOK, Writing, Replacing, anchor
<1>3. ReaderCurrent'
  BY DEF ReaderCurrent, Call, At, Go, Keep, TypeOK, anchor, sources
<1>4. ValuesOrdered'
  BY DEF ValuesOrdered, Call, At, Go, Keep, TypeOK
<1> QED
  BY <1>1, <1>2, <1>3, <1>4

\* Reading the end of the loop: what the steps of a reader leave alone.
LEMMA LoopKeepsIInv ==
  ASSUME IInv, NEW t \in Thread,
         LoadSequence(t) \/ LoadCounter(t) \/ LoadNanos(t) \/ Check(t)
  PROVE  IInv'
<1> USE DEF IInv
<1>1. CASE LoadSequence(t)
  <2>1. TypeOK'
    <3>1. [local[t] EXCEPT !.sequence = sequence] \in Local
      BY DEF TypeOK, Local
    <3> QED
      BY <1>1, <3>1 DEF TypeOK, LoadSequence, Keep, Go, Access, sources, anchor, history
  <2>2. WriterAlone' /\ Parity'
    BY <1>1 DEF WriterAlone, Parity, LoadSequence, At, Go, TypeOK, Writing, Replacing, anchor
  <2>3. ReaderCurrent'
    BY <1>1 DEF ReaderCurrent, LoadSequence, At, Go, Keep, TypeOK, Local, anchor, sources
  <2>4. ValuesOrdered'
    BY <1>1 DEF ValuesOrdered, LoadSequence, At, Go, Keep, TypeOK, history
  <2> QED
    BY <2>1, <2>2, <2>3, <2>4
<1>2. CASE LoadCounter(t)
  <2>1. TypeOK'
    <3>1. [local[t] EXCEPT !.baseCounter = baseCounter] \in Local
      BY DEF TypeOK, Local
    <3> QED
      BY <1>2, <3>1 DEF TypeOK, LoadCounter, Keep, Go, Access, sources, anchor, history
  <2>2. WriterAlone' /\ Parity'
    BY <1>2 DEF WriterAlone, Parity, LoadCounter, At, Go, TypeOK, Writing, Replacing, anchor
  <2>3. ReaderCurrent'
    BY <1>2 DEF ReaderCurrent, LoadCounter, At, Go, Keep, TypeOK, Local, anchor, sources
  <2>4. ValuesOrdered'
    BY <1>2 DEF ValuesOrdered, LoadCounter, At, Go, Keep, TypeOK, history
  <2> QED
    BY <2>1, <2>2, <2>3, <2>4
<1>3. CASE LoadNanos(t)
  <2>1. TypeOK'
    <3>1. [local[t] EXCEPT !.baseNanos = baseNanos] \in Local
      BY DEF TypeOK, Local
    <3> QED
      BY <1>3, <3>1 DEF TypeOK, LoadNanos, Keep, Go, Access, sources, anchor, history
  <2>2. WriterAlone' /\ Parity'
    BY <1>3 DEF WriterAlone, Parity, LoadNanos, At, Go, TypeOK, Writing, Replacing, anchor
  <2>3. ReaderCurrent'
    BY <1>3 DEF ReaderCurrent, LoadNanos, At, Go, Keep, TypeOK, Local, anchor, sources
  <2>4. ValuesOrdered'
    BY <1>3 DEF ValuesOrdered, LoadNanos, At, Go, Keep, TypeOK, history
  <2> QED
    BY <2>1, <2>2, <2>3, <2>4
<1>4. CASE Check(t)
  <2>1. TypeOK'
    <3>1. Scale(Elapsed(t)) \in Nat
      BY ScaleType, SinceType DEF Elapsed, TypeOK, Local
    <3>2. [local[t] EXCEPT !.nanos = local[t].baseNanos + Scale(Elapsed(t))] \in Local
      BY <3>1 DEF TypeOK, Local
    <3> QED
      BY <1>4, <3>2 DEF TypeOK, Check, Keep, Go, Access, sources, anchor, history
  <2>2. WriterAlone' /\ Parity'
    BY <1>4 DEF WriterAlone, Parity, Check, At, Go, TypeOK, Writing, Replacing, anchor
  <2>3. ReaderCurrent'
    BY <1>4 DEF ReaderCurrent, Check, At, Go, Keep, TypeOK, Local, anchor, sources
  <2>4. ValuesOrdered'
    BY <1>4 DEF ValuesOrdered, Check, At, Go, Keep, TypeOK, history
  <2> QED
    BY <2>1, <2>2, <2>3, <2>4
<1> QED
  BY <1>1, <1>2, <1>3, <1>4

\* The flag is taken by one thread; a reader that leaves keeps only its value.
LEMMA TestKeepsIInv == ASSUME IInv, NEW t \in Thread, TestResync(t) PROVE IInv'
<1> USE DEF IInv
<1>1. [Blank EXCEPT !.nanos = local[t].nanos] \in Local
  BY DEF TypeOK, Blank, Local
<1>2. TypeOK'
  BY <1>1 DEF TypeOK, TestResync, ValueOnly, Keep, Go, Access, sources, anchor, history
<1>3. WriterAlone'
  BY DEF WriterAlone, TestResync, At, Go, TypeOK, Writing
<1>4. Parity' /\ ReaderCurrent'
  BY DEF Parity, ReaderCurrent, TestResync, ValueOnly, At, Go, Keep, TypeOK, Local, Blank, Replacing, anchor, sources
<1>5. ValuesOrdered'
  BY DEF ValuesOrdered, TestResync, ValueOnly, At, Go, Keep, TypeOK, history
<1> QED
  BY <1>2, <1>3, <1>4, <1>5

\* The two clocks are read into the writer's own variables.
LEMMA SourcesKeepIInv ==
  ASSUME IInv, NEW t \in Thread, ReadKernel(t) \/ KernelFails(t) \/ ReadAfter(t)
  PROVE  IInv'
<1> USE DEF IInv
<1>1. CASE ReadKernel(t)
  <2>1. [local[t] EXCEPT !.baseNanos = Base(t)] \in Local
    BY DEF TypeOK, Local, Base
  <2>2. TypeOK'
    BY <1>1, <2>1 DEF TypeOK, ReadKernel, Keep, Go, Access, sources, anchor, history
  <2>3. WriterAlone' /\ Parity'
    BY <1>1 DEF WriterAlone, Parity, ReadKernel, At, Go, TypeOK, Writing, Replacing, anchor
  <2>4. ReaderCurrent' /\ ValuesOrdered'
    BY <1>1 DEF ReaderCurrent, ValuesOrdered, ReadKernel, At, Go, Keep, TypeOK, Local, anchor, history, sources
  <2> QED
    BY <2>2, <2>3, <2>4
<1>2. CASE KernelFails(t)
  <2>1. [local[t] EXCEPT !.baseNanos = 0] \in Local
    BY DEF TypeOK, Local
  <2>2. TypeOK'
    BY <1>2, <2>1 DEF TypeOK, KernelFails, Keep, Go, Access, sources, anchor, history
  <2>3. WriterAlone' /\ Parity'
    BY <1>2 DEF WriterAlone, Parity, KernelFails, At, Go, TypeOK, Writing, Replacing, anchor
  <2>4. ReaderCurrent' /\ ValuesOrdered'
    BY <1>2 DEF ReaderCurrent, ValuesOrdered, KernelFails, At, Go, Keep, TypeOK, Local, anchor, history, sources
  <2> QED
    BY <2>2, <2>3, <2>4
<1>3. CASE ReadAfter(t)
  <2>1. [local[t] EXCEPT !.after = counter, !.baseCounter = Middle(local[t].counter, counter)] \in Local
    BY MiddleType DEF ReaderCurrent, TypeOK, Local
  <2>2. TypeOK'
    BY <1>3, <2>1 DEF TypeOK, ReadAfter, Keep, Go, Access, sources, anchor, history
  <2>3. WriterAlone' /\ Parity'
    BY <1>3 DEF WriterAlone, Parity, ReadAfter, At, Go, TypeOK, Writing, Replacing, anchor
  <2>4. ReaderCurrent' /\ ValuesOrdered'
    BY <1>3 DEF ReaderCurrent, ValuesOrdered, ReadAfter, At, Go, Keep, TypeOK, Local, anchor, history, sources
  <2> QED
    BY <2>2, <2>3, <2>4
<1> QED
  BY <1>1, <1>2, <1>3

\* Storing the anchor: the sequence is odd from the first store to the last, and
\* no reader that began earlier finds it unmoved.
LEMMA StoresKeepIInv ==
  ASSUME IInv, NEW t \in Thread,
         StoreOdd(t) \/ StoreCounter(t) \/ StoreNanos(t) \/ StoreEven(t)
  PROVE  IInv'
<1> USE DEF IInv
<1>1. CASE StoreOdd(t)
  <2>1. TypeOK'
    BY <1>1 DEF TypeOK, StoreOdd, Go, Access, sources, history
  <2>2. WriterAlone'
    BY <1>1 DEF WriterAlone, StoreOdd, At, Go, TypeOK, Writing
  <2>3. Parity'
    <3>1. \A u \in Thread : pc[u] \notin Replacing
      BY <1>1 DEF WriterAlone, StoreOdd, At, Writing, Replacing
    <3>2. sequence % 2 # 1
      BY <3>1 DEF Parity
    <3>3. sequence' % 2 = 1
      BY <1>1, <3>2 DEF StoreOdd, TypeOK
    <3>4. pc'[t] \in Replacing
      BY <1>1 DEF StoreOdd, Go, TypeOK, Replacing
    <3> QED
      BY <3>3, <3>4 DEF Parity
  <2>4. ReaderCurrent'
    BY <1>1 DEF ReaderCurrent, StoreOdd, At, Go, TypeOK, Local, sources
  <2>5. ValuesOrdered'
    BY <1>1 DEF ValuesOrdered, StoreOdd, At, Go, TypeOK, history
  <2> QED
    BY <2>1, <2>2, <2>3, <2>4, <2>5
<1>2. CASE StoreCounter(t)
  <2>1. TypeOK'
    BY <1>2 DEF TypeOK, StoreCounter, Go, Access, Local, sources, history
  <2>2. WriterAlone' /\ Parity'
    BY <1>2 DEF WriterAlone, Parity, StoreCounter, At, Go, TypeOK, Writing, Replacing
  <2>3. sequence % 2 # 0
    BY <1>2 DEF Parity, StoreCounter, At, Replacing
  <2>4. ReaderCurrent' /\ ValuesOrdered'
    BY <1>2, <2>3 DEF ReaderCurrent, ValuesOrdered, StoreCounter, At, Go, TypeOK, history, sources
  <2> QED
    BY <2>1, <2>2, <2>4
<1>3. CASE StoreNanos(t)
  <2>1. TypeOK'
    BY <1>3 DEF TypeOK, StoreNanos, Go, Access, Local, sources, history
  <2>2. WriterAlone' /\ Parity'
    BY <1>3 DEF WriterAlone, Parity, StoreNanos, At, Go, TypeOK, Writing, Replacing
  <2>3. sequence % 2 # 0
    BY <1>3 DEF Parity, StoreNanos, At, Replacing
  <2>4. ReaderCurrent' /\ ValuesOrdered'
    BY <1>3, <2>3 DEF ReaderCurrent, ValuesOrdered, StoreNanos, At, Go, TypeOK, history, sources
  <2> QED
    BY <2>1, <2>2, <2>4
<1>4. CASE StoreEven(t)
  <2>1. TypeOK'
    <3>1. Scale(Since(local[t].baseCounter, local[t].after)) \in Nat
      BY ScaleType, SinceType DEF TypeOK, Local
    <3>2. [local[t] EXCEPT !.nanos = local[t].baseNanos
                                       + Scale(Since(local[t].baseCounter, local[t].after))] \in Local
      BY <3>1 DEF TypeOK, Local
    <3> QED
      BY <1>4, <3>2 DEF TypeOK, StoreEven, Keep, Go, Access, sources, history
  <2>2. WriterAlone'
    BY <1>4 DEF WriterAlone, StoreEven, At, Go, TypeOK, Writing
  <2>3. Parity'
    <3>1. \A u \in Thread : pc'[u] \notin Replacing
      BY <1>4 DEF WriterAlone, StoreEven, At, Go, TypeOK, Writing, Replacing
    <3>2. sequence % 2 = 1
      BY <1>4 DEF Parity, StoreEven, At, Replacing
    <3>3. sequence' % 2 # 1
      BY <1>4, <3>2 DEF StoreEven, TypeOK
    <3> QED
      BY <3>1, <3>3 DEF Parity
  <2>4. ReaderCurrent'
    BY <1>4 DEF ReaderCurrent, StoreEven, At, Go, Keep, TypeOK, Local, sources
  <2>5. ValuesOrdered'
    BY <1>4 DEF ValuesOrdered, StoreEven, At, Go, Keep, TypeOK, history
  <2> QED
    BY <2>1, <2>2, <2>3, <2>4, <2>5
<1> QED
  BY <1>1, <1>2, <1>3, <1>4

LEMMA ClearKeepsIInv == ASSUME IInv, NEW t \in Thread, Clear(t) PROVE IInv'
<1> USE DEF IInv
<1>1. [Blank EXCEPT !.nanos = local[t].nanos] \in Local
  BY DEF TypeOK, Blank, Local
<1>2. TypeOK'
  BY <1>1 DEF TypeOK, Clear, ValueOnly, Keep, Go, Access, sources, anchor, history
<1>3. WriterAlone'
  BY DEF WriterAlone, Clear, At, Go, TypeOK, Writing
<1>4. Parity' /\ ReaderCurrent'
  BY DEF Parity, ReaderCurrent, Clear, ValueOnly, At, Go, Keep, TypeOK, Local, Blank, Replacing, anchor, sources
<1>5. ValuesOrdered'
  BY DEF ValuesOrdered, Clear, ValueOnly, At, Go, Keep, TypeOK, history
<1> QED
  BY <1>2, <1>3, <1>4, <1>5

\* The end of a call: `last` only grows, and what is returned lies between the
\* call's floor and `last`.
LEMMA LastKeepsIInv ==
  ASSUME IInv, NEW t \in Thread, LoadLast(t) \/ Raise(t)
  PROVE  IInv' /\ (pc[t] = "raise" /\ pc'[t] = "idle" => result' >= floor[t])
<1> USE DEF IInv
<1>1. CASE LoadLast(t)
  <2>1. [local[t] EXCEPT !.previous = last] \in Local
    BY DEF TypeOK, Local
  <2>2. TypeOK'
    BY <1>1, <2>1 DEF TypeOK, LoadLast, Keep, Go, Access, sources, anchor, history
  <2>3. WriterAlone' /\ Parity' /\ ReaderCurrent'
    BY <1>1 DEF WriterAlone, Parity, ReaderCurrent, LoadLast, At, Go, Keep, TypeOK, Local, Writing, Replacing, anchor, sources
  <2>4. ValuesOrdered'
    BY <1>1 DEF ValuesOrdered, LoadLast, At, Go, Keep, TypeOK, Local, history
  <2> QED
    BY <1>1, <2>2, <2>3, <2>4 DEF LoadLast, At
<1>2. CASE Raise(t)
  <2> DEFINE l == local[t]
  <2>1. l \in Local /\ l.nanos \in Nat /\ l.previous \in Nat /\ floor[t] \in Nat /\ last \in Nat /\ returned \in Nat
    BY DEF TypeOK, Local
  <2>2. floor[t] <= l.previous /\ l.previous <= last /\ returned <= last
    BY <1>2 DEF ValuesOrdered, Raise, At
  <2>3. Blank \in Local
    BY DEF Blank, Local
  <2>4. ASSUME NEW v \in Nat, Return(t, v), floor[t] <= v, v <= last', last <= last', last' \in Nat,
               UNCHANGED <<sources, anchor, resyncing>>
        PROVE  IInv' /\ result' >= floor[t]
    <3>1. TypeOK'
      BY <2>1, <2>3, <2>4 DEF TypeOK, Return, Keep, Go, Access, sources, anchor
    <3>2. WriterAlone' /\ Parity' /\ ReaderCurrent'
      BY <1>2, <2>4 DEF WriterAlone, Parity, ReaderCurrent, Return, Raise, At, Go, Keep, TypeOK, Local, Blank,
                        Writing, Replacing, anchor, sources
    <3>3. returned' \in Nat /\ returned <= returned' /\ returned' <= last'
      BY <2>1, <2>2, <2>4 DEF Return
    <3>4. ASSUME NEW u \in Thread
          PROVE  /\ floor'[u] <= returned'
                 /\ pc'[u] = "raise" => floor'[u] <= local'[u].previous /\ local'[u].previous <= last'
      <4>1. CASE u = t
        BY <2>4, <3>3, <4>1 DEF Return, Go, TypeOK
      <4>2. CASE u # t
        <5>1. pc'[u] = pc[u] /\ local'[u] = local[u] /\ floor'[u] = floor[u]
          BY <2>4, <4>2 DEF Return, Go, Keep, TypeOK
        <5>2. floor[u] \in Nat /\ local[u].previous \in Nat
          BY DEF TypeOK, Local
        <5> QED
          BY <2>1, <2>4, <3>3, <5>1, <5>2 DEF ValuesOrdered
      <4> QED
        BY <4>1, <4>2
    <3>5. ValuesOrdered'
      BY <3>3, <3>4 DEF ValuesOrdered
    <3>6. result' >= floor[t]
      BY <2>1, <2>4 DEF Return
    <3> QED
      BY <3>1, <3>2, <3>5, <3>6
  <2>5. CASE l.nanos <= l.previous /\ Return(t, l.previous) /\ UNCHANGED last
    BY <1>2, <2>1, <2>2, <2>4, <2>5 DEF Raise
  <2>6. CASE l.nanos > l.previous /\ last = l.previous /\ last' = l.nanos /\ Return(t, l.nanos)
    <3>1. floor[t] <= l.nanos /\ l.nanos <= last' /\ last <= last' /\ last' \in Nat
      BY <2>1, <2>2, <2>6
    <3>2. UNCHANGED <<sources, anchor, resyncing>>
      BY <1>2 DEF Raise
    <3> QED
      BY <2>1, <2>4, <2>6, <3>1, <3>2
  <2>7. CASE Keep(t, [l EXCEPT !.previous = last]) /\ UNCHANGED <<last, pc, history>>
    <3>1. [l EXCEPT !.previous = last] \in Local
      BY <2>1 DEF Local
    <3>2. UNCHANGED <<sources, anchor, resyncing>>
      BY <1>2 DEF Raise
    <3>3. TypeOK'
      BY <2>7, <3>1, <3>2 DEF TypeOK, Keep, sources, anchor, history
    <3>4. WriterAlone' /\ Parity' /\ ReaderCurrent'
      BY <1>2, <2>7, <3>2 DEF WriterAlone, Parity, ReaderCurrent, Raise, At, Keep, TypeOK, Local, anchor, sources
    <3>5. ValuesOrdered'
      BY <2>1, <2>2, <2>7 DEF ValuesOrdered, Keep, TypeOK, Local, history
    <3>6. pc'[t] = "raise"
      BY <1>2, <2>7 DEF Raise, At
    <3> QED
      BY <3>3, <3>4, <3>5, <3>6
  <2> QED
    BY <1>2, <2>5, <2>6, <2>7 DEF Raise
<1> QED
  BY <1>1, <1>2

-----------------------------------------------------------------------------

LEMMA StutterKeepsIInv == ASSUME IInv, UNCHANGED vars PROVE IInv'
  BY DEF IInv, TypeOK, WriterAlone, Parity, ReaderCurrent, ValuesOrdered, vars, sources, anchor, history

LEMMA NextKeepsIInv == IInv /\ [Next]_vars => IInv'
<1> SUFFICES ASSUME IInv, [Next]_vars PROVE IInv'
  OBVIOUS
<1>1. CASE Tick
  BY <1>1, TickKeepsIInv
<1>2. ASSUME NEW t \in Thread, Step(t) PROVE IInv'
  BY <1>2, CallKeepsIInv, LoopKeepsIInv, TestKeepsIInv, SourcesKeepIInv, StoresKeepIInv,
     ClearKeepsIInv, LastKeepsIInv DEF Step
<1>3. CASE UNCHANGED vars
  BY <1>3, StutterKeepsIInv
<1> QED
  BY <1>1, <1>2, <1>3 DEF Next

\* The invariant holds throughout: one writer, an odd sequence while it stores, readers
\* that notice, and `last` above everything returned.
THEOREM ClockInvariance == Spec => []IInv
  BY InitIInv, NextKeepsIInv, PTL DEF Spec

\* Every variable keeps its type, for any number of threads and any rate of the counter.
THEOREM TypeCorrect == Spec => []TypeOK
<1>1. IInv => TypeOK
  BY DEF IInv
<1> QED
  BY ClockInvariance, <1>1, PTL

\* The sequence lock: a reader leaves its loop only with the anchor in force, whole.
THEOREM AnchorSafe == Spec => AnchorWhole
<1>1. IInv /\ [Next]_vars =>
        [\A t \in Thread : (At(t, "check") /\ At(t, "resync")') =>
            /\ local[t].baseCounter = baseCounter /\ local[t].baseNanos = baseNanos
            /\ \A u \in Thread : ~At(u, "storeNanos") ]_vars
  <2> SUFFICES ASSUME IInv, Next, NEW t \in Thread, At(t, "check"), At(t, "resync")'
               PROVE  /\ local[t].baseCounter = baseCounter /\ local[t].baseNanos = baseNanos
                      /\ \A u \in Thread : ~At(u, "storeNanos")
    BY DEF vars
  <2>1. Whole(t)
    <3>1. CASE Tick
      BY <3>1 DEF Tick, At
    <3>2. ASSUME NEW u \in Thread, Step(u), u # t PROVE FALSE
      <4>1. pc \in [Thread -> Access]
        BY DEF IInv, TypeOK
      <4>2. pc'[t] = pc[t]
        BY <3>2, <4>1 DEF Step, Call, LoadSequence, LoadCounter, LoadNanos, Check, TestResync, ReadKernel,
             KernelFails, ReadAfter, StoreOdd, StoreCounter, StoreNanos, StoreEven, Clear, LoadLast, Raise, Return, Go
      <4> QED
        BY <4>2 DEF At
    <3>3. CASE Step(t)
      <4>1. Check(t)
        BY <3>3 DEF Step, Call, LoadSequence, LoadCounter, LoadNanos, TestResync, ReadKernel,
             KernelFails, ReadAfter, StoreOdd, StoreCounter, StoreNanos, StoreEven, Clear, LoadLast, Raise, At
      <4>2. pc'[t] # "sequence"
        BY DEF At
      <4> QED
        BY <4>1, <4>2 DEF Check, Go, IInv, TypeOK
    <3> QED
      BY <3>1, <3>2, <3>3 DEF Next
  <2>2. local[t].sequence = sequence /\ sequence % 2 = 0
    BY <2>1 DEF Whole
  <2>3. \A u \in Thread : pc[u] \notin Replacing
    BY <2>2 DEF IInv, Parity
  <2> QED
    BY <2>2, <2>3 DEF IInv, ReaderCurrent, At, Replacing
<1> QED
  BY ClockInvariance, <1>1, PTL DEF Spec, AnchorWhole

\* Time never goes back, within a thread or from one to another.
THEOREM MonotonicTime == Spec => NeverBackwards
<1>1. IInv /\ [Next]_vars =>
        [\A t \in Thread : (At(t, "raise") /\ At(t, "idle")') => result' >= floor[t]]_vars
  <2> SUFFICES ASSUME IInv, Next, NEW t \in Thread, At(t, "raise"), At(t, "idle")'
               PROVE  result' >= floor[t]
    BY DEF vars
  <2>1. CASE Tick
    BY <2>1 DEF Tick, At
  <2>2. ASSUME NEW u \in Thread, Step(u), u # t PROVE FALSE
    <3>1. pc \in [Thread -> Access]
      BY DEF IInv, TypeOK
    <3>2. pc'[t] = pc[t]
      BY <2>2, <3>1 DEF Step, Call, LoadSequence, LoadCounter, LoadNanos, Check, TestResync, ReadKernel,
           KernelFails, ReadAfter, StoreOdd, StoreCounter, StoreNanos, StoreEven, Clear, LoadLast, Raise, Return, Go
    <3> QED
      BY <3>2 DEF At
  <2>3. CASE Step(t)
    <3>1. Raise(t)
      BY <2>3 DEF Step, Call, LoadSequence, LoadCounter, LoadNanos, Check, TestResync, ReadKernel,
           KernelFails, ReadAfter, StoreOdd, StoreCounter, StoreNanos, StoreEven, Clear, LoadLast, At
    <3> QED
      BY <3>1, LastKeepsIInv DEF At
  <2> QED
    BY <2>1, <2>2, <2>3 DEF Next
<1> QED
  BY ClockInvariance, <1>1, PTL DEF Spec, NeverBackwards

-----------------------------------------------------------------------------
(* The lead over the kernel's clock.  Every anchor, and every one that is   *)
(* being made, pairs a time of the kernel with a counter value that is at   *)
(* most Slack ticks behind the reading of that time.                        *)

Slack == (MaxCall + 1) \div 2
Lead  == Scale(Slack) + 1 + 2 * Skew

InLoop == {"sequence", "baseCounter", "baseNanos", "check", "resync", "slow", "after"}
Storing == {"odd", "storeCounter", "storeNanos", "even"}
Valued  == {"resync", "clear", "last", "raise"}

Drift == kernel <= Scale(counter) + Skew /\ Scale(counter) <= kernel + Skew

\* A time of the past and the counter value it is paired with.
Behind(ticks, nanos) ==
    nanos <= kernel /\ ticks <= counter /\ nanos <= Scale(ticks + Slack) + Skew

ThreadBehind(t) ==
    /\ pc[t] \in InLoop => counter <= local[t].counter + MaxCall
    /\ pc[t] \in Valued => local[t].nanos <= kernel + Lead
    /\ pc[t] = "after" => local[t].baseNanos <= kernel /\ local[t].baseNanos <= Scale(counter) + Skew
    /\ pc[t] \in Storing => Behind(local[t].baseCounter, local[t].baseNanos) /\ local[t].after <= counter
    /\ pc[t] = "storeNanos" => baseCounter = local[t].baseCounter

AnchorBehind == (\A t \in Thread : pc[t] # "storeNanos") => Behind(baseCounter, baseNanos)

LeadInv == Drift /\ last <= kernel + Lead /\ AnchorBehind /\ \A t \in Thread : ThreadBehind(t)

LEMMA Quotient ==
  ASSUME NEW n \in Nat, NEW f \in Nat \ {0}
  PROVE  n \div f \in Nat /\ (n \div f) * f <= n /\ n < (n \div f) * f + f
  OBVIOUS

LEMMA Cancel ==
  ASSUME NEW a \in Nat, NEW b \in Nat, NEW f \in Nat \ {0}, a * f < b * f
  PROVE  a < b
  OBVIOUS

\* The quotients of two numbers make that of their sum, or one less.
LEMMA QuotientOfSum ==
  ASSUME NEW a \in Nat, NEW b \in Nat, NEW f \in Nat \ {0}
  PROVE  /\ (a \div f) + (b \div f) <= (a + b) \div f
         /\ (a + b) \div f <= (a \div f) + (b \div f) + 1
<1> DEFINE x == a \div f
           y == b \div f
           z == (a + b) \div f
<1>1. x \in Nat /\ x * f <= a /\ a < x * f + f
  BY Quotient
<1>2. y \in Nat /\ y * f <= b /\ b < y * f + f
  BY Quotient
<1>3. z \in Nat /\ z * f <= a + b /\ a + b < z * f + f
  BY Quotient
<1> HIDE DEF x, y, z
<1>4. /\ (x + y) * f = x * f + y * f /\ (z + 1) * f = z * f + f
      /\ (x + y + 2) * f = x * f + y * f + f + f
  BY <1>1, <1>2, <1>3
<1>5. (x + y) * f < (z + 1) * f /\ z * f < (x + y + 2) * f
  BY <1>1, <1>2, <1>3, <1>4
<1>6. x + y < z + 1 /\ z < x + y + 2
  BY <1>1, <1>2, <1>3, <1>5, Cancel
<1> QED
  BY <1>1, <1>2, <1>3, <1>6 DEF x, y, z

\* Rounding gains at most a nanosecond for the sum of two intervals.
LEMMA ScaleOfSum ==
  ASSUME NEW a \in Nat, NEW b \in Nat
  PROVE  /\ Scale(a) + Scale(b) <= Scale(a + b) /\ Scale(a + b) <= Scale(a) + Scale(b) + 1
         /\ Scale(a) \in Nat /\ Scale(b) \in Nat /\ Scale(a + b) \in Nat
<1>1. a * Second \in Nat /\ b * Second \in Nat /\ (a + b) * Second = a * Second + b * Second
  BY ClockAssumption
<1>2. Frequency \in Nat \ {0}
  BY ClockAssumption
<1>3. /\ Scale(a) + Scale(b) <= (a * Second + b * Second) \div Frequency
      /\ (a * Second + b * Second) \div Frequency <= Scale(a) + Scale(b) + 1
  BY <1>1, <1>2, QuotientOfSum DEF Scale
<1> QED
  BY <1>1, <1>3, ScaleType DEF Scale

LEMMA ScaleGrows ==
  ASSUME NEW a \in Nat, NEW b \in Nat, a <= b
  PROVE  Scale(a) <= Scale(b)
<1> DEFINE d == b - a
<1>1. d \in Nat /\ a + d = b
  OBVIOUS
<1> HIDE DEF d
<1>2. Scale(a) + Scale(d) <= Scale(a + d) /\ Scale(a) \in Nat /\ Scale(d) \in Nat /\ Scale(a + d) \in Nat
  BY <1>1, ScaleOfSum
<1> QED
  BY <1>1, <1>2

LEMMA LeadType == Slack \in Nat /\ Scale(Slack) \in Nat /\ Lead \in Nat /\ Skew \in Nat
<1>1. Slack \in Nat
  BY ClockAssumption DEF Slack
<1> QED
  BY <1>1, ScaleType, ClockAssumption DEF Lead

\* A value computed from an anchor leads by at most what the anchor lags.
LEMMA ValueBehind ==
  ASSUME IInv, Drift, NEW ticks \in Nat, NEW nanos \in Nat, NEW now \in Nat,
         Behind(ticks, nanos), now <= counter
  PROVE  nanos + Scale(Since(ticks, now)) <= kernel + Lead
<1>1. counter \in Nat /\ kernel \in Nat
  BY DEF IInv, TypeOK
<1>2. CASE now <= ticks
  <2>1. Since(ticks, now) = 0 /\ Scale(0) = 0
    BY <1>2, ClockAssumption, Quotient DEF Since, Scale
  <2> QED
    BY <1>1, <2>1, LeadType DEF Behind
<1>3. CASE ticks < now
  <2>1. Since(ticks, now) = now - ticks /\ now - ticks \in Nat
    BY <1>3 DEF Since
  <2>2. (ticks + Slack) + (now - ticks) = now + Slack /\ ticks + Slack \in Nat
    BY LeadType
  <2>3. Scale(ticks + Slack) + Scale(now - ticks) <= Scale(now + Slack)
        /\ Scale(ticks + Slack) \in Nat /\ Scale(now - ticks) \in Nat /\ Scale(now + Slack) \in Nat
    BY <2>1, <2>2, ScaleOfSum
  <2>4. Scale(now + Slack) <= Scale(now) + Scale(Slack) + 1 /\ Scale(now) \in Nat
    BY LeadType, ScaleOfSum
  <2>5. Scale(now) <= Scale(counter) /\ Scale(counter) \in Nat
    BY <1>1, ScaleGrows, ScaleType
  <2>6. nanos <= Scale(ticks + Slack) + Skew /\ Scale(counter) <= kernel + Skew
    BY DEF Behind, Drift
  <2>7. nanos + Scale(now - ticks) <= kernel + Scale(Slack) + 1 + 2 * Skew
    BY <1>1, <2>3, <2>4, <2>5, <2>6, LeadType
  <2> QED
    BY <2>1, <2>7, LeadType, <1>1 DEF Lead
<1> QED
  BY <1>2, <1>3

\* The middle of a call is at most Slack before its last reading.
LEMMA MiddleBehind ==
  ASSUME NEW a \in Nat, NEW b \in Nat, a <= b, b <= a + MaxCall
  PROVE  Middle(a, b) \in Nat /\ Middle(a, b) <= b /\ b <= Middle(a, b) + Slack
  BY ClockAssumption DEF Middle, Slack

LEMMA LeadInit == Init => LeadInv
<1> SUFFICES ASSUME Init PROVE LeadInv
  OBVIOUS
<1>1. Scale(0) = 0 /\ 0 <= Scale(0 + Slack) + Skew /\ Lead \in Nat /\ Skew \in Nat
  BY ScaleType, LeadType, ClockAssumption, Quotient DEF Scale
<1>2. Behind(baseCounter, baseNanos)
  BY <1>1 DEF Init, Behind
<1>3. \A t \in Thread : ThreadBehind(t)
  BY DEF Init, ThreadBehind, InLoop, Valued, Storing
<1> QED
  BY <1>1, <1>2, <1>3 DEF Init, LeadInv, Drift, AnchorBehind

LEMMA LaterBound ==
  ASSUME NEW v \in Nat, NEW from \in Nat, NEW to \in Nat, NEW lead \in Nat, from <= to, v <= from + lead
  PROVE  v <= to + lead
  OBVIOUS

\* Time passes in every clock, and no call takes longer than MaxCall.
LEMMA TickKeepsLead == ASSUME IInv, LeadInv, Tick PROVE LeadInv'
<1>1. /\ counter \in Nat /\ kernel \in Nat /\ counter' = counter + 1 /\ kernel' \in Nat /\ kernel <= kernel'
      /\ Scale(counter) \in Nat /\ Scale(counter + 1) \in Nat /\ last \in Nat /\ Skew \in Nat /\ Lead \in Nat
  BY ScaleType, LeadType DEF IInv, TypeOK, Tick
<1>2. Scale(counter) <= Scale(counter')
  BY <1>1, ScaleGrows
<1>3. Drift'
  BY <1>1 DEF Tick, Drift
<1>4. ASSUME NEW ticks \in Nat, NEW nanos \in Nat, Behind(ticks, nanos)
      PROVE  nanos <= kernel' /\ ticks <= counter' /\ nanos <= Scale(ticks + Slack) + Skew
  BY <1>1, <1>4 DEF Behind
<1>5. AnchorBehind'
  BY <1>4 DEF IInv, TypeOK, LeadInv, AnchorBehind, Behind, Tick, anchor
<1>6. ASSUME NEW t \in Thread PROVE ThreadBehind(t)'
  <2>1. local[t] \in Local /\ pc'[t] = pc[t] /\ local'[t] = local[t] /\ baseCounter' = baseCounter
    BY DEF IInv, TypeOK, Tick, anchor
  <2>2. local[t].counter \in Nat /\ local[t].nanos \in Nat /\ local[t].baseNanos \in Nat
        /\ local[t].baseCounter \in Nat /\ local[t].after \in Nat
    BY <2>1 DEF Local
  <2>3. pc[t] \in InLoop => counter' <= local[t].counter + MaxCall
    BY <1>1, <2>2, ClockAssumption DEF Tick, InLoop, IInv, TypeOK, Access
  <2>4. pc[t] = "after" => local[t].baseNanos <= kernel' /\ local[t].baseNanos <= Scale(counter') + Skew
    BY <1>1, <1>2, <2>2 DEF LeadInv, ThreadBehind
  <2>5. pc[t] \in Storing => Behind(local[t].baseCounter, local[t].baseNanos)' /\ local[t].after <= counter'
    BY <1>1, <1>4, <2>1, <2>2 DEF LeadInv, ThreadBehind, Behind
  <2> QED
    BY <1>1, <2>1, <2>2, <2>3, <2>4, <2>5 DEF LeadInv, ThreadBehind
<1>7. last' <= kernel' + Lead
  <2>1. last' = last
    BY DEF Tick
  <2>2. last <= kernel + Lead
    BY DEF LeadInv
  <2>3. last \in Nat /\ kernel \in Nat /\ kernel' \in Nat /\ Lead \in Nat /\ kernel <= kernel'
    BY <1>1
  <2>4. last <= kernel' + Lead
    BY ONLY <2>2, <2>3, LaterBound
  <2> QED
    BY <2>1, <2>4
<1> QED
  BY <1>3, <1>5, <1>6, <1>7 DEF LeadInv

\* What a step of one thread leaves alone in the others.
LEMMA OthersKeepLead ==
  ASSUME IInv, LeadInv, NEW t \in Thread, NEW u \in Thread, u # t, Step(t)
  PROVE  ThreadBehind(u)'
<1> USE DEF Step, Call, LoadSequence, LoadCounter, LoadNanos, Check, TestResync, ReadKernel,
            KernelFails, ReadAfter, StoreOdd, StoreCounter, StoreNanos, StoreEven, Clear, LoadLast, Raise
<1>1. pc \in [Thread -> Access] /\ local \in [Thread -> Local]
  BY DEF IInv, TypeOK
<1>2. pc'[u] = pc[u]
  BY <1>1 DEF Go, Return
<1>3. local'[u] = local[u]
  BY <1>1 DEF Keep, Return, ValueOnly
<1>4. counter' = counter /\ kernel' = kernel
  BY DEF sources
<1>5. baseCounter' = baseCounter \/ pc[t] = "storeCounter"
  BY DEF anchor, At
<1>6. pc[u] = "storeNanos" => pc[t] # "storeCounter"
  BY DEF IInv, WriterAlone, Writing
<1>7. ThreadBehind(u)
  BY DEF LeadInv
<1> HIDE DEF Step, Call, LoadSequence, LoadCounter, LoadNanos, Check, TestResync, ReadKernel,
             KernelFails, ReadAfter, StoreOdd, StoreCounter, StoreNanos, StoreEven, Clear, LoadLast, Raise
<1> QED
  BY <1>2, <1>3, <1>4, <1>5, <1>6, <1>7 DEF ThreadBehind, Behind

\* Reading the clock and the anchor; a value is computed from a whole anchor only.
LEMMA LoopKeepsLead ==
  ASSUME IInv, LeadInv, NEW t \in Thread,
         Call(t) \/ LoadSequence(t) \/ LoadCounter(t) \/ LoadNanos(t) \/ Check(t) \/ TestResync(t)
  PROVE  ThreadBehind(t)' /\ last' = last /\ AnchorBehind'
<1>1. /\ pc \in [Thread -> Access] /\ local \in [Thread -> Local] /\ counter \in Nat /\ kernel \in Nat
      /\ counter <= counter + MaxCall /\ ThreadBehind(t)
  BY ClockAssumption DEF IInv, TypeOK, LeadInv
<1>2. /\ counter' = counter /\ kernel' = kernel /\ last' = last
      /\ baseCounter' = baseCounter /\ baseNanos' = baseNanos
  BY DEF Call, LoadSequence, LoadCounter, LoadNanos, Check, TestResync, sources, anchor
<1>3. pc[t] # "storeNanos" /\ \A u \in Thread : pc'[u] = "storeNanos" <=> pc[u] = "storeNanos"
  BY <1>1 DEF Call, LoadSequence, LoadCounter, LoadNanos, Check, TestResync, Go, At
<1>4. AnchorBehind'
  BY <1>2, <1>3 DEF LeadInv, AnchorBehind, Behind
<1>5. CASE Call(t)
  BY <1>1, <1>2, <1>4, <1>5 DEF Call, At, Go, Keep, Blank, ThreadBehind, InLoop, Valued, Storing
<1>6. CASE LoadSequence(t) \/ LoadCounter(t) \/ LoadNanos(t)
  BY <1>1, <1>2, <1>4, <1>6 DEF LoadSequence, LoadCounter, LoadNanos, At, Go, Keep, Local, ThreadBehind, InLoop, Valued, Storing
<1>7. CASE Check(t)
  <2>1. CASE ~Whole(t)
    BY <1>1, <1>2, <1>4, <1>7, <2>1 DEF Check, At, Go, ThreadBehind, InLoop, Valued, Storing
  <2>2. CASE Whole(t)
    <3>1. local[t].baseCounter = baseCounter /\ local[t].baseNanos = baseNanos /\ local[t].counter <= counter
      BY <1>7, <2>2 DEF IInv, ReaderCurrent, Whole, Check, At
    <3>2. \A u \in Thread : pc[u] # "storeNanos"
      BY <2>2 DEF IInv, Parity, Whole, Replacing
    <3>3. Behind(baseCounter, baseNanos) /\ Drift
      BY <3>2 DEF LeadInv, AnchorBehind
    <3>4. baseCounter \in Nat /\ baseNanos \in Nat /\ local[t].counter \in Nat
      BY <1>1 DEF IInv, TypeOK, Local
    <3>5. baseNanos + Scale(Since(baseCounter, local[t].counter)) <= kernel + Lead
      BY <3>1, <3>3, <3>4, ValueBehind
    <3> DEFINE value == local[t].baseNanos + Scale(Elapsed(t))
    <3>6. value <= kernel + Lead
      BY <3>1, <3>5 DEF Elapsed
    <3> HIDE DEF value
    <3>7. local'[t] = [local[t] EXCEPT !.nanos = value] /\ pc'[t] = "resync"
      BY <1>1, <1>7, <2>2 DEF Check, Go, Keep, value
    <3>8. local'[t].nanos = value /\ local'[t].counter = local[t].counter
      BY <1>1, <3>7 DEF Local
    <3>9. counter <= local[t].counter + MaxCall
      BY <1>1, <1>7 DEF ThreadBehind, InLoop, Check, At
    <3> QED
      BY <1>2, <1>4, <3>6, <3>7, <3>8, <3>9 DEF ThreadBehind, InLoop, Valued, Storing
  <2> QED
    BY <2>1, <2>2
<1>8. CASE TestResync(t)
  BY <1>1, <1>2, <1>4, <1>8 DEF TestResync, ValueOnly, At, Go, Keep, Blank, Local, ThreadBehind, InLoop, Valued, Storing
<1> QED
  BY <1>2, <1>4, <1>5, <1>6, <1>7, <1>8

\* The kernel's time is read between the two readings of the counter.
LEMMA SourcesKeepLead ==
  ASSUME IInv, LeadInv, NEW t \in Thread, ReadKernel(t) \/ KernelFails(t) \/ ReadAfter(t)
  PROVE  ThreadBehind(t)' /\ last' = last /\ AnchorBehind'
<1>1. /\ pc \in [Thread -> Access] /\ local \in [Thread -> Local] /\ counter \in Nat /\ kernel \in Nat
      /\ ThreadBehind(t)
  BY DEF IInv, TypeOK, LeadInv
<1>2. /\ counter' = counter /\ kernel' = kernel /\ last' = last
      /\ baseCounter' = baseCounter /\ baseNanos' = baseNanos
  BY DEF ReadKernel, KernelFails, ReadAfter, sources, anchor
<1>3. \A u \in Thread : pc'[u] = "storeNanos" <=> pc[u] = "storeNanos"
  BY <1>1 DEF ReadKernel, KernelFails, ReadAfter, Go, At
<1>4. AnchorBehind'
  BY <1>2, <1>3 DEF LeadInv, AnchorBehind, Behind
<1>5. local[t].counter \in Nat /\ local[t].baseNanos \in Nat /\ local[t].counter <= counter
  BY <1>1 DEF Local, IInv, ReaderCurrent
<1>6. CASE ReadKernel(t) \/ KernelFails(t)
  <2>1. 0 <= kernel /\ 0 <= Scale(counter) + Skew /\ kernel <= Scale(counter) + Skew
    BY <1>1, ScaleType, LeadType DEF LeadInv, Drift
  <2>2. PICK time \in {0, kernel} : local' = [local EXCEPT ![t] = [local[t] EXCEPT !.baseNanos = time]]
    BY <1>6 DEF ReadKernel, KernelFails, Keep, Base
  <2>3. local'[t].baseNanos \in {0, kernel} /\ local'[t].counter = local[t].counter /\ pc[t] = "slow" /\ pc'[t] = "after"
    BY <1>1, <1>6, <2>2 DEF ReadKernel, KernelFails, Go, At, Local
  <2> QED
    BY <1>1, <1>2, <1>4, <2>1, <2>3 DEF ThreadBehind, InLoop, Valued, Storing
<1>7. CASE ReadAfter(t)
  <2> DEFINE middle == Middle(local[t].counter, counter)
  <2>1. pc[t] = "after" /\ pc'[t] = "odd" /\ counter <= local[t].counter + MaxCall
    BY <1>1, <1>7 DEF ReadAfter, At, Go, ThreadBehind, InLoop
  <2>2. middle \in Nat /\ middle <= counter /\ counter <= middle + Slack
    BY <1>1, <1>5, <2>1, MiddleBehind
  <2>3. local'[t] = [local[t] EXCEPT !.after = counter, !.baseCounter = middle]
    BY <1>1, <1>7 DEF ReadAfter, Keep
  <2> HIDE DEF middle
  <2>4. local'[t].after = counter /\ local'[t].baseCounter = middle /\ local'[t].baseNanos = local[t].baseNanos
    BY <1>1, <2>3 DEF Local
  <2>5. Scale(counter) <= Scale(middle + Slack) /\ Scale(counter) \in Nat /\ Scale(middle + Slack) \in Nat
    BY <1>1, <2>2, LeadType, ScaleGrows, ScaleType
  <2>6. local[t].baseNanos <= kernel /\ local[t].baseNanos <= Scale(counter) + Skew
    BY <1>1, <2>1 DEF ThreadBehind
  <2>7. Behind(middle, local[t].baseNanos)
    BY <1>5, <2>2, <2>5, <2>6, LeadType DEF Behind
  <2>8. Behind(local[t].baseCounter, local[t].baseNanos)'
    BY <1>2, <2>4, <2>7 DEF Behind
  <2> QED
    BY <1>1, <1>2, <1>4, <2>1, <2>4, <2>8 DEF ThreadBehind, InLoop, Valued, Storing
<1> QED
  BY <1>6, <1>7

\* The anchor is stored in parts; it is whole again when the time is stored.
LEMMA StoresKeepLead ==
  ASSUME IInv, LeadInv, NEW t \in Thread,
         StoreOdd(t) \/ StoreCounter(t) \/ StoreNanos(t) \/ StoreEven(t) \/ Clear(t)
  PROVE  ThreadBehind(t)' /\ last' = last /\ AnchorBehind'
<1>1. /\ pc \in [Thread -> Access] /\ local \in [Thread -> Local] /\ counter \in Nat /\ kernel \in Nat
      /\ ThreadBehind(t) /\ local[t] \in Local
  BY DEF IInv, TypeOK, LeadInv
<1>2. counter' = counter /\ kernel' = kernel /\ last' = last
  BY DEF StoreOdd, StoreCounter, StoreNanos, StoreEven, Clear, sources
<1>3. \A u \in Thread : u # t => pc[u] # "storeNanos" /\ pc'[u] = pc[u]
  BY <1>1 DEF IInv, WriterAlone, Writing, StoreOdd, StoreCounter, StoreNanos, StoreEven, Clear, Go, At
<1>4. CASE StoreOdd(t)
  <2>1. pc[t] = "odd" /\ pc'[t] = "storeCounter" /\ UNCHANGED <<baseCounter, baseNanos, local>>
    BY <1>1, <1>4 DEF StoreOdd, At, Go
  <2>2. AnchorBehind'
    BY <1>2, <1>3, <2>1 DEF LeadInv, AnchorBehind, Behind
  <2> QED
    BY <1>1, <1>2, <2>1, <2>2 DEF ThreadBehind, Behind, InLoop, Valued, Storing
<1>5. CASE StoreCounter(t)
  <2>1. /\ pc[t] = "storeCounter" /\ pc'[t] = "storeNanos" /\ UNCHANGED <<baseNanos, local>>
        /\ baseCounter' = local[t].baseCounter
    BY <1>1, <1>5 DEF StoreCounter, At, Go
  <2>2. AnchorBehind'
    BY <2>1 DEF AnchorBehind
  <2> QED
    BY <1>1, <1>2, <2>1, <2>2 DEF ThreadBehind, Behind, InLoop, Valued, Storing
<1>6. CASE StoreNanos(t)
  <2>1. /\ pc[t] = "storeNanos" /\ pc'[t] = "even" /\ UNCHANGED <<baseCounter, local>>
        /\ baseNanos' = local[t].baseNanos
    BY <1>1, <1>6 DEF StoreNanos, At, Go
  <2>2. Behind(local[t].baseCounter, local[t].baseNanos) /\ baseCounter = local[t].baseCounter
    BY <1>1, <2>1 DEF ThreadBehind, Storing
  <2>3. AnchorBehind'
    BY <1>2, <2>1, <2>2 DEF AnchorBehind, Behind
  <2> QED
    BY <1>1, <1>2, <2>1, <2>3 DEF ThreadBehind, Behind, InLoop, Valued, Storing
<1>7. CASE StoreEven(t)
  <2> DEFINE value == local[t].baseNanos + Scale(Since(local[t].baseCounter, local[t].after))
  <2>1. pc[t] = "even" /\ pc'[t] = "clear" /\ UNCHANGED <<baseCounter, baseNanos>>
    BY <1>1, <1>7 DEF StoreEven, At, Go
  <2>2. Behind(local[t].baseCounter, local[t].baseNanos) /\ local[t].after <= counter
    BY <1>1, <2>1 DEF ThreadBehind, Storing
  <2>3. local[t].baseCounter \in Nat /\ local[t].baseNanos \in Nat /\ local[t].after \in Nat /\ Drift
    BY <1>1 DEF Local, LeadInv
  <2>4. value <= kernel + Lead
    BY <2>2, <2>3, ValueBehind
  <2> HIDE DEF value
  <2>5. local'[t] = [local[t] EXCEPT !.nanos = value]
    BY <1>1, <1>7 DEF StoreEven, Keep, value
  <2>6. local'[t].nanos = value
    BY <1>1, <2>5 DEF Local
  <2>7. AnchorBehind'
    BY <1>2, <1>3, <2>1 DEF LeadInv, AnchorBehind, Behind
  <2> QED
    BY <1>2, <2>1, <2>4, <2>6, <2>7 DEF ThreadBehind, InLoop, Valued, Storing
<1>8. CASE Clear(t)
  <2>1. /\ pc[t] = "clear" /\ pc'[t] = "last" /\ UNCHANGED <<baseCounter, baseNanos>>
        /\ local'[t].nanos = local[t].nanos
    BY <1>1, <1>8 DEF Clear, ValueOnly, Keep, At, Go, Local, Blank, anchor
  <2>2. AnchorBehind'
    BY <1>2, <1>3, <2>1 DEF LeadInv, AnchorBehind, Behind
  <2> QED
    BY <1>1, <1>2, <2>1, <2>2 DEF ThreadBehind, InLoop, Valued, Storing
<1> QED
  BY <1>4, <1>5, <1>6, <1>7, <1>8

\* `last` becomes a value of a call, or stays.
LEMMA LastKeepsLead ==
  ASSUME IInv, LeadInv, NEW t \in Thread, LoadLast(t) \/ Raise(t)
  PROVE  ThreadBehind(t)' /\ last' <= kernel' + Lead /\ AnchorBehind'
<1>1. /\ pc \in [Thread -> Access] /\ local \in [Thread -> Local]
      /\ ThreadBehind(t) /\ last <= kernel + Lead /\ local[t] \in Local
  BY DEF IInv, TypeOK, LeadInv
<1>2. UNCHANGED <<counter, kernel, baseCounter, baseNanos>>
  BY DEF LoadLast, Raise, sources, anchor
<1>3. \A u \in Thread : pc'[u] = "storeNanos" <=> pc[u] = "storeNanos"
  BY <1>1 DEF LoadLast, Raise, Return, Go, At
<1>4. AnchorBehind'
  BY <1>2, <1>3 DEF LeadInv, AnchorBehind, Behind
<1>5. CASE LoadLast(t)
  <2>1. /\ pc[t] = "last" /\ pc'[t] = "raise" /\ last' = last /\ local'[t].nanos = local[t].nanos
    BY <1>1, <1>5 DEF LoadLast, Keep, At, Go, Local
  <2> QED
    BY <1>1, <1>2, <1>4, <2>1 DEF ThreadBehind, InLoop, Valued, Storing
<1>6. CASE Raise(t)
  <2>1. pc[t] = "raise" /\ local[t].nanos <= kernel + Lead
    BY <1>1, <1>6 DEF Raise, At, ThreadBehind, Valued
  <2>2. \/ pc'[t] = "idle" /\ last' \in {last, local[t].nanos}
        \/ pc'[t] = "raise" /\ last' = last /\ local'[t].nanos = local[t].nanos
    BY <1>1, <1>6, <2>1 DEF Raise, Return, Go, Keep, Local
  <2> QED
    BY <1>1, <1>2, <1>4, <2>1, <2>2 DEF ThreadBehind, InLoop, Valued, Storing
<1> QED
  BY <1>5, <1>6

LEMMA NextKeepsLead == IInv /\ LeadInv /\ [Next]_vars => LeadInv'
<1> SUFFICES ASSUME IInv, LeadInv, [Next]_vars PROVE LeadInv'
  OBVIOUS
<1>1. CASE Tick
  BY <1>1, TickKeepsLead
<1>2. CASE UNCHANGED vars
  BY <1>2 DEF vars, sources, anchor, history, LeadInv, Drift, AnchorBehind, ThreadBehind, Behind
<1>3. ASSUME NEW t \in Thread, Step(t) PROVE LeadInv'
  <2>1. counter' = counter /\ kernel' = kernel
    BY <1>3 DEF Step, Call, LoadSequence, LoadCounter, LoadNanos, Check, TestResync, ReadKernel,
         KernelFails, ReadAfter, StoreOdd, StoreCounter, StoreNanos, StoreEven, Clear, LoadLast, Raise, sources
  <2>2. Drift'
    BY <2>1 DEF LeadInv, Drift
  <2>3. ThreadBehind(t)' /\ last' <= kernel' + Lead /\ AnchorBehind'
    BY <1>3, <2>1, LoopKeepsLead, SourcesKeepLead, StoresKeepLead, LastKeepsLead DEF Step, LeadInv
  <2>4. \A u \in Thread : ThreadBehind(u)'
    BY <1>3, <2>3, OthersKeepLead
  <2> QED
    BY <2>2, <2>3, <2>4 DEF LeadInv
<1> QED
  BY <1>1, <1>2, <1>3 DEF Next

\* Anchors, those being made included, stay within Slack ticks of the kernel's time.
THEOREM AnchorsBehind == Spec => []LeadInv
  BY LeadInit, NextKeepsLead, ClockInvariance, PTL DEF Spec

\* However often threads re-anchor and however they are preempted, the time that
\* now_nanos() has returned leads the kernel's by a bound that does not grow.
THEOREM LeadStays == Spec => []LeadBounded
<1>1. IInv /\ LeadInv => LeadBounded
  <2> SUFFICES ASSUME IInv, LeadInv PROVE LeadBounded
    OBVIOUS
  <2>1. returned <= last /\ last <= kernel + Lead /\ returned \in Nat /\ last \in Nat /\ kernel \in Nat
    BY DEF IInv, TypeOK, ValuesOrdered, LeadInv
  <2> QED
    BY <2>1, LeadType DEF LeadBounded, Lead, Slack
<1> QED
  BY <1>1, ClockInvariance, AnchorsBehind, PTL

-----------------------------------------------------------------------------
(* The log.  LinesKept is about the order of three parts of the bytes that  *)
(* are kept: what reached the file, what the writer has still to write and  *)
(* what is queued.  LogInv adds that the batch is empty when the buffers    *)
(* are swapped and that lines are numbered as they are pushed.              *)

Byte == Nat \X Nat

LogTypeOK ==
    /\ queued \in Seq(Byte) /\ writing \in Seq(Byte) /\ file \in Seq(Byte)
    /\ dropped \in Nat /\ lines \in Nat
    /\ done \in Nat /\ (writer = "write" => done <= Len(writing))
    /\ writer \in {"check", "asleep", "delay", "write", "report"}
    /\ accepted \subseteq Byte

\* The batch is empty whenever the buffers may be swapped.
BatchEmpty == writer \in {"check", "asleep", "delay"} => writing = <<>>

\* Lines are numbered as they are pushed.
LinesNumbered ==
    /\ \A b \in accepted : b[1] <= lines
    /\ IsFiniteSet(LinesOf(accepted))

\* What was given up was taken before.
LostTaken == lost \subseteq accepted

LogInv == LogTypeOK /\ BatchEmpty /\ LinesNumbered /\ LostTaken /\ LinesKept

-----------------------------------------------------------------------------
(* Bytes one after another.                                                 *)

LEMMA RangeIsSet ==
  ASSUME NEW s \in Seq(Byte)
  PROVE  ToSet(s) = {s[i] : i \in 1..Len(s)} /\ ToSet(s) \subseteq Byte
  BY LenProperties DEF ToSet

\* Where the elements of a concatenation come from.
LEMMA ConcatElements ==
  ASSUME NEW s \in Seq(Byte), NEW t \in Seq(Byte)
  PROVE  /\ s \o t \in Seq(Byte) /\ Len(s \o t) = Len(s) + Len(t)
         /\ Len(s) \in Nat /\ Len(t) \in Nat
         /\ \A i \in 1..Len(s) : i \in 1..(Len(s) + Len(t)) /\ (s \o t)[i] = s[i]
         /\ \A i \in 1..Len(t) : i + Len(s) \in 1..(Len(s) + Len(t)) /\ (s \o t)[i + Len(s)] = t[i]
         /\ \A i \in 1..(Len(s) + Len(t)) : i \in 1..Len(s) \/ (i - Len(s) \in 1..Len(t) /\ i = (i - Len(s)) + Len(s))
<1>1. s \o t \in Seq(Byte) /\ Len(s \o t) = Len(s) + Len(t)
  BY ConcatProperties
<1>2. Len(s) \in Nat /\ Len(t) \in Nat
  BY LenProperties
<1>3. \A i \in 1 .. Len(s) + Len(t) : (s \o t)[i] = IF i <= Len(s) THEN s[i] ELSE t[i - Len(s)]
  BY ConcatProperties
<1>4. ASSUME NEW i \in 1..Len(s) PROVE i \in 1..(Len(s) + Len(t)) /\ (s \o t)[i] = s[i]
  <2>1. i \in 1..(Len(s) + Len(t)) /\ i <= Len(s)
    BY <1>2
  <2> QED
    BY <1>3, <2>1
<1>5. ASSUME NEW i \in 1..Len(t) PROVE i + Len(s) \in 1..(Len(s) + Len(t)) /\ (s \o t)[i + Len(s)] = t[i]
  <2>1. i + Len(s) \in 1..(Len(s) + Len(t)) /\ ~(i + Len(s) <= Len(s)) /\ (i + Len(s)) - Len(s) = i
    BY <1>2
  <2> QED
    BY <1>3, <2>1
<1>6. ASSUME NEW i \in 1..(Len(s) + Len(t))
      PROVE  i \in 1..Len(s) \/ (i - Len(s) \in 1..Len(t) /\ i = (i - Len(s)) + Len(s))
  BY <1>2
<1> QED
  BY <1>1, <1>2, <1>4, <1>5, <1>6

LEMMA RangeOfConcat ==
  ASSUME NEW s \in Seq(Byte), NEW t \in Seq(Byte)
  PROVE  ToSet(s \o t) = ToSet(s) \cup ToSet(t)
<1>1. ToSet(s \o t) = {(s \o t)[i] : i \in 1..(Len(s) + Len(t))}
  <2>1. s \o t \in Seq(Byte) /\ Len(s \o t) = Len(s) + Len(t)
    BY ConcatElements
  <2>2. ToSet(s \o t) = {(s \o t)[i] : i \in 1..Len(s \o t)}
    BY <2>1, RangeIsSet
  <2> QED
    BY <2>1, <2>2
<1>2. ToSet(s) = {s[i] : i \in 1..Len(s)} /\ ToSet(t) = {t[i] : i \in 1..Len(t)}
  BY RangeIsSet
<1>3. ASSUME NEW i \in 1..(Len(s) + Len(t)) PROVE (s \o t)[i] \in ToSet(s) \cup ToSet(t)
  <2>1. CASE i \in 1..Len(s)
    BY <1>2, <2>1, ConcatElements
  <2>2. CASE i - Len(s) \in 1..Len(t) /\ i = (i - Len(s)) + Len(s)
    <3>1. (s \o t)[(i - Len(s)) + Len(s)] = t[i - Len(s)]
      BY <2>2, ConcatElements
    <3> QED
      BY <1>2, <2>2, <3>1
  <2> QED
    BY <2>1, <2>2, ConcatElements
<1>4. ASSUME NEW i \in 1..Len(s) PROVE s[i] \in ToSet(s \o t)
  <2>1. i \in 1..(Len(s) + Len(t)) /\ (s \o t)[i] = s[i]
    BY ConcatElements
  <2> QED
    BY <1>1, <2>1
<1>5. ASSUME NEW i \in 1..Len(t) PROVE t[i] \in ToSet(s \o t)
  <2>1. i + Len(s) \in 1..(Len(s) + Len(t)) /\ (s \o t)[i + Len(s)] = t[i]
    BY ConcatElements
  <2> QED
    BY <1>1, <2>1
<1> QED
  BY <1>1, <1>2, <1>3, <1>4, <1>5

\* What comes after the parts that are in order is after each of them.
LEMMA OrderOfConcat ==
  ASSUME NEW s \in Seq(Byte), NEW t \in Seq(Byte)
  PROVE  InOrder(s \o t) <=> /\ InOrder(s) /\ InOrder(t)
                             /\ \A b \in ToSet(s), c \in ToSet(t) : Before(b, c)
<1> DEFINE n == Len(s)
           m == Len(t)
           st == s \o t
<1>1. DOMAIN s = 1..n /\ DOMAIN t = 1..m /\ DOMAIN st = 1..(n + m) /\ n \in Nat /\ m \in Nat
  BY ConcatElements, LenProperties
<1>2. /\ \A i \in 1..n : i \in 1..(n + m) /\ st[i] = s[i]
      /\ \A i \in 1..m : i + n \in 1..(n + m) /\ st[i + n] = t[i]
      /\ \A i \in 1..(n + m) : i \in 1..n \/ (i - n \in 1..m /\ i = (i - n) + n)
  BY ConcatElements
<1>3. ToSet(s) = {s[i] : i \in 1..n} /\ ToSet(t) = {t[i] : i \in 1..m}
  BY RangeIsSet
<1> HIDE DEF n, m, st
<1>4. ASSUME InOrder(st) PROVE InOrder(s)
  BY <1>1, <1>2, <1>4 DEF InOrder
<1>5. ASSUME InOrder(st) PROVE InOrder(t)
  <2> SUFFICES ASSUME NEW j \in 1..m, NEW k \in 1..m, j < k PROVE Before(t[j], t[k])
    BY <1>1 DEF InOrder
  <2>1. j + n < k + n
    BY <1>1
  <2>2. j + n \in 1..(n + m) /\ k + n \in 1..(n + m) /\ st[j + n] = t[j] /\ st[k + n] = t[k]
    BY <1>2
  <2>3. Before(st[j + n], st[k + n])
    BY <1>1, <1>5, <2>1, <2>2 DEF InOrder
  <2> QED
    BY <2>2, <2>3
<1>6. ASSUME InOrder(st), NEW j \in 1..n, NEW k \in 1..m PROVE Before(s[j], t[k])
  <2>1. j < k + n
    BY <1>1
  <2>2. j \in 1..(n + m) /\ k + n \in 1..(n + m) /\ st[j] = s[j] /\ st[k + n] = t[k]
    BY <1>2
  <2>3. Before(st[j], st[k + n])
    BY <1>1, <1>6, <2>1, <2>2 DEF InOrder
  <2> QED
    BY <2>2, <2>3
<1>7. ASSUME InOrder(s), InOrder(t), \A j \in 1..n, k \in 1..m : Before(s[j], t[k])
      PROVE  InOrder(st)
  <2> SUFFICES ASSUME NEW j \in 1..(n + m), NEW k \in 1..(n + m), j < k
               PROVE  Before(st[j], st[k])
    BY <1>1 DEF InOrder
  <2>1. CASE j \in 1..n /\ k \in 1..n
    BY <1>1, <1>2, <1>7, <2>1 DEF InOrder
  <2>2. CASE j \in 1..n /\ k - n \in 1..m /\ k = (k - n) + n
    <3>1. st[k] = t[k - n] /\ st[j] = s[j]
      BY <1>2, <2>2
    <3> QED
      BY <1>7, <2>2, <3>1
  <2>3. CASE j - n \in 1..m /\ k - n \in 1..m /\ k = (k - n) + n /\ j = (j - n) + n
    <3>1. st[k] = t[k - n] /\ st[j] = t[j - n]
      BY <1>2, <2>3
    <3>2. j - n < k - n
      BY <1>1
    <3> QED
      BY <1>1, <1>7, <2>3, <3>1, <3>2 DEF InOrder
  <2>4. CASE j - n \in 1..m /\ k \in 1..n
    BY <1>1, <2>4
  <2> QED
    BY <1>2, <2>1, <2>2, <2>3, <2>4
<1>8. (\A b \in ToSet(s), c \in ToSet(t) : Before(b, c)) <=> \A j \in 1..n, k \in 1..m : Before(s[j], t[k])
  BY <1>3
<1> QED
  BY <1>4, <1>5, <1>6, <1>7, <1>8 DEF st

\* Every byte of t comes after those of s.
Follow(s, t) == \A b \in ToSet(s), c \in ToSet(t) : Before(b, c)

LEMMA OrderOfParts ==
  ASSUME NEW f \in Seq(Byte), NEW u \in Seq(Byte), NEW q \in Seq(Byte)
  PROVE  /\ f \o u \o q \in Seq(Byte)
         /\ ToSet(f \o u \o q) = ToSet(f) \cup ToSet(u) \cup ToSet(q)
         /\ InOrder(f \o u \o q) <=>
               InOrder(f) /\ InOrder(u) /\ InOrder(q) /\ Follow(f, u) /\ Follow(f, q) /\ Follow(u, q)
<1>1. f \o u \in Seq(Byte) /\ f \o u \o q \in Seq(Byte)
  BY ConcatProperties
<1>2. ToSet(f \o u) = ToSet(f) \cup ToSet(u) /\ ToSet(f \o u \o q) = ToSet(f \o u) \cup ToSet(q)
  BY <1>1, RangeOfConcat
<1>3. InOrder(f \o u) <=> InOrder(f) /\ InOrder(u) /\ Follow(f, u)
  BY OrderOfConcat DEF Follow
<1>4. InOrder(f \o u \o q) <=> InOrder(f \o u) /\ InOrder(q) /\ Follow(f \o u, q)
  BY <1>1, OrderOfConcat DEF Follow
<1>5. Follow(f \o u, q) <=> Follow(f, q) /\ Follow(u, q)
  BY <1>2 DEF Follow
<1> QED
  BY <1>1, <1>2, <1>3, <1>4, <1>5

LEMMA EmptyPart ==
  /\ <<>> \in Seq(Byte) /\ ToSet(<<>>) = {} /\ InOrder(<<>>)
  /\ \A s : Follow(s, <<>>) /\ Follow(<<>>, s)
<1>1. <<>> \in Seq(Byte) /\ Len(<<>>) = 0 /\ DOMAIN <<>> = {}
  BY EmptySeq
<1>2. ToSet(<<>>) = {}
  BY <1>1 DEF ToSet
<1> QED
  BY <1>1, <1>2 DEF InOrder, Follow

LEMMA UnwrittenType ==
  ASSUME LogTypeOK
  PROVE  Unwritten \in Seq(Byte) /\ Len(Unwritten) \in Nat
<1>1. writing \in Seq(Byte) /\ Len(writing) \in Nat /\ DOMAIN writing = 1..Len(writing) /\ done \in Nat
  BY LenProperties DEF LogTypeOK
<1>2. \A i \in (done + 1)..Len(writing) : writing[i] \in Byte
  BY <1>1, ElementOfSeq
<1>3. SubSeq(writing, done + 1, Len(writing)) \in Seq(Byte)
  BY <1>1, <1>2, SubSeqProperties
<1> QED
  BY <1>3, EmptyPart, LenProperties DEF Unwritten

-----------------------------------------------------------------------------
(* The steps of the log.                                                    *)

\* A line goes after all that was accepted, or is counted.
LEMMA PushKeeps ==
  ASSUME LogInv, NEW size \in LineSizes, Push(size)
  PROVE  /\ queued' \in Seq(Byte) /\ accepted' \subseteq Byte /\ dropped' \in Nat /\ lines' \in Nat
         /\ LinesNumbered' /\ lost \subseteq accepted'
         /\ lines' = dropped' + Cardinality(LinesOf(accepted'))
         /\ InOrder(file \o Unwritten \o queued')
         /\ ToSet(file \o Unwritten \o queued') = accepted' \ lost
<1> DEFINE bytes == [k \in 1..size |-> <<lines + 1, k>>]
           numbers == LinesOf(accepted)
<1>1. size \in Nat \ {0} /\ lines \in Nat /\ dropped \in Nat /\ lines' = lines + 1
      /\ queued \in Seq(Byte) /\ file \in Seq(Byte) /\ accepted \subseteq Byte /\ lost \subseteq accepted
  BY LogAssumption DEF LogInv, LogTypeOK, LostTaken, Push
<1>2. \A b \in accepted : b[1] \in Nat /\ b[1] <= lines
  BY <1>1 DEF LogInv, LinesNumbered, Byte
<1>3. IsFiniteSet(numbers) /\ lines = dropped + Cardinality(numbers) /\ Cardinality(numbers) \in Nat
  BY FS_CardinalityType DEF LogInv, LinesNumbered, LinesKept
<1>4. Unwritten \in Seq(Byte)
  BY UnwrittenType DEF LogInv
<1>5. InOrder(file \o Unwritten \o queued) /\ ToSet(file \o Unwritten \o queued) = accepted \ lost
  BY DEF LogInv, LinesKept, Kept
<1>8. /\ ToSet(file \o Unwritten \o queued) = ToSet(file) \cup ToSet(Unwritten) \cup ToSet(queued)
      /\ InOrder(file) /\ InOrder(Unwritten) /\ InOrder(queued)
      /\ Follow(file, Unwritten) /\ Follow(file, queued) /\ Follow(Unwritten, queued)
  BY <1>1, <1>4, <1>5, OrderOfParts
<1>9. \A b \in ToSet(file) \cup ToSet(Unwritten) \cup ToSet(queued) : b \in accepted
  BY <1>5, <1>8
<1> HIDE DEF numbers, bytes
<1>6. CASE ~Fits(size)
  <2>1. queued' = queued /\ accepted' = accepted /\ dropped' = dropped + 1
    BY <1>6 DEF Push
  <2>2. LinesOf(accepted') = numbers
    BY <2>1 DEF numbers
  <2>3. \A b \in accepted' : b[1] <= lines'
    BY <1>1, <1>2, <2>1
  <2> QED
    BY <1>1, <1>3, <1>5, <2>1, <2>2, <2>3 DEF LinesNumbered
<1>7. CASE Fits(size)
  <2>1. queued' = queued \o bytes /\ accepted' = accepted \cup ToSet(bytes) /\ dropped' = dropped
    BY <1>7 DEF Push, bytes
  <2>2. bytes \in Seq(Byte) /\ Len(bytes) = size /\ DOMAIN bytes = 1..size
    BY <1>1, IsASeq DEF Byte, bytes
  <2>3. ToSet(bytes) = {<<lines + 1, k>> : k \in 1..size}
    BY <2>2 DEF ToSet, bytes
  <2>4. InOrder(bytes)
    BY <1>1, <2>2 DEF InOrder, Before, bytes
  <2>5. \A b \in accepted, c \in ToSet(bytes) : Before(b, c) /\ b # c
    BY <1>1, <1>2, <2>3 DEF Before
  <2>6. Follow(file, bytes) /\ Follow(Unwritten, bytes) /\ Follow(queued, bytes)
    BY <1>9, <2>5 DEF Follow
  <2>7. queued' \in Seq(Byte) /\ ToSet(queued') = ToSet(queued) \cup ToSet(bytes)
    BY <1>1, <2>1, <2>2, ConcatProperties, RangeOfConcat
  <2>8. InOrder(queued') /\ Follow(file, queued') /\ Follow(Unwritten, queued')
    <3>1. InOrder(queued')
      BY <1>1, <1>8, <2>1, <2>2, <2>4, <2>6, OrderOfConcat DEF Follow
    <3> QED
      BY <1>8, <2>6, <2>7, <3>1 DEF Follow
  <2>9. InOrder(file \o Unwritten \o queued')
    BY <1>1, <1>4, <1>8, <2>7, <2>8, OrderOfParts
  <2>10. ToSet(file \o Unwritten \o queued') = accepted' \ lost
    <3>1. ToSet(file \o Unwritten \o queued') = ToSet(file \o Unwritten \o queued) \cup ToSet(bytes)
      <4>1. ToSet(file \o Unwritten \o queued') = ToSet(file) \cup ToSet(Unwritten) \cup ToSet(queued')
        BY <1>1, <1>4, <2>7, OrderOfParts
      <4> QED
        BY <1>8, <2>7, <4>1
    <3>2. ToSet(bytes) \cap lost = {}
      BY <1>1, <2>5
    <3> QED
      BY <1>5, <2>1, <3>1, <3>2
  <2>11. LinesOf(accepted') = numbers \cup {lines + 1} /\ lines + 1 \notin numbers
    <3>1. LinesOf(ToSet(bytes)) = {lines + 1}
      <4>1. <<lines + 1, 1>> \in ToSet(bytes)
        BY <1>1, <2>3
      <4>2. \A b \in ToSet(bytes) : b[1] = lines + 1
        BY <2>3
      <4> QED
        BY <4>1, <4>2 DEF LinesOf
    <3>2. lines + 1 \notin numbers
      BY <1>1, <1>2 DEF numbers, LinesOf
    <3>3. LinesOf(accepted') = LinesOf(accepted) \cup LinesOf(ToSet(bytes))
      BY <2>1 DEF LinesOf
    <3> QED
      BY <3>1, <3>2, <3>3 DEF numbers
  <2>12. IsFiniteSet(LinesOf(accepted'))
         /\ Cardinality(LinesOf(accepted')) = Cardinality(numbers) + 1
    BY <1>3, <2>11, FS_AddElement
  <2>13. accepted' \subseteq Byte /\ \A b \in accepted' : b[1] <= lines'
    <3>1. \A b \in ToSet(bytes) : b \in Byte /\ b[1] = lines + 1
      BY <1>1, <2>3 DEF Byte
    <3> QED
      BY <1>1, <1>2, <2>1, <3>1
  <2>14. LinesNumbered'
    BY <2>12, <2>13 DEF LinesNumbered
  <2>15. lines' = dropped' + Cardinality(LinesOf(accepted')) /\ dropped' \in Nat /\ lines' \in Nat
    BY <1>1, <1>3, <2>1, <2>12
  <2>16. lost \subseteq accepted'
    BY <1>1, <2>1
  <2> QED
    BY <2>7, <2>9, <2>10, <2>13, <2>14, <2>15, <2>16
<1> QED
  BY <1>6, <1>7

\* The parts of the bytes that are kept, and the sleeping writer.
PartsInOrder(f, u, q) ==
    InOrder(f) /\ InOrder(u) /\ InOrder(q) /\ Follow(f, u) /\ Follow(f, q) /\ Follow(u, q)

Sleeps == writer = "asleep" /\ queued # <<>> => notifying # {}

LEMMA FrontMoves ==
  ASSUME NEW f \in Seq(Byte), NEW a \in Seq(Byte), NEW b \in Seq(Byte)
  PROVE  (f \o a) \o b = f \o (a \o b)
  BY ConcatAssociative

LEMMA LogInvParts ==
  ASSUME LogInv
  PROVE  /\ queued \in Seq(Byte) /\ writing \in Seq(Byte) /\ file \in Seq(Byte) /\ Unwritten \in Seq(Byte)
         /\ Len(writing) \in Nat /\ done \in Nat /\ (writer = "write" => done <= Len(writing))
         /\ PartsInOrder(file, Unwritten, queued)
         /\ ToSet(file) \cup ToSet(Unwritten) \cup ToSet(queued) = accepted \ lost
<1>1. queued \in Seq(Byte) /\ writing \in Seq(Byte) /\ file \in Seq(Byte) /\ Unwritten \in Seq(Byte)
  BY UnwrittenType DEF LogInv, LogTypeOK
<1>2. Len(writing) \in Nat /\ done \in Nat /\ (writer = "write" => done <= Len(writing))
  BY <1>1, LenProperties DEF LogInv, LogTypeOK
<1>3. InOrder(file \o Unwritten \o queued) /\ ToSet(file \o Unwritten \o queued) = accepted \ lost
  BY DEF LogInv, LinesKept, Kept
<1> QED
  BY <1>1, <1>2, <1>3, OrderOfParts DEF PartsInOrder

LEMMA LogInitSafe ==
  ASSUME LogInit PROVE LogInv
<1> USE DEF LogInit
<1>1. Unwritten = <<>> /\ <<>> \in Seq(Byte) /\ ToSet(<<>>) = {} /\ InOrder(<<>>)
  BY EmptyPart DEF Unwritten
<1>2. InOrder(Kept) /\ ToSet(Kept) = {}
  BY <1>1, EmptyPart, OrderOfParts DEF Kept
<1>4. LinesOf(accepted) = {} /\ IsFiniteSet({}) /\ Cardinality({}) = 0
  BY FS_EmptySet DEF LinesOf
<1>5. LogTypeOK /\ BatchEmpty /\ LostTaken
  BY <1>1 DEF LogTypeOK, BatchEmpty, LostTaken
<1>6. LinesNumbered /\ lines = dropped + Cardinality(LinesOf(accepted))
  <2>1. IsFiniteSet(LinesOf(accepted)) /\ Cardinality(LinesOf(accepted)) = 0
    BY ONLY <1>4
  <2> QED
    BY <2>1 DEF LinesNumbered
<1>7. LinesKept
  BY <1>2, <1>6 DEF LinesKept
<1> QED
  BY <1>5, <1>6, <1>7 DEF LogInv

\* A caller that queued a line is about to wake the writer.
LEMMA LogCallSafe ==
  ASSUME NEW t \in Caller, NEW size \in LineSizes, LogInv, LogCall(t, size)
  PROVE  LogInv'
<1>1. Unwritten' = Unwritten /\ file' = file /\ lost' = lost /\ Push(size)
  BY DEF LogCall, Unwritten
<1>2. /\ queued' \in Seq(Byte) /\ accepted' \subseteq Byte /\ dropped' \in Nat /\ lines' \in Nat
      /\ LinesNumbered' /\ lost \subseteq accepted'
      /\ lines' = dropped' + Cardinality(LinesOf(accepted'))
      /\ InOrder(file \o Unwritten \o queued')
      /\ ToSet(file \o Unwritten \o queued') = accepted' \ lost
  BY <1>1, PushKeeps
<1>3. Sleeps'
  BY DEF LogInv, LinesKept, LogCall, Push, Sleeps
<1>4. LogTypeOK' /\ BatchEmpty' /\ LostTaken'
  BY <1>1, <1>2 DEF LogInv, LogTypeOK, BatchEmpty, LostTaken, LogCall
<1>5. LinesKept'
  BY <1>1, <1>2, <1>3 DEF LinesKept, Kept, Sleeps
<1> QED
  BY <1>2, <1>4, <1>5 DEF LogInv

\* Waking and falling asleep move no byte.
LEMMA WakingSafe ==
  ASSUME LogInv, CheckQueue \/ WakeSpuriously \/ \E t \in Caller : NotifyOne(t)
  PROVE  LogInv'
<1> USE DEF CheckQueue, WakeSpuriously, NotifyOne
<1>1. /\ UNCHANGED <<queued, dropped, writing, done, file, lines, accepted, lost>>
      /\ writer' \in {"check", "asleep", "delay", "write", "report"}
      /\ Sleeps'
  BY DEF LogInv, LogTypeOK, LinesKept, Sleeps
<1>2. Unwritten' = Unwritten /\ BatchEmpty'
  BY DEF LogInv, LogTypeOK, Unwritten, BatchEmpty
<1>3. LogTypeOK' /\ LinesNumbered' /\ LostTaken'
  BY <1>1 DEF LogInv, LogTypeOK, LinesNumbered, LostTaken
<1>4. LinesKept'
  BY <1>1, <1>2 DEF LogInv, LinesKept, Kept, Sleeps
<1> QED
  BY <1>2, <1>3, <1>4 DEF LogInv

\* The queue becomes the batch, all of it unwritten.
LEMMA SwapQueueSafe ==
  ASSUME LogInv, SwapQueue PROVE LogInv'
<1> USE DEF SwapQueue
<1>1. writing = <<>> /\ Unwritten = <<>> /\ writing' = queued /\ queued' = <<>>
  BY DEF LogInv, BatchEmpty, Unwritten
<1>2. queued \in Seq(Byte) /\ Len(queued) \in Nat
  BY LenProperties DEF LogInv, LogTypeOK
<1>3. Unwritten' = queued
  <2>1. Unwritten' = SubSeq(queued, 1, Len(queued))
    BY <1>1 DEF Unwritten
  <2> QED
    BY <1>2, <2>1, SubSeqFull
<1>4. InOrder(Kept') /\ ToSet(Kept') = accepted \ lost
  <2>1. Kept' = file \o queued /\ file \in Seq(Byte)
    BY <1>1, <1>2, <1>3, LogInvParts DEF Kept
  <2>2. InOrder(file) /\ InOrder(queued) /\ Follow(file, queued) /\ ToSet(file) \cup ToSet(queued) = accepted \ lost
    BY <1>1, LogInvParts, EmptyPart DEF PartsInOrder
  <2> QED
    BY <1>2, <2>1, <2>2, OrderOfConcat, RangeOfConcat DEF Follow
<1>5. LogTypeOK'
  BY <1>1, <1>2, EmptyPart DEF LogInv, LogTypeOK
<1> QED
  BY <1>1, <1>4, <1>5 DEF LogInv, BatchEmpty, LinesNumbered, LostTaken, LinesKept

LEMMA PartOfBytes ==
  ASSUME NEW s \in Seq(Byte), NEW i \in Nat, i > 0, NEW j \in Nat, j <= Len(s)
  PROVE  SubSeq(s, i, j) \in Seq(Byte)
<1>1. \A k \in i..j : s[k] \in Byte
  BY LenProperties, ElementOfSeq
<1> QED
  BY ONLY i \in Nat, j \in Nat, <1>1, SubSeqProperties

\* What is written leaves the front of the rest.
LEMMA WriteSomeSafe ==
  ASSUME NEW n \in 1..QueueLimit, LogInv, WriteSome(n)
  PROVE  LogInv'
<1> USE DEF WriteSome
<1> DEFINE rest == SubSeq(writing, done + 1, Len(writing))
           front == SubSeq(rest, 1, n)
           back == SubSeq(rest, n + 1, Len(rest))
<1>1. /\ writing \in Seq(Byte) /\ file \in Seq(Byte) /\ queued \in Seq(Byte) /\ rest \in Seq(Byte)
      /\ Len(writing) \in Nat /\ done \in Nat /\ done <= Len(writing) /\ Unwritten = rest /\ n \in 1..Len(rest)
  BY LogInvParts DEF Unwritten
<1>2. Len(rest) = Len(writing) - done
  BY <1>1, SubSeqProperties
<1>3. front \in Seq(Byte) /\ back \in Seq(Byte) /\ front \o back = rest
  <2>1. Len(rest) \in Nat /\ \A i \in 1..Len(rest) : rest[i] \in Byte
    BY <1>1, LenProperties, ElementOfSeq
  <2>2. front \in Seq(Byte) /\ back \in Seq(Byte)
    BY ONLY <1>1, <2>1, PartOfBytes
  <2>3. SubSeq(rest, 1, Len(rest)) = rest
    BY ONLY <1>1, SubSeqFull
  <2>4. front \o back = SubSeq(rest, 1, Len(rest))
    BY ONLY <1>1, <2>1, ConcatAdjacentSubSeq
  <2> QED
    BY <2>2, <2>3, <2>4
<1>4. Unwritten' = back
  BY <1>1, <1>2, SubSeqOfSubSeq DEF Unwritten
<1>5. file' = file \o front
  BY <1>1
<1> HIDE DEF rest, front, back
<1>6. Kept' = Kept
  <2>0. file \in Seq(Byte) /\ front \in Seq(Byte) /\ back \in Seq(Byte)
    BY <1>1, <1>3
  <2>1. (file \o front) \o back = file \o (front \o back)
    BY ONLY <2>0, FrontMoves
  <2>2. file \o (front \o back) = file \o rest
    BY <1>3
  <2> QED
    BY <1>1, <1>4, <1>5, <2>1, <2>2 DEF Kept
<1>7. done' \in Nat /\ done' <= Len(writing) /\ file' \in Seq(Byte)
  BY <1>1, <1>2, <1>3, <1>5, ConcatProperties
<1>8. LogTypeOK'
  BY <1>7 DEF LogInv, LogTypeOK
<1> QED
  BY <1>6, <1>8 DEF LogInv, BatchEmpty, LinesNumbered, LostTaken, LinesKept

\* The rest that is given up is nowhere else.
LEMMA WriteEndsSafe ==
  ASSUME LogInv, WriteEnds PROVE LogInv'
<1> USE DEF WriteEnds
<1>1. /\ file \in Seq(Byte) /\ queued \in Seq(Byte) /\ Unwritten \in Seq(Byte)
      /\ PartsInOrder(file, Unwritten, queued)
      /\ ToSet(file) \cup ToSet(Unwritten) \cup ToSet(queued) = accepted \ lost
  BY LogInvParts
<1>2. Unwritten' = <<>>
  BY DEF Unwritten
<1>3. ASSUME NEW b \in ToSet(Unwritten) PROVE b \notin ToSet(file) /\ b \notin ToSet(queued)
  <2>1. b[1] \in Nat /\ b[2] \in Nat
    BY <1>1, RangeIsSet DEF Byte
  <2> QED
    BY <1>1, <2>1 DEF PartsInOrder, Follow, Before
<1>4. ToSet(file) \cup ToSet(queued) = accepted \ lost'
  BY <1>1, <1>3
<1>5. InOrder(Kept') /\ ToSet(Kept') = accepted \ lost'
  <2>1. Kept' = file \o queued
    BY <1>1, <1>2 DEF Kept
  <2>2. InOrder(file) /\ InOrder(queued) /\ Follow(file, queued)
    BY <1>1 DEF PartsInOrder
  <2> QED
    BY <1>1, <1>4, <2>1, <2>2, OrderOfConcat, RangeOfConcat DEF Follow
<1>6. LogTypeOK' /\ LostTaken'
  BY <1>1 DEF LogInv, LogTypeOK, LostTaken
<1> QED
  BY <1>5, <1>6 DEF LogInv, BatchEmpty, LinesNumbered, LinesKept

\* The writer's own line goes the way of the others.
LEMMA ReportSafe ==
  ASSUME NEW size \in LineSizes, LogInv, Report(size) PROVE LogInv'
<1> USE DEF Report, ClearBatch
<1>1. Unwritten = <<>> /\ Unwritten' = <<>> /\ file' = file /\ lost' = lost
  BY DEF Unwritten
<1>2. /\ queued' \in Seq(Byte) /\ accepted' \subseteq Byte /\ dropped' \in Nat /\ lines' \in Nat
      /\ LinesNumbered' /\ lost \subseteq accepted'
      /\ lines' = dropped' + Cardinality(LinesOf(accepted'))
      /\ InOrder(file \o Unwritten \o queued')
      /\ ToSet(file \o Unwritten \o queued') = accepted' \ lost
  <2>1. CASE Push(size)
    BY <2>1, PushKeeps
  <2>2. CASE UNCHANGED <<queued, dropped, lines, accepted>>
    BY <2>2 DEF LogInv, LogTypeOK, LinesNumbered, LostTaken, LinesKept, Kept
  <2> QED
    BY <2>1, <2>2
<1>4. LogTypeOK' /\ BatchEmpty' /\ LostTaken'
  BY <1>1, <1>2, EmptyPart DEF LogInv, LogTypeOK, BatchEmpty, LostTaken
<1>5. LinesKept'
  BY <1>1, <1>2 DEF LinesKept, Kept
<1> QED
  BY <1>2, <1>4, <1>5 DEF LogInv

LEMMA LogNextSafe == LogInv /\ [LogNext]_logVars => LogInv'
<1> SUFFICES ASSUME LogInv, [LogNext]_logVars PROVE LogInv'
  OBVIOUS
<1>1. CASE UNCHANGED logVars
  BY <1>1 DEF logVars, LogInv, LogTypeOK, BatchEmpty, LinesNumbered, LostTaken, LinesKept, Kept, Unwritten
<1>2. CASE CheckQueue \/ WakeSpuriously \/ \E t \in Caller : NotifyOne(t)
  BY <1>2, WakingSafe
<1>3. CASE SwapQueue \/ WriteEnds
  BY <1>3, SwapQueueSafe, WriteEndsSafe
<1>4. ASSUME NEW t \in Caller, NEW size \in LineSizes, LogCall(t, size) PROVE LogInv'
  BY <1>4, LogCallSafe
<1>5. ASSUME NEW n \in 1..QueueLimit, WriteSome(n) PROVE LogInv'
  BY <1>5, WriteSomeSafe
<1>6. ASSUME NEW size \in LineSizes, Report(size) PROVE LogInv'
  BY <1>6, ReportSafe
<1> QED
  BY <1>1, <1>2, <1>3, <1>4, <1>5, <1>6 DEF LogNext

\* Every step of the callers and of the writer keeps LogInv.
THEOREM LogInvariance == LogSpec => []LogInv
  BY LogInitSafe, LogNextSafe, PTL DEF LogSpec

\* No line is lost uncounted, repeated or reordered, and the writer never sleeps
\* through one (async_log.cpp), whatever the number of callers, the lengths of
\* lines and writes, and the limit of the queue.
THEOREM LogSafe == LogSpec => []LinesKept
<1>1. LogInv => LinesKept
  BY DEF LogInv
<1> QED
  BY <1>1, LogInvariance, PTL

-----------------------------------------------------------------------------
(* Fiber contexts and audio.                                                *)

FrameType == [stack : Stack \cup {Nobody}, back : {"none", "enter", "switch", "trap"},
              source : Context \cup {Nobody}, mode : Mode \cup {Nobody}]

CpuType == [stack : Stack \cup {Nobody}, mode : Mode \cup {Nobody},
            at : {"code", "guard", "trapped"}, new : Fiber \cup {Nobody}]

HostTypeOK ==
    /\ owner \in HostThread \cup {Nobody}
    /\ current \in Context \cup {Nobody}
    /\ mapped \subseteq Fiber /\ contexts \subseteq Fiber /\ finished \subseteq Fiber
    /\ saved \in [Context -> FrameType]
    /\ cpu \in [HostThread -> CpuType]
    /\ modes \in [Stack -> Mode]

\* workerCount counts the contexts.
Counted == IsFiniteSet(contexts) /\ workers = Cardinality(contexts)

\* Only the owner is inside Create(), with a mapping that is no context yet.
InCall ==
    \A t \in HostThread :
        IF cpu[t].at = "guard" THEN owner = t /\ cpu[t].new \in Fiber \ contexts
        ELSE cpu[t].new = Nobody

\* A frame that may be popped leads back to its own context.
Resumes(frame, c, stack) ==
    frame.stack = stack /\ frame.source = c /\ frame.mode = modes[stack]

FramesOk ==
    owner # Nobody =>
        /\ \A c \in contexts \ finished : c # current =>
               saved[c].back \in {"enter", "switch"} /\ Resumes(saved[c], c, c)
        /\ current # Scheduler =>
               saved[Scheduler].back = "switch" /\ Resumes(saved[Scheduler], Scheduler, owner)

HostInv == HostTypeOK /\ ContextsSound /\ Counted /\ InCall /\ FramesOk

\* The scheduler starts on the stack of the thread that becomes the owner.
LEMMA InitializeSafe ==
    ASSUME NEW t \in HostThread, HostInv, InitializeScheduler(t)
    PROVE  HostInv'
<1> USE HostAssumption DEF HostInv, Context, Stack, InitializeScheduler, NoFrame
<1>1. HostTypeOK'
  BY DEF HostTypeOK, FrameType, CpuType, ContextsSound, Running, InCall, FramesOk, Resumes
<1>2. ContextsSound'
  BY DEF HostTypeOK, FrameType, CpuType, ContextsSound, Running, InCall, FramesOk, Resumes
<1>3. Counted'
  BY DEF Counted
<1>4. InCall'
  BY DEF HostTypeOK, FrameType, CpuType, ContextsSound, Running, InCall
<1>5. FramesOk'
  BY DEF HostTypeOK, FrameType, CpuType, ContextsSound, Running, InCall, FramesOk, Resumes
<1> QED
  BY <1>1, <1>2, <1>3, <1>4, <1>5

\* No worker is left, so no mapping is either.
LEMMA ShutdownSafe ==
    ASSUME NEW t \in HostThread, HostInv, ShutdownScheduler(t)
    PROVE  HostInv'
<1> USE HostAssumption DEF HostInv, Context, Stack, ShutdownScheduler, Calling, OnSchedulerThread
<1>1. HostTypeOK'
  BY DEF HostTypeOK, FrameType, CpuType, ContextsSound, Running, InCall, FramesOk, Resumes
<1>2. ContextsSound'
  <2>1. contexts = {}
    BY FS_EmptySet DEF Counted
  <2> QED
    BY <2>1 DEF HostTypeOK, FrameType, CpuType, ContextsSound, Running, InCall, FramesOk, Resumes
<1>3. Counted'
  BY DEF Counted
<1>4. InCall'
  BY DEF HostTypeOK, FrameType, CpuType, ContextsSound, Running, InCall
<1>5. FramesOk'
  BY DEF HostTypeOK, FrameType, CpuType, ContextsSound, Running, InCall, FramesOk, Resumes
<1> QED
  BY <1>1, <1>2, <1>3, <1>4, <1>5

\* A mapping in the making is no context yet, and only the owner has one.
LEMMA CreateMapsSafe ==
    ASSUME NEW t \in HostThread, NEW c \in Fiber, HostInv, CreateMaps(t, c)
    PROVE  HostInv'
<1> USE HostAssumption DEF HostInv, Context, Stack, CreateMaps, Calling, OnSchedulerThread
<1>1. HostTypeOK'
  BY DEF HostTypeOK, FrameType, CpuType, ContextsSound, Running, InCall, FramesOk, Resumes
<1>2. ContextsSound'
  BY DEF HostTypeOK, FrameType, CpuType, ContextsSound, Running, InCall, FramesOk, Resumes
<1>3. Counted'
  BY DEF Counted
<1>4. InCall'
  BY DEF HostTypeOK, FrameType, CpuType, ContextsSound, Running, InCall
<1>5. FramesOk'
  BY DEF HostTypeOK, FrameType, CpuType, ContextsSound, Running, InCall, FramesOk, Resumes
<1> QED
  BY <1>1, <1>2, <1>3, <1>4, <1>5

\* A new context's frame starts it on its own stack; a failed one leaves nothing.
LEMMA CreateEndsSafe ==
    ASSUME NEW t \in HostThread, HostInv, CreateEnds(t)
    PROVE  HostInv'
<1> USE HostAssumption DEF HostInv, Context, Stack, CreateEnds, InitialFrame, Release
<1>1. HostTypeOK'
  BY DEF HostTypeOK, FrameType, CpuType, ContextsSound, Running, InCall, FramesOk, Resumes
<1>2. ContextsSound'
  BY DEF HostTypeOK, FrameType, CpuType, ContextsSound, Running, InCall, FramesOk, Resumes
<1>3. Counted'
  <2>1. cpu[t].new \notin contexts
    BY DEF InCall
  <2> QED
    BY <2>1, FS_AddElement DEF Counted
<1>4. InCall'
  BY DEF HostTypeOK, FrameType, CpuType, ContextsSound, Running, InCall
<1>5. FramesOk'
  BY DEF HostTypeOK, FrameType, CpuType, ContextsSound, Running, InCall, FramesOk, Resumes
<1> QED
  BY <1>1, <1>2, <1>3, <1>4, <1>5

\* What is destroyed is not what runs: the owner runs the current context.
LEMMA DestroySafe ==
    ASSUME NEW t \in HostThread, NEW c \in Fiber, HostInv, Destroy(t, c)
    PROVE  HostInv'
<1> USE HostAssumption DEF HostInv, Context, Stack, Destroy, Calling, OnSchedulerThread, Release, NoFrame
<1>1. HostTypeOK'
  BY DEF HostTypeOK, FrameType, CpuType, ContextsSound, Running, InCall, FramesOk, Resumes
<1>2. ContextsSound'
  BY DEF HostTypeOK, FrameType, CpuType, ContextsSound, Running, InCall, FramesOk, Resumes
<1>3. Counted'
  BY FS_RemoveElement DEF Counted
<1>4. InCall'
  BY DEF HostTypeOK, FrameType, CpuType, ContextsSound, Running, InCall
<1>5. FramesOk'
  BY DEF HostTypeOK, FrameType, CpuType, ContextsSound, Running, InCall, FramesOk, Resumes
<1> QED
  BY <1>1, <1>2, <1>3, <1>4, <1>5

\* The frame pushed leads back to the context that left, and the frame popped to
\* the one that is now current.
LEMMA SwitchSafe ==
    ASSUME NEW t \in HostThread, NEW c \in Context, HostInv, Switch(t, c)
    PROVE  HostInv'
<1> USE HostAssumption DEF HostInv, Context, Stack, Switch, SwitchStacks, Frame, Calling, OnSchedulerThread
<1>1. HostTypeOK'
  <2>1. saved[c] \in FrameType /\ saved[c].stack \in Stack /\ saved[c].source \in Context
    BY DEF HostTypeOK, FrameType, CpuType, ContextsSound, Running, InCall, FramesOk, Resumes
  <2>2. Frame(t, "switch") \in FrameType
    BY DEF HostTypeOK, FrameType, CpuType
  <2>3. saved' \in [Context -> FrameType]
    BY <2>2 DEF HostTypeOK
  <2>4. cpu' \in [HostThread -> CpuType]
    BY <2>1 DEF HostTypeOK, FrameType, CpuType
  <2> QED
    BY <2>1, <2>3, <2>4 DEF HostTypeOK
<1>2. ContextsSound'
  BY DEF HostTypeOK, FrameType, CpuType, ContextsSound, Running, InCall, FramesOk, Resumes
<1>3. Counted'
  BY DEF Counted
<1>4. InCall'
  BY DEF HostTypeOK, FrameType, CpuType, ContextsSound, Running, InCall
<1>5. FramesOk'
  BY DEF HostTypeOK, FrameType, CpuType, ContextsSound, Running, InCall, FramesOk, Resumes
<1> QED
  BY <1>1, <1>2, <1>3, <1>4, <1>5

\* A finished context leaves a frame that `finished` keeps from being popped; the
\* scheduler's is there, because it is not what ran.
LEMMA EntryReturnsSafe ==
    ASSUME NEW t \in HostThread, HostInv, EntryReturns(t)
    PROVE  HostInv'
<1> USE HostAssumption DEF HostInv, Context, Stack, EntryReturns, SwitchStacks, Frame
<1>1. HostTypeOK'
  <2>1. saved[Scheduler] \in FrameType /\ saved[Scheduler].stack \in Stack /\ saved[Scheduler].source \in Context
    BY DEF HostTypeOK, FrameType, CpuType, ContextsSound, Running, InCall, FramesOk, Resumes
  <2>2. Frame(t, "trap") \in FrameType
    BY DEF HostTypeOK, FrameType, CpuType
  <2>3. saved' \in [Context -> FrameType]
    BY <2>2 DEF HostTypeOK
  <2>4. cpu' \in [HostThread -> CpuType]
    BY <2>1 DEF HostTypeOK, FrameType, CpuType
  <2> QED
    BY <2>1, <2>3, <2>4 DEF HostTypeOK
<1>2. ContextsSound'
  BY DEF HostTypeOK, FrameType, CpuType, ContextsSound, Running, InCall, FramesOk, Resumes
<1>3. Counted'
  BY DEF Counted
<1>4. InCall'
  BY DEF HostTypeOK, FrameType, CpuType, ContextsSound, Running, InCall
<1>5. FramesOk'
  BY DEF HostTypeOK, FrameType, CpuType, ContextsSound, Running, InCall, FramesOk, Resumes
<1> QED
  BY <1>1, <1>2, <1>3, <1>4, <1>5

\* Code changes the control word of its own stack only.
LEMMA LoadModeSafe ==
    ASSUME NEW t \in HostThread, NEW m \in Mode, HostInv, LoadMode(t, m)
    PROVE  HostInv'
<1> USE HostAssumption DEF HostInv, Context, Stack, LoadMode
<1>1. HostTypeOK'
  BY DEF HostTypeOK, FrameType, CpuType, ContextsSound, Running, InCall, FramesOk, Resumes
<1>2. ContextsSound'
  BY DEF HostTypeOK, FrameType, CpuType, ContextsSound, Running, InCall, FramesOk, Resumes
<1>3. Counted'
  BY DEF Counted
<1>4. InCall'
  BY DEF HostTypeOK, FrameType, CpuType, ContextsSound, Running, InCall
<1>5. FramesOk'
  BY DEF HostTypeOK, FrameType, CpuType, ContextsSound, Running, InCall, FramesOk, Resumes
<1> QED
  BY <1>1, <1>2, <1>3, <1>4, <1>5

\* Before any call every thread is on its own stack.
LEMMA InitSafe == HostInit => HostInv
<1> SUFFICES ASSUME HostInit PROVE HostInv
  OBVIOUS
<1> USE HostAssumption DEF HostInit, Context, Stack
<1>1. (CHOOSE m \in Mode : TRUE) \in Mode
  OBVIOUS
<1>2. HostTypeOK
  BY <1>1 DEF HostTypeOK, FrameType, CpuType, NoFrame
<1>3. \A t \in HostThread : /\ cpu[t].stack = t /\ cpu[t].mode = modes[t]
                           /\ cpu[t].at = "code" /\ cpu[t].new = Nobody
  BY <1>1
<1>4. ContextsSound
  <2>1. {cpu[t].new : t \in HostThread} \ {Nobody} = {}
    BY <1>3
  <2> QED
    BY <1>3, <2>1 DEF ContextsSound
<1>5. InCall /\ FramesOk
  BY <1>3 DEF InCall, FramesOk
<1>6. Counted
  BY FS_EmptySet DEF Counted
<1> QED
  BY <1>2, <1>4, <1>5, <1>6 DEF HostInv

\* Every step keeps the invariant: the calls by their lemmas.
LEMMA NextSafe == HostInv /\ [HostNext]_hostVars => HostInv'
<1> SUFFICES ASSUME HostInv, [HostNext]_hostVars PROVE HostInv'
  OBVIOUS
<1>1. CASE UNCHANGED hostVars
  BY <1>1 DEF hostVars, HostInv, HostTypeOK, ContextsSound, Running, Counted, InCall, FramesOk, Resumes
<1>2. ASSUME NEW t \in HostThread,
             \/ InitializeScheduler(t) \/ ShutdownScheduler(t)
             \/ CreateEnds(t) \/ EntryReturns(t)
      PROVE  HostInv'
  BY <1>2, InitializeSafe, ShutdownSafe, CreateEndsSafe, EntryReturnsSafe
<1>3. ASSUME NEW t \in HostThread, NEW c \in Fiber, CreateMaps(t, c) \/ Destroy(t, c)
      PROVE  HostInv'
  BY <1>3, CreateMapsSafe, DestroySafe
<1>4. ASSUME NEW t \in HostThread, NEW c \in Context, Switch(t, c)
      PROVE  HostInv'
  BY <1>4, SwitchSafe
<1>5. ASSUME NEW t \in HostThread, NEW m \in Mode, LoadMode(t, m)
      PROVE  HostInv'
  BY <1>5, LoadModeSafe
<1> QED
  BY <1>1, <1>2, <1>3, <1>4, <1>5 DEF HostNext

\* Whatever the calls and their order, HostInv holds.
THEOREM HostInvariance == HostSpec => []HostInv
  BY InitSafe, NextSafe, PTL DEF HostSpec

\* No stack is shared, freed or resumed after its end, and `current` is right
\* (host_context_ps5.cpp), for any number of fibers and threads.
THEOREM HostSafe == HostSpec => []ContextsSound
<1>1. HostInv => ContextsSound
  BY DEF HostInv
<1> QED
  BY <1>1, HostInvariance, PTL

-----------------------------------------------------------------------------
(* The audio output.                                                        *)

HeldBlock == [buffer : Buffers, block : Nat]

AudioTypeOK ==
    /\ opened \in 0..MaxOpens /\ device \in {"closed", "ready", "filling", "filled", "broken"}
    /\ port \in BOOLEAN /\ next \in Buffers /\ memory \subseteq Opening
    /\ content \in [Opening -> [Buffers -> Int]]
    /\ block \in Nat /\ taken \in Seq(Nat) /\ played \in Seq(Nat)
    /\ holds \in [Opening -> HeldBlock]
    /\ device # "closed" => opened \in Opening
    /\ device \in {"ready", "filling", "filled"} => port /\ opened \in memory

\* What an opened port reads is what it took; later openings have taken nothing.
HeldIntact ==
    \A o \in Opening : holds[o] # Nothing =>
        /\ o <= opened /\ o \in memory
        /\ content[o][holds[o].buffer] = holds[o].block

\* The block held is the last one taken, in the buffer that is not filled next.
HeldLast ==
    device # "closed" =>
        IF holds[opened] = Nothing
        THEN Len(played) = Len(taken) /\ (device # "broken" => taken = <<>>)
        ELSE /\ port
             /\ Len(played) = Len(taken) - 1 /\ holds[opened].block = Len(taken)
             /\ device = "ready" => holds[opened].buffer = 1 - next
             /\ device \in {"filling", "filled"} => holds[opened].buffer = next

BlocksCounted ==
    /\ Len(played) <= Len(taken)
    /\ device \in {"ready", "filling"} => Len(taken) = block
    /\ device = "filled" => Len(taken) + 1 = block
    /\ device = "filled" => content[opened][1 - next] = block
    /\ \A k \in 1..Len(taken) : taken[k] = k
    /\ \A k \in 1..Len(played) : played[k] = k

AudioInv == AudioTypeOK /\ HeldIntact /\ HeldLast /\ BlocksCounted

LEMMA AudioInitSafe ==
  ASSUME AudioInit PROVE AudioInv
<1> USE AudioAssumption DEF AudioInit
<1>1. <<>> \in Seq(Nat) /\ Nothing \in HeldBlock /\ 0 \in Buffers /\ 0 \in 0..MaxOpens
  BY EmptySeq DEF Nothing, HeldBlock, Buffers
<1>2. content \in [Opening -> [Buffers -> Int]] /\ holds \in [Opening -> HeldBlock]
  BY <1>1
<1>3. AudioTypeOK
  BY <1>1, <1>2 DEF AudioTypeOK
<1> QED
  BY <1>3 DEF AudioInv, HeldIntact, HeldLast, BlocksCounted

LEMMA OpenDeviceSafe ==
  ASSUME AudioInv, OpenDevice PROVE AudioInv'
<1> USE AudioAssumption DEF AudioInv, OpenDevice
<1>1. <<>> \in Seq(Nat) /\ opened' \in Opening /\ opened' \in 0..MaxOpens /\ next' \in Buffers
  BY EmptySeq DEF AudioTypeOK, Opening, Buffers
<1>2. AudioTypeOK'
  BY <1>1 DEF AudioTypeOK
<1>3. HeldIntact'
  BY DEF AudioTypeOK, HeldIntact, Opening
<1>4. holds'[opened'] = Nothing
  BY <1>1 DEF AudioTypeOK, HeldIntact
<1>5. HeldLast' /\ BlocksCounted'
  BY <1>4 DEF HeldLast, BlocksCounted
<1> QED
  BY <1>2, <1>3, <1>5

\* The buffer handed out is not the one the device reads.
LEMMA GetDeviceBufSafe ==
  ASSUME AudioInv, GetDeviceBuf PROVE AudioInv'
<1> USE DEF AudioInv, GetDeviceBuf
<1>1. opened \in Opening /\ next \in Buffers /\ 1 - next \in Buffers
  BY DEF AudioTypeOK, Buffers
<1>2. content' \in [Opening -> [Buffers -> Int]]
  BY <1>1 DEF AudioTypeOK
<1>3. \A o \in Opening, b \in Buffers : content'[o][b] = IF o = opened /\ b = next THEN -1 ELSE content[o][b]
  BY <1>1 DEF AudioTypeOK
<1>4. AudioTypeOK'
  BY <1>1, <1>2 DEF AudioTypeOK
<1>5. holds[opened] # Nothing => holds[opened].buffer # next
  BY <1>1 DEF HeldLast, Buffers
<1>6. HeldIntact'
  BY <1>1, <1>3, <1>5 DEF AudioTypeOK, HeldIntact, HeldBlock
<1>7. HeldLast'
  BY <1>1 DEF AudioTypeOK, HeldLast, Buffers
<1>8. BlocksCounted'
  BY DEF AudioTypeOK, BlocksCounted
<1> QED
  BY <1>4, <1>6, <1>7, <1>8

LEMMA MixedSafe ==
  ASSUME AudioInv, Mixed PROVE AudioInv'
<1> USE DEF AudioInv, Mixed
<1>1. opened \in Opening /\ next \in Buffers /\ 1 - next \in Buffers /\ block + 1 \in Nat
  BY DEF AudioTypeOK, Buffers
<1>2. content' \in [Opening -> [Buffers -> Int]]
  BY <1>1 DEF AudioTypeOK
<1>3. \A o \in Opening, b \in Buffers :
         content'[o][b] = IF o = opened /\ b = 1 - next THEN block + 1 ELSE content[o][b]
  BY <1>1 DEF AudioTypeOK
<1>4. AudioTypeOK'
  BY <1>1, <1>2 DEF AudioTypeOK
<1>5. holds[opened] # Nothing => holds[opened].buffer # 1 - next
  BY <1>1 DEF HeldLast, Buffers
<1>6. HeldIntact'
  BY <1>1, <1>3, <1>5 DEF AudioTypeOK, HeldIntact, HeldBlock
<1>7. HeldLast'
  BY <1>1 DEF AudioTypeOK, HeldLast, Buffers
<1>8. BlocksCounted'
  BY <1>1, <1>3 DEF AudioTypeOK, BlocksCounted
<1> QED
  BY <1>4, <1>6, <1>7, <1>8

\* What is heard when the device is done with the block it holds.
LEMMA TakePlays ==
  ASSUME AudioInv, device # "closed", NEW b, NEW number, Take(b, number)
  PROVE  /\ played' \in Seq(Nat) /\ Len(played') = Len(taken)
         /\ \A k \in 1..Len(played') : played'[k] = k
<1> USE DEF AudioInv, Take
<1>1. opened \in Opening /\ played \in Seq(Nat) /\ Len(played) \in Nat /\ taken \in Seq(Nat) /\ Len(taken) \in Nat
  BY LenProperties DEF AudioTypeOK
<1>2. CASE holds[opened] = Nothing
  BY <1>1, <1>2 DEF HeldLast, BlocksCounted
<1>3. CASE holds[opened] # Nothing
  <2>1. holds[opened].block \in Nat /\ content[opened][holds[opened].buffer] = holds[opened].block
    BY <1>1, <1>3 DEF HeldIntact, AudioTypeOK, HeldBlock
  <2>2. played' = Append(played, holds[opened].block) /\ holds[opened].block = Len(played) + 1
        /\ Len(taken) = Len(played) + 1
    BY <1>1, <1>3, <2>1 DEF HeldLast
  <2> QED
    BY <1>1, <2>1, <2>2, AppendProperties DEF BlocksCounted
<1> QED
  BY <1>2, <1>3

LEMMA PlayDeviceSafe ==
  ASSUME AudioInv, PlayDevice PROVE AudioInv'
<1> USE DEF AudioInv, PlayDevice
<1>1. /\ opened \in Opening /\ next \in Buffers /\ 1 - next \in Buffers /\ block \in Nat
      /\ taken \in Seq(Nat) /\ Len(taken) \in Nat /\ Len(played) \in Nat /\ opened \in memory
  BY LenProperties DEF AudioTypeOK, Buffers
<1>2. CASE UNCHANGED <<holds, played, taken>> /\ device' = "broken"
  BY <1>2 DEF AudioTypeOK, HeldIntact, HeldLast, BlocksCounted
<1>3. CASE /\ device' \in {"ready", "broken"}
           /\ Take(1 - next, block) /\ taken' = Append(taken, block)
  <2>1. /\ played' \in Seq(Nat) /\ Len(played') = Len(taken)
        /\ \A k \in 1..Len(played') : played'[k] = k
    BY <1>3, TakePlays
  <2>2. /\ taken' \in Seq(Nat) /\ Len(taken') = Len(taken) + 1
        /\ \A k \in 1..Len(taken') : taken'[k] = k
    BY <1>1, <1>3, AppendProperties DEF BlocksCounted
  <2>3. [buffer |-> 1 - next, block |-> block] \in HeldBlock
    BY <1>1 DEF HeldBlock
  <2>4. holds' \in [Opening -> HeldBlock] /\ holds'[opened] = [buffer |-> 1 - next, block |-> block]
        /\ \A o \in Opening : o # opened => holds'[o] = holds[o]
    BY <1>1, <1>3, <2>3 DEF Take, AudioTypeOK
  <2>5. AudioTypeOK'
    BY <1>3, <2>1, <2>2, <2>4 DEF AudioTypeOK
  <2>6. HeldIntact'
    BY <1>1, <2>4 DEF HeldIntact, BlocksCounted, AudioTypeOK
  <2>7. HeldLast'
    BY <1>1, <1>3, <2>1, <2>2, <2>4 DEF HeldLast, BlocksCounted, AudioTypeOK, Nothing
  <2>8. BlocksCounted'
    BY <1>1, <1>3, <2>1, <2>2 DEF BlocksCounted
  <2> QED
    BY <2>5, <2>6, <2>7, <2>8
<1> QED
  BY <1>2, <1>3

\* Memory is freed only when nothing of it is read any more.
LEMMA CloseDeviceSafe ==
  ASSUME AudioInv, CloseDevice PROVE AudioInv'
<1> USE DEF AudioInv, CloseDevice
<1>1. opened \in Opening /\ Len(taken) \in Nat
  BY LenProperties DEF AudioTypeOK
<1>2. Nothing \in HeldBlock /\ Nothing = [buffer |-> 0, block |-> 0]
  BY DEF Nothing, HeldBlock, Buffers
<1>3. CASE UNCHANGED <<holds, played, memory>>
  BY <1>3 DEF AudioTypeOK, HeldIntact, HeldLast, BlocksCounted
<1>4. CASE ~port
  <2>1. holds[opened] = Nothing
    BY <1>4 DEF HeldLast
  <2> QED
    BY <1>1, <1>4, <2>1 DEF AudioTypeOK, HeldIntact, HeldLast, BlocksCounted
<1>5. CASE Take(0, 0) /\ memory' \in {memory, memory \ {opened}}
  <2>1. /\ played' \in Seq(Nat) /\ Len(played') = Len(taken)
        /\ \A k \in 1..Len(played') : played'[k] = k
    BY <1>5, TakePlays
  <2>2. holds' \in [Opening -> HeldBlock] /\ holds'[opened] = Nothing
        /\ \A o \in Opening : o # opened => holds'[o] = holds[o]
    BY <1>1, <1>2, <1>5 DEF Take, AudioTypeOK
  <2>3. AudioTypeOK'
    BY <1>5, <2>1, <2>2 DEF AudioTypeOK
  <2>4. HeldIntact'
    BY <1>5, <2>2 DEF HeldIntact, AudioTypeOK
  <2>5. HeldLast' /\ BlocksCounted'
    BY <1>1, <2>1 DEF HeldLast, BlocksCounted
  <2> QED
    BY <2>3, <2>4, <2>5
<1> QED
  BY <1>3, <1>4, <1>5 DEF FreeBuffers

LEMMA LateEndSafe ==
  ASSUME NEW o \in Opening, AudioInv, LateEnd(o) PROVE AudioInv'
<1> USE DEF AudioInv, LateEnd
<1>1. Nothing \in HeldBlock
  BY DEF Nothing, HeldBlock, Buffers
<1>2. AudioTypeOK'
  BY <1>1 DEF AudioTypeOK
<1>3. HeldIntact'
  BY DEF AudioTypeOK, HeldIntact
<1>4. HeldLast' /\ BlocksCounted'
  BY DEF AudioTypeOK, HeldLast, BlocksCounted
<1> QED
  BY <1>2, <1>3, <1>4

LEMMA SoundFollows == ASSUME AudioInv PROVE SoundIntact
<1>1. played \in Seq(Nat) /\ taken \in Seq(Nat) /\ Len(played) \in Nat /\ Len(taken) \in Nat
  BY LenProperties DEF AudioInv, AudioTypeOK
<1>2. played = SubSeq(taken, 1, Len(played))
  <2>1. SubSeq(taken, 1, Len(played)) \in Seq(Nat) /\ Len(SubSeq(taken, 1, Len(played))) = Len(played)
        /\ \A k \in 1..Len(played) : SubSeq(taken, 1, Len(played))[k] = taken[k]
    BY <1>1, SubSeqProperties DEF AudioInv, BlocksCounted
  <2> DEFINE first == SubSeq(taken, 1, Len(played))
  <2>2. first \in Seq(Nat) /\ Len(first) = Len(played) /\ \A k \in 1..Len(played) : played[k] = first[k]
    BY <1>1, <2>1 DEF AudioInv, BlocksCounted
  <2> HIDE DEF first
  <2>3. played = first
    BY ONLY <1>1, <2>2, SeqEqual
  <2> QED
    BY <2>3 DEF first
<1> QED
  BY <1>2 DEF AudioInv, SoundIntact, HeldIntact, BlocksCounted

LEMMA AudioNextSafe == AudioInv /\ [AudioNext]_audioVars => AudioInv'
<1> SUFFICES ASSUME AudioInv, [AudioNext]_audioVars PROVE AudioInv'
  OBVIOUS
<1>1. CASE UNCHANGED audioVars
  BY <1>1 DEF audioVars, AudioInv, AudioTypeOK, HeldIntact, HeldLast, BlocksCounted
<1>2. CASE OpenDevice \/ GetDeviceBuf \/ Mixed
  BY <1>2, OpenDeviceSafe, GetDeviceBufSafe, MixedSafe
<1>3. CASE PlayDevice \/ CloseDevice
  BY <1>3, PlayDeviceSafe, CloseDeviceSafe
<1>4. ASSUME NEW o \in Opening, LateEnd(o) PROVE AudioInv'
  BY <1>4, LateEndSafe
<1> QED
  BY <1>1, <1>2, <1>3, <1>4 DEF AudioNext

\* After any openings, blocks, failures of PlayDevice() and ends that come late,
\* next_buffer is the buffer the device is not at (audio_ps5.c:29-95).
THEOREM AudioInvariance == AudioSpec => []AudioInv
  BY AudioInitSafe, AudioNextSafe, PTL DEF AudioSpec

\* The device reads whole blocks from memory that is there, and plays each block
\* once and in order (audio_ps5.c), for any number of openings and blocks.
THEOREM AudioSafe == AudioSpec => []SoundIntact
  BY SoundFollows, AudioInvariance, PTL
=============================================================================
