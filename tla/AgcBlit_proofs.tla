--------------------------- MODULE AgcBlit_proofs ---------------------------
(***************************************************************************)
(* Safety of the blitter for every number of arenas and serials and any    *)
(* targets, constants and colours.                                         *)
(*                                                                         *)
(* InFlightIntact is not inductive: an arena is reused because its label   *)
(* holds its serial, and that says something about the GPU only because    *)
(* an unfinished blit is alone in its arena and ahead of the label.        *)
(***************************************************************************)
EXTENDS AgcBlit, FiniteSetTheorems, SequenceTheorems, TLAPS

\* What an unfinished blit and its arena agree on.
Bound(e) ==
    /\ arenas[e.arena].submitted /\ arenas[e.arena].serial = e.fence
    /\ arenas[e.arena].commands = e.fence
    /\ arenas[e.arena].source = e.source /\ arenas[e.arena].target = e.target
    /\ labels[e.arena] # e.fence
    /\ e.source \in Constant => colours[e.source] = e.colour

InFlightBound == \A i \in DOMAIN gpu : Bound(gpu[i])

\* No two unfinished blits share an arena.
OneEach == \A i, j \in DOMAIN gpu : gpu[i].arena = gpu[j].arena => i = j

\* A submitted arena has memory.
Backed == \A a \in ArenaId : arenas[a].submitted => arenas[a].memory

\* What each step of a call relies on.
CallOk ==
    /\ call.at = "idle" => call = Idle
    /\ call.at # "idle" => storage = "live" /\ call.op # "none"
    /\ call.at \in {"claim", "write", "submit", "retire"} => call.op = "blit"
    /\ call.at = "join" => call.op \in {"finish", "destroy"}
    /\ call.at = "end" => call.op = "destroy"
    /\ call.at \in {"write", "submit", "wait"} => call.arena \in ArenaId /\ arenas[call.arena].memory
    /\ call.at \in {"write", "submit"} => ~arenas[call.arena].submitted
    /\ call.op = "blit" /\ call.at \in {"write", "submit", "wait"} => serial < MaxSerial
    /\ call.at = "submit" => /\ labels[call.arena] = 0
                             /\ arenas[call.arena].commands = serial + 1

IInv == TypeOK /\ InFlightBound /\ OneEach /\ Backed /\ CallOk /\ FreedOnlyIdle

-----------------------------------------------------------------------------
(* Lemmas on the helpers.                                                   *)

\* A set of naturals has a least element: the intervals 0 .. n are finite, and
\* strict inclusion of finite sets is well-founded.
LEMMA LeastNat ==
    ASSUME NEW M \in SUBSET Nat, M # {}
    PROVE  \E m \in M : \A n \in M : m <= n
<1> DEFINE Down(n) == 0 .. n
           D == {Down(n) : n \in M}
           R == StrictSubsetOrdering(Nat)
<1>1. IsWellFoundedOn(R, FiniteSubsetsOf(Nat))
  BY FS_StrictSubsetOrderingWellFounded
<1>2. \A n \in Nat : IsFiniteSet(Down(n)) /\ Down(n) \in SUBSET Nat
  BY FS_Interval
<1>3. \A n \in M : Down(n) \in FiniteSubsetsOf(Nat)
  BY <1>2 DEF FiniteSubsetsOf
<1>4. D \subseteq FiniteSubsetsOf(Nat) /\ D # {}
  <2> HIDE DEF Down
  <2> QED BY <1>3
<1>5. \E x \in D : \A y \in D : <<y, x>> \notin R
  <2> HIDE DEF D, R
  <2> QED BY <1>1, <1>4, WFMin
<1>6. PICK m \in M : \A n \in M : <<Down(n), Down(m)>> \notin R
  BY <1>5
<1>7. ASSUME NEW n \in M, ~(m <= n)
      PROVE  FALSE
  <2>1. n \in Nat /\ m \in Nat /\ n < m
    BY <1>7
  <2>2. m \in Down(m) /\ m \notin Down(n) /\ Down(n) \subseteq Down(m)
    BY <2>1
  <2>3. <<Down(n), Down(m)>> \in R
    BY <1>2, <2>2 DEF StrictSubsetOrdering
  <2> QED BY <2>3, <1>6, <1>7
<1> QED BY <1>7

LEMMA OldestFacts ==
    ASSUME arenas \in [ArenaId -> Arena], NEW S \in SUBSET ArenaId, S # {}
    PROVE  Oldest(S) \in S
<1> DEFINE M == {arenas[a].serial : a \in S}
<1>1. \A a \in S : arenas[a].serial \in Nat
  BY DEF Arena
<1>2. M \in SUBSET Nat /\ M # {}
  BY <1>1
<1>3. \E m \in M : \A n \in M : m <= n
  <2> HIDE DEF M
  <2> QED BY <1>2, LeastNat
<1>4. \E a \in S : \A b \in S : arenas[a].serial <= arenas[b].serial
  BY <1>3
<1> QED BY <1>4 DEF Oldest

LEMMA FirstFacts ==
    ASSUME NEW S \in SUBSET ArenaId, S # {}
    PROVE  First(S) \in S
<1>1. S \in SUBSET Nat
  BY BlitAssumption DEF ArenaId
<1> QED BY <1>1, LeastNat DEF First

LEMMA ArenaFacts ==
    ASSUME TypeOK
    PROVE  /\ ArenaId \subseteq 0 .. InFlight
           /\ \A i \in DOMAIN gpu : gpu[i] \in Entry /\ gpu[i].arena \in ArenaId
           /\ \A a \in ArenaId : arenas[a] \in Arena /\ labels[a] \in Nat
           /\ serial \in Nat
<1>1. ArenaId \subseteq 0 .. InFlight
  BY BlitAssumption DEF ArenaId
<1>2. \A i \in DOMAIN gpu : gpu[i] \in Entry
  BY DEF TypeOK
<1>3. \A i \in DOMAIN gpu : gpu[i].arena \in ArenaId
  BY <1>2 DEF Entry
<1>4. serial \in Nat
  BY BlitAssumption DEF TypeOK
<1> QED BY <1>1, <1>2, <1>3, <1>4 DEF TypeOK

\* Releasing landed arenas touches no unfinished blit: its label is behind.
LEMMA ReleasedFacts ==
    ASSUME TypeOK, InFlightBound, NEW done \in SUBSET ArenaId,
           \A a \in done : Landed(a)
    PROVE  /\ Released(done) \in [ArenaId -> Arena]
           /\ \A a \in ArenaId : Released(done)[a].memory = arenas[a].memory
           /\ \A a \in ArenaId : Released(done)[a].submitted => arenas[a].submitted
           /\ \A i \in DOMAIN gpu : Released(done)[gpu[i].arena] = arenas[gpu[i].arena]
<1>1. \A a \in ArenaId : arenas[a] \in Arena
  BY DEF TypeOK
<1>2. None \in Owner
  BY DEF Owner
<1>3. \A a \in ArenaId :
          [arenas[a] EXCEPT !.submitted = FALSE, !.source = None, !.target = None] \in Arena
  BY <1>1, <1>2 DEF Arena
<1>4. Released(done) \in [ArenaId -> Arena]
  BY <1>1, <1>3 DEF Released
<1>5. \A a \in ArenaId : Released(done)[a].memory = arenas[a].memory
  BY <1>1 DEF Released, Arena
<1>6. \A a \in ArenaId : Released(done)[a].submitted => arenas[a].submitted
  BY <1>1 DEF Released, Arena
<1>7. \A i \in DOMAIN gpu : Released(done)[gpu[i].arena] = arenas[gpu[i].arena]
  <2> SUFFICES ASSUME NEW i \in DOMAIN gpu
               PROVE  Released(done)[gpu[i].arena] = arenas[gpu[i].arena]
    OBVIOUS
  <2>1. gpu[i].arena \in ArenaId
    BY ArenaFacts
  <2>2. ~Landed(gpu[i].arena)
    BY DEF InFlightBound, Bound, Landed
  <2> QED BY <2>1, <2>2 DEF Released
<1> QED BY <1>4, <1>5, <1>6, <1>7

LEMMA RetirableFacts ==
    ASSUME NEW done \in Retirable
    PROVE  done \in SUBSET ArenaId /\ \A a \in done : Landed(a)
BY DEF Retirable

\* The queue's blits stay bound when the queue, the labels and the fills stay
\* and the arenas change only where no unfinished blit is.
LEMMA BoundKept ==
    ASSUME InFlightBound, OneEach, UNCHANGED gpu,
           \A i \in DOMAIN gpu : /\ arenas'[gpu[i].arena] = arenas[gpu[i].arena]
                                 /\ labels'[gpu[i].arena] = labels[gpu[i].arena]
                                 /\ gpu[i].source \in Constant =>
                                       colours'[gpu[i].source] = colours[gpu[i].source]
    PROVE  InFlightBound' /\ OneEach'
<1>1. InFlightBound'
  BY DEF InFlightBound, Bound
<1>2. OneEach'
  BY DEF OneEach
<1> QED BY <1>1, <1>2

-----------------------------------------------------------------------------
(* One lemma per step.                                                      *)

LEMMA CallTypes ==
    ASSUME TypeOK
    PROVE  /\ Idle \in Call /\ 0 \in 0 .. InFlight
           /\ call.source \in Owner /\ call.target \in Owner
           /\ \A at \in {"write", "submit", "retire", "join", "wait", "end"} :
                 /\ [call EXCEPT !.at = at] \in Call
                 /\ [call EXCEPT !.at = at].at = at
                 /\ [call EXCEPT !.at = at].op = call.op
                 /\ [call EXCEPT !.at = at].arena = call.arena
           /\ \A at \in {"write", "wait"}, a \in ArenaId :
                 /\ [call EXCEPT !.at = at, !.arena = a] \in Call
                 /\ [call EXCEPT !.at = at, !.arena = a].at = at
                 /\ [call EXCEPT !.at = at, !.arena = a].op = call.op
                 /\ [call EXCEPT !.at = at, !.arena = a].arena = a
<1>1. call \in Call /\ ArenaId \subseteq 0 .. InFlight /\ 0 \in 0 .. InFlight
  BY ArenaFacts, BlitAssumption DEF TypeOK
<1>2. Idle \in Call
  BY <1>1 DEF Idle, Call, Owner
<1> QED BY <1>1, <1>2 DEF Call

\* The program states of a call that keeps everything else.
LEMMA CallOnly ==
    ASSUME IInv, call' \in Call, CallOk', UNCHANGED <<arenas, labels, gpu, storage>>,
           UNCHANGED <<serial, constant, colours>>, failed' \in BOOLEAN
    PROVE  IInv'
<1>1. TypeOK'
  BY DEF IInv, TypeOK
<1>2. InFlightBound' /\ OneEach'
  BY BoundKept DEF IInv
<1>3. Backed' /\ FreedOnlyIdle'
  BY DEF IInv, Backed, FreedOnlyIdle
<1> QED BY <1>1, <1>2, <1>3 DEF IInv

LEMMA CallsBegin ==
    ASSUME IInv, \/ \E s, t \in Target : CallCopy(s, t)
                 \/ CallFinish \/ CallDestroy
    PROVE  IInv'
<1>1. Ready /\ UNCHANGED <<arenas, labels, gpu, storage, serial, constant, colours, failed>>
  BY DEF CallCopy, CallFinish, CallDestroy, cpuVars
<1>2. storage' = "live"
  BY <1>1 DEF Ready
<1>3. call' \in Call /\ CallOk'
  <2>1. ASSUME NEW s \in Target, NEW t \in Target, CallCopy(s, t)
        PROVE  call' \in Call /\ CallOk'
    <3>1. call' \in Call
      BY <2>1, CallTypes DEF CallCopy, Call, Owner, IInv
    <3>2. call'.at = "claim" /\ call'.op = "blit"
      BY <2>1 DEF CallCopy
    <3> QED BY <3>1, <3>2, <1>2 DEF CallOk
  <2>2. ASSUME CallFinish \/ CallDestroy
        PROVE  call' \in Call /\ CallOk'
    <3>1. call' \in Call
      <4>1. None \in Owner /\ 0 \in 0 .. InFlight
        BY CallTypes DEF IInv, Owner
      <4>2. \/ call' = [Idle EXCEPT !.op = "finish", !.at = "join"]
            \/ call' = [Idle EXCEPT !.op = "destroy", !.at = "end"]
            \/ call' = [Idle EXCEPT !.op = "destroy", !.at = "join"]
        BY <2>2 DEF CallFinish, CallDestroy
      <4> QED BY <4>1, <4>2 DEF Idle, Call
    <3>2. call'.op \in {"finish", "destroy"} /\ call'.at \in {"join", "end"}
          /\ (call'.at = "end" => call'.op = "destroy")
      BY <2>2 DEF CallFinish, CallDestroy, Idle
    <3> QED BY <3>1, <3>2, <1>2 DEF CallOk
  <2> QED BY <2>1, <2>2
<1> QED BY <1>1, <1>3, CallOnly DEF IInv, TypeOK

\* fill_constant() writes no constant that an unfinished clear samples.
LEMMA CallClearKeeps ==
    ASSUME IInv, NEW t \in Target, NEW colour \in Colour, CallClear(t, colour)
    PROVE  IInv'
<1>1. PICK c \in Constant :
          /\ FillConstant(c, colour)
          /\ call' = [op |-> "blit", at |-> "claim", source |-> c, target |-> t, arena |-> 0]
  BY DEF CallClear
<1>2. Ready /\ UNCHANGED <<arenas, labels, serial, failed, gpu, storage>>
  BY DEF CallClear
<1>3. constant' = c /\ colours' = [colours EXCEPT ![c] = colour] /\ ~Held(c)
  BY <1>1 DEF FillConstant, Reusable
<1>4. call' \in Call /\ call'.at = "claim" /\ call'.op = "blit"
  BY <1>1, CallTypes DEF Call, Owner, IInv
<1>5. TypeOK'
  BY <1>2, <1>3, <1>4 DEF IInv, TypeOK
<1>6. InFlightBound' /\ OneEach'
  <2>1. ASSUME NEW i \in DOMAIN gpu
        PROVE  gpu[i].source # c
    <3>1. gpu[i].arena \in ArenaId
      BY ArenaFacts DEF IInv
    <3>2. arenas[gpu[i].arena].source = gpu[i].source
      BY DEF IInv, InFlightBound, Bound
    <3> QED BY <3>1, <3>2, <1>3 DEF Held
  <2>2. \A d \in Constant \ {c} : colours'[d] = colours[d]
    BY <1>3 DEF IInv, TypeOK
  <2> QED BY <1>2, <2>1, <2>2, BoundKept DEF IInv
<1>7. Backed' /\ FreedOnlyIdle'
  BY <1>2 DEF IInv, Backed, FreedOnlyIdle
<1>8. CallOk'
  BY <1>2, <1>4 DEF CallOk, Ready
<1> QED BY <1>5, <1>6, <1>7, <1>8 DEF IInv

\* The steps that only move the call on.
LEMMA CallMoves ==
    ASSUME IInv, SerialExhausted \/ Join \/ WaitTimeout \/ WaitInterrupted
    PROVE  IInv'
<1> USE DEF IInv
<1>1. UNCHANGED <<arenas, labels, gpu, storage, serial, constant, colours>> /\ failed' \in BOOLEAN
  BY DEF SerialExhausted, Join, WaitTimeout, WaitInterrupted, cpuVars, TypeOK
<1>2. storage = "live" /\ call.op # "none"
  <2>1. call.at \in {"claim", "join", "wait"}
    BY DEF SerialExhausted, Join, WaitTimeout, WaitInterrupted
  <2> QED BY <2>1 DEF CallOk
<1>3. CASE call' = Idle
  BY <1>1, <1>3, CallTypes, CallOnly DEF CallOk, Idle
<1>4. CASE call' = [call EXCEPT !.at = "end"] /\ call.op = "destroy"
  <2>1. call' \in Call /\ call'.at = "end" /\ call'.op = "destroy"
    BY <1>4, CallTypes
  <2> QED BY <1>1, <1>2, <2>1, CallOnly DEF CallOk
<1>5. CASE Join /\ Submitted # {} /\ WaitFor(Oldest(Submitted))
  <2> DEFINE a == Oldest(Submitted)
  <2>1. a \in ArenaId /\ arenas[a].submitted
    <3>1. Submitted \in SUBSET ArenaId /\ a \in Submitted
      BY <1>5, OldestFacts DEF Submitted, TypeOK
    <3> QED BY <3>1 DEF Submitted
  <2>2. arenas[a].memory
    BY <2>1 DEF Backed
  <2> HIDE DEF a
  <2>3. call' = [call EXCEPT !.at = "wait", !.arena = a]
    BY <1>5 DEF WaitFor, a
  <2>4. call.op \in {"finish", "destroy"}
    BY <1>5 DEF Join, CallOk
  <2>5. call' \in Call /\ call'.at = "wait" /\ call'.op = call.op /\ call'.arena = a
    BY <2>1, <2>3, CallTypes
  <2> QED BY <1>1, <1>2, <2>1, <2>2, <2>4, <2>5, CallOnly DEF CallOk
<1> QED BY <1>3, <1>4, <1>5 DEF SerialExhausted, Join, Joined, WaitTimeout, WaitInterrupted, Return

\* Steps that change arenas no unfinished blit is in, and the call.
LEMMA ArenasChange ==
    ASSUME IInv, UNCHANGED <<labels, serial, failed, constant, colours, gpu, storage>>,
           arenas' \in [ArenaId -> Arena], Backed', call' \in Call, CallOk',
           \A i \in DOMAIN gpu : arenas'[gpu[i].arena] = arenas[gpu[i].arena]
    PROVE  IInv'
<1>1. TypeOK'
  BY DEF IInv, TypeOK
<1>2. InFlightBound' /\ OneEach'
  BY BoundKept DEF IInv
<1>3. FreedOnlyIdle'
  BY DEF IInv, FreedOnlyIdle
<1> QED BY <1>1, <1>2, <1>3 DEF IInv

LEMMA ClaimKeeps ==
    ASSUME IInv, Claim
    PROVE  IInv'
<1> USE DEF IInv
<1>1. UNCHANGED <<labels, serial, failed, constant, colours, gpu, storage>>
  BY DEF Claim, cpuVars
<1>2. call.at = "claim" /\ call.op = "blit" /\ storage = "live" /\ serial < MaxSerial
  BY BlitAssumption DEF Claim, Exhausted, CallOk, TypeOK
<1>3. PICK done \in Retirable :
        LET as  == Released(done)
            new == {a \in ArenaId : ~as[a].memory}
        IN  \/ /\ Free(as) # {}
               /\ arenas' = as
               /\ WriteInto(First(Free(as)))
            \/ /\ Free(as) = {} /\ new # {}
               /\ \/ /\ arenas' = [as EXCEPT ![First(new)].memory = TRUE]
                     /\ WriteInto(First(new))
                  \/ arenas' = as /\ Return
            \/ /\ Free(as) = {} /\ new = {}
               /\ arenas' = as
               /\ WaitFor(Oldest(ArenaId))
  BY DEF Claim
<1> DEFINE as  == Released(done)
           new == {a \in ArenaId : ~as[a].memory}
<1>4. /\ as \in [ArenaId -> Arena]
      /\ \A a \in ArenaId : as[a].memory = arenas[a].memory
      /\ \A a \in ArenaId : as[a].submitted => arenas[a].submitted
      /\ \A i \in DOMAIN gpu : as[gpu[i].arena] = arenas[gpu[i].arena]
  BY RetirableFacts, ReleasedFacts
<1>5. \A a \in ArenaId : as[a].submitted => as[a].memory
  BY <1>4 DEF Backed
<1>6. CASE Free(as) # {} /\ arenas' = as /\ WriteInto(First(Free(as)))
  <2> DEFINE a == First(Free(as))
  <2>1. a \in Free(as)
    <3> HIDE DEF as
    <3>1. Free(as) \in SUBSET ArenaId
      BY DEF Free
    <3> QED BY <3>1, <1>6, FirstFacts
  <2>2. a \in ArenaId /\ as[a].memory /\ ~as[a].submitted
    BY <2>1 DEF Free
  <2>3. call' = [call EXCEPT !.at = "write", !.arena = a]
    BY <1>6 DEF WriteInto
  <2> HIDE DEF a, as
  <2>4. call' \in Call /\ call'.at = "write" /\ call'.op = "blit" /\ call'.arena = a
    BY <2>2, <2>3, <1>2, CallTypes
  <2>5. CallOk'
    BY <2>2, <2>4, <1>1, <1>2, <1>6 DEF CallOk
  <2>6. Backed'
    BY <1>5, <1>6 DEF Backed
  <2> QED BY <1>1, <1>4, <1>6, <2>4, <2>5, <2>6, ArenasChange
<1>7. CASE new # {} /\ arenas' = [as EXCEPT ![First(new)].memory = TRUE] /\ WriteInto(First(new))
  <2> DEFINE a == First(new)
  <2>1. a \in ArenaId /\ ~as[a].memory
    <3>1. new \in SUBSET ArenaId
      OBVIOUS
    <3>2. a \in new
      <4> HIDE DEF new
      <4> QED BY <3>1, <1>7, FirstFacts
    <3> QED BY <3>2
  <2>2. call' = [call EXCEPT !.at = "write", !.arena = a]
    BY <1>7 DEF WriteInto
  <2>3. arenas' = [as EXCEPT ![a].memory = TRUE]
    BY <1>7
  <2> HIDE DEF a, as, new
  <2>4. call' \in Call /\ call'.at = "write" /\ call'.op = "blit" /\ call'.arena = a
    BY <2>1, <2>2, <1>2, CallTypes
  <2>5. /\ as[a] \in Arena /\ as[a].submitted = FALSE
        /\ arenas'[a] = [as[a] EXCEPT !.memory = TRUE]
        /\ \A b \in ArenaId \ {a} : arenas'[b] = as[b]
    BY <1>4, <1>5, <2>1, <2>3 DEF Arena
  <2>6. arenas'[a] \in Arena /\ arenas'[a].memory /\ ~arenas'[a].submitted
    BY <2>5 DEF Arena
  <2>7. arenas' \in [ArenaId -> Arena]
    BY <1>4, <2>3, <2>5, <2>6
  <2>8. CallOk'
    BY <2>1, <2>4, <2>6, <1>1, <1>2 DEF CallOk
  <2>9. Backed'
    BY <1>5, <2>5, <2>6 DEF Backed
  <2>10. ASSUME NEW i \in DOMAIN gpu
         PROVE  arenas'[gpu[i].arena] = arenas[gpu[i].arena]
    <3>1. gpu[i].arena \in ArenaId /\ arenas[gpu[i].arena].submitted
      BY ArenaFacts DEF InFlightBound, Bound
    <3>2. gpu[i].arena # a
      BY <3>1, <2>1, <1>4 DEF Backed
    <3> QED BY <3>1, <3>2, <2>5, <1>4
  <2> QED BY <1>1, <2>4, <2>7, <2>8, <2>9, <2>10, ArenasChange
<1>8. CASE arenas' = as /\ Return
  <2> HIDE DEF as
  <2>1. call' \in Call /\ CallOk'
    BY <1>8, CallTypes DEF Return, CallOk, Idle
  <2>2. Backed'
    BY <1>5, <1>8 DEF Backed
  <2> QED BY <1>1, <1>4, <1>8, <2>1, <2>2, ArenasChange
<1>9. CASE new = {} /\ arenas' = as /\ WaitFor(Oldest(ArenaId))
  <2> DEFINE a == Oldest(ArenaId)
  <2>1. a \in ArenaId
    <3>1. ArenaId # {}
      BY BlitAssumption DEF ArenaId
    <3> QED BY <3>1, OldestFacts DEF TypeOK
  <2>2. as[a].memory
    BY <1>9, <2>1, <1>4 DEF Arena
  <2>3. call' = [call EXCEPT !.at = "wait", !.arena = a]
    BY <1>9 DEF WaitFor
  <2> HIDE DEF a, as, new
  <2>4. call' \in Call /\ call'.at = "wait" /\ call'.op = "blit" /\ call'.arena = a
    BY <2>1, <2>3, <1>2, CallTypes
  <2>5. CallOk'
    BY <2>1, <2>2, <2>4, <1>1, <1>2, <1>9 DEF CallOk
  <2>6. Backed'
    BY <1>5, <1>9 DEF Backed
  <2> QED BY <1>1, <1>4, <1>9, <2>4, <2>5, <2>6, ArenasChange
<1> QED BY <1>3, <1>6, <1>7, <1>8, <1>9

\* The arena's commands and label are written while no unfinished blit is in it.
LEMMA WriteKeeps ==
    ASSUME IInv, Write \/ WriteOverflows
    PROVE  IInv'
<1> USE DEF IInv
<1> DEFINE a == call.arena
<1>1. /\ a \in ArenaId /\ ~arenas[a].submitted /\ arenas[a].memory
      /\ call.op = "blit" /\ storage = "live" /\ serial < MaxSerial
      /\ UNCHANGED <<serial, failed, constant, colours, gpu, storage>>
  BY DEF Write, WriteOverflows, CallOk, cpuVars
<1>2. arenas' = [arenas EXCEPT ![a].commands = serial + 1]
  BY DEF Write, WriteOverflows
<1>3. \/ labels' = labels /\ call' = Idle
      \/ labels' = [labels EXCEPT ![a] = 0] /\ call' = [call EXCEPT !.at = "submit"]
  BY DEF Write, WriteOverflows, Return
<1> HIDE DEF a
<1>4. /\ arenas[a] \in Arena /\ arenas'[a] = [arenas[a] EXCEPT !.commands = serial + 1]
      /\ \A b \in ArenaId \ {a} : arenas'[b] = arenas[b]
  BY <1>1, <1>2 DEF TypeOK
<1>5. arenas'[a] \in Arena /\ arenas'[a].memory /\ ~arenas'[a].submitted
      /\ arenas'[a].commands = serial + 1
  BY <1>1, <1>4, ArenaFacts DEF Arena
<1>6. arenas' \in [ArenaId -> Arena]
  BY <1>2, <1>4, <1>5 DEF TypeOK
<1>7. labels' \in [ArenaId -> Nat] /\ \A b \in ArenaId \ {a} : labels'[b] = labels[b]
  <2>1. labels' = labels \/ labels' = [labels EXCEPT ![a] = 0]
    BY <1>3
  <2>2. labels \in [ArenaId -> Nat]
    BY DEF TypeOK
  <2> QED BY <2>1, <2>2
<1>8. call' \in Call /\ CallOk'
  <2>1. CASE call' = Idle
    BY <2>1, CallTypes DEF CallOk, Idle
  <2>2. CASE labels' = [labels EXCEPT ![a] = 0] /\ call' = [call EXCEPT !.at = "submit"]
    <3>1. call' \in Call /\ call'.at = "submit" /\ call'.op = "blit" /\ call'.arena = a
      BY <1>1, <2>2, CallTypes DEF a
    <3>2. labels'[a] = 0
      BY <1>1, <2>2 DEF TypeOK
    <3> QED BY <3>1, <3>2, <1>1, <1>5 DEF CallOk
  <2> QED BY <1>3, <2>1, <2>2
<1>9. TypeOK'
  BY <1>1, <1>6, <1>7, <1>8 DEF TypeOK
<1>10. InFlightBound' /\ OneEach'
  <2>1. ASSUME NEW i \in DOMAIN gpu
        PROVE  gpu[i].arena \in ArenaId \ {a}
    BY <1>1, ArenaFacts DEF InFlightBound, Bound
  <2> QED BY <2>1, <1>1, <1>4, <1>7, BoundKept
<1>11. Backed' /\ FreedOnlyIdle'
  BY <1>1, <1>4, <1>5 DEF Backed, FreedOnlyIdle
<1> QED BY <1>8, <1>9, <1>10, <1>11

\* The new blit's arena held no other, its label is cleared and its serial is
\* above zero.
LEMMA SubmitKeeps ==
    ASSUME IInv, Submit
    PROVE  IInv'
<1> USE DEF IInv
<1> DEFINE a == call.arena
           e == [arena |-> call.arena, fence |-> serial + 1,
                 source |-> call.source, target |-> call.target,
                 colour |-> IF call.source \in Constant THEN colours[call.source] ELSE None]
<1>1. /\ a \in ArenaId /\ ~arenas[a].submitted /\ arenas[a].memory
      /\ call.op = "blit" /\ storage = "live" /\ serial < MaxSerial
      /\ labels[a] = 0 /\ arenas[a].commands = serial + 1
  BY DEF Submit, CallOk
<1>2. serial' = serial + 1 /\ UNCHANGED <<labels, constant, colours, storage>>
  BY DEF Submit
<1>3. gpu' = Append(gpu, e) \/ gpu' = gpu
  BY DEF Submit, Enqueue
<1>4. arenas' = [arenas EXCEPT ![a].source = call.source, ![a].target = call.target,
                               ![a].serial = serial + 1, ![a].submitted = TRUE]
  BY DEF Submit, Own
<1>5. \/ call' = [call EXCEPT !.at = "retire"] /\ failed' = failed
      \/ call' = Idle /\ failed' = TRUE
  BY DEF Submit, Return
<1>6. serial' \in 0 .. MaxSerial /\ serial + 1 \in Nat /\ serial + 1 # 0
  BY <1>1, <1>2, BlitAssumption DEF TypeOK
<1>7. call.source \in Owner /\ call.target \in Owner
  BY CallTypes
<1>8. e \in Entry
  <2>1. (IF call.source \in Constant THEN colours[call.source] ELSE None) \in Colour \union {None}
    BY DEF TypeOK
  <2> QED BY <1>1, <1>6, <1>7, <2>1 DEF Entry
<1>9. /\ arenas[a] \in Arena
      /\ arenas'[a] = [arenas[a] EXCEPT !.source = call.source, !.target = call.target,
                                        !.serial = serial + 1, !.submitted = TRUE]
      /\ \A b \in ArenaId \ {a} : arenas'[b] = arenas[b]
  BY <1>1, <1>4 DEF TypeOK
<1>10. /\ arenas'[a] \in Arena /\ arenas'[a].submitted /\ arenas'[a].memory
       /\ arenas'[a].serial = e.fence /\ arenas'[a].commands = e.fence
       /\ arenas'[a].source = e.source /\ arenas'[a].target = e.target
  BY <1>1, <1>6, <1>7, <1>9 DEF Arena
<1>11. e.arena = a /\ labels[a] # e.fence /\ (e.source \in Constant => colours[e.source] = e.colour)
  BY <1>1, <1>6
<1> HIDE DEF e, a
<1>12. \A i \in DOMAIN gpu : gpu[i].arena \in ArenaId \ {a}
  BY <1>1, ArenaFacts DEF InFlightBound, Bound
<1>13. call' \in Call /\ CallOk'
  <2>1. CASE call' = Idle
    BY <2>1, CallTypes DEF CallOk, Idle
  <2>2. CASE call' = [call EXCEPT !.at = "retire"]
    <3>1. call' \in Call /\ call'.at = "retire" /\ call'.op = "blit"
      BY <1>1, <2>2, CallTypes
    <3> QED BY <3>1, <1>1, <1>2 DEF CallOk
  <2> QED BY <1>5, <2>1, <2>2
<1>14. TypeOK'
  <2>1. arenas' \in [ArenaId -> Arena]
    BY <1>4, <1>9, <1>10 DEF TypeOK
  <2>2. gpu' \in Seq(Entry)
    BY <1>3, <1>8, AppendProperties DEF TypeOK
  <2>3. failed' \in BOOLEAN
    BY <1>5 DEF TypeOK
  <2> QED BY <1>2, <1>6, <1>13, <2>1, <2>2, <2>3 DEF TypeOK
<1>15. InFlightBound' /\ OneEach'
  <2>1. CASE gpu' = gpu
    BY <2>1, <1>2, <1>9, <1>12, BoundKept
  <2>2. CASE gpu' = Append(gpu, e)
    <3>1. gpu \in Seq(Entry)
      BY DEF TypeOK
    <3>2. /\ DOMAIN gpu' = DOMAIN gpu \union {Len(gpu) + 1} /\ Len(gpu) + 1 \notin DOMAIN gpu
          /\ gpu'[Len(gpu) + 1] = e
          /\ \A i \in DOMAIN gpu : gpu'[i] = gpu[i]
      BY <2>2, <3>1, <1>8, AppendProperties
    <3>3. ASSUME NEW i \in DOMAIN gpu'
          PROVE  Bound(gpu[i])'
      <4>1. CASE i \in DOMAIN gpu
        BY <4>1, <1>2, <1>9, <1>12, <2>2, <3>2 DEF InFlightBound, Bound
      <4>2. CASE gpu'[i] = e
        BY <4>2, <1>2, <1>10, <1>11 DEF Bound
      <4> QED BY <3>2, <4>1, <4>2
    <3>4. InFlightBound'
      BY <3>3 DEF InFlightBound
    <3>5. OneEach'
      BY <3>2, <1>11, <1>12 DEF OneEach
    <3> QED BY <3>4, <3>5
  <2> QED BY <1>3, <2>1, <2>2
<1>16. Backed'
  BY <1>9, <1>10 DEF Backed
<1>17. FreedOnlyIdle'
  BY <1>1, <1>2 DEF FreedOnlyIdle
<1> QED BY <1>13, <1>14, <1>15, <1>16, <1>17

LEMMA RetireKeeps ==
    ASSUME IInv, Retire
    PROVE  IInv'
<1> USE DEF IInv
<1>1. PICK done \in Retirable : arenas' = Released(done)
  BY DEF Retire
<1>2. UNCHANGED <<labels, serial, failed, constant, colours, gpu, storage>> /\ call' = Idle
  BY DEF Retire, Return, cpuVars
<1>3. call' \in Call /\ CallOk'
  BY <1>2, CallTypes DEF CallOk, Idle
<1>4. /\ arenas' \in [ArenaId -> Arena]
      /\ \A a \in ArenaId : arenas'[a].memory = arenas[a].memory
      /\ \A a \in ArenaId : arenas'[a].submitted => arenas[a].submitted
      /\ \A i \in DOMAIN gpu : arenas'[gpu[i].arena] = arenas[gpu[i].arena]
  BY <1>1, RetirableFacts, ReleasedFacts
<1>5. Backed'
  BY <1>4 DEF Backed
<1> QED BY <1>2, <1>3, <1>4, <1>5, ArenasChange

LEMMA WaitDoneKeeps ==
    ASSUME IInv, WaitDone
    PROVE  IInv'
<1> USE DEF IInv
<1> DEFINE a == call.arena
           at == IF call.op = "blit" THEN "write" ELSE "join"
<1>1. /\ a \in ArenaId /\ arenas[a].memory /\ Landed(a)
      /\ storage = "live" /\ call.op # "none"
      /\ call.op = "blit" => serial < MaxSerial
      /\ UNCHANGED <<labels, serial, failed, constant, colours, gpu, storage>>
      /\ arenas' = Released({a}) /\ call' = [call EXCEPT !.at = at]
  BY DEF WaitDone, CallOk, cpuVars
<1>2. /\ at \in {"write", "join"} /\ (at = "write" <=> call.op = "blit")
      /\ call.op \in {"blit", "finish", "destroy"}
  BY <1>1 DEF TypeOK, Call
<1> HIDE DEF at
<1>3. call' \in Call /\ call'.at = at /\ call'.op = call.op /\ call'.arena = a
  <2>1. at \in {"write", "submit", "retire", "join", "wait", "end"}
    BY <1>2
  <2> QED BY <1>1, <2>1, CallTypes DEF a
<1> HIDE DEF a
<1>4. /\ arenas' \in [ArenaId -> Arena]
      /\ \A b \in ArenaId : arenas'[b].memory = arenas[b].memory
      /\ \A b \in ArenaId : arenas'[b].submitted => arenas[b].submitted
      /\ \A i \in DOMAIN gpu : arenas'[gpu[i].arena] = arenas[gpu[i].arena]
  BY <1>1, ReleasedFacts
<1>5. ~arenas'[a].submitted
  BY <1>1 DEF Released, TypeOK, Arena
<1>6. CallOk'
  BY <1>1, <1>2, <1>3, <1>4, <1>5 DEF CallOk
<1>7. Backed'
  BY <1>4 DEF Backed
<1> QED BY <1>1, <1>3, <1>4, <1>6, <1>7, ArenasChange

\* A blit the GPU has not ended is a submission that has not landed.
LEMMA UnresolvedFacts ==
    ASSUME TypeOK, InFlightBound, ~Unresolved
    PROVE  gpu = <<>>
<1>1. ASSUME NEW i \in DOMAIN gpu
      PROVE  FALSE
  BY ArenaFacts DEF InFlightBound, Bound, Unresolved, Landed
<1>2. gpu \in Seq(Entry) /\ DOMAIN gpu = {}
  BY <1>1 DEF TypeOK
<1> QED BY <1>2

LEMMA DestroyEndKeeps ==
    ASSUME IInv, DestroyEnd
    PROVE  IInv'
<1> USE DEF IInv
<1>1. UNCHANGED <<labels, serial, failed, colours, gpu>> /\ call' = Idle
  BY DEF DestroyEnd, Return
<1>2. call' \in Call /\ CallOk'
  BY <1>1, CallTypes DEF CallOk, Idle
<1>3. CASE storage' = "retained" /\ UNCHANGED <<arenas, constant>>
  <2>1. TypeOK'
    BY <1>1, <1>2, <1>3 DEF TypeOK
  <2>2. InFlightBound' /\ OneEach' /\ Backed' /\ FreedOnlyIdle'
    BY <1>1, <1>3, BoundKept DEF Backed, FreedOnlyIdle
  <2> QED BY <1>2, <2>1, <2>2
<1>4. CASE /\ ~Unresolved /\ storage' = "freed" /\ constant' = None
           /\ arenas' = [a \in ArenaId |-> NoArena]
  <2>1. gpu' = <<>>
    BY <1>1, <1>4, UnresolvedFacts
  <2>2. NoArena \in Arena /\ ~NoArena.submitted
    BY DEF NoArena, Arena, Owner
  <2>3. TypeOK'
    <3>1. arenas' \in [ArenaId -> Arena]
      BY <1>4, <2>2
    <3> QED BY <1>1, <1>2, <1>4, <3>1 DEF TypeOK
  <2>4. InFlightBound' /\ OneEach' /\ FreedOnlyIdle'
    BY <2>1 DEF InFlightBound, OneEach, FreedOnlyIdle
  <2>5. Backed'
    BY <1>4, <2>2 DEF Backed
  <2> QED BY <1>2, <2>3, <2>4, <2>5
<1> QED BY <1>3, <1>4 DEF DestroyEnd

\* The label the GPU writes belongs to the ended blit's arena alone.
LEMMA GpuEndKeeps ==
    ASSUME IInv, GpuEnd
    PROVE  IInv'
<1> USE DEF IInv
<1> DEFINE h == Head(gpu)
<1>1. /\ gpu # <<>> /\ gpu' = Tail(gpu) /\ labels' = [labels EXCEPT ![h.arena] = h.fence]
      /\ UNCHANGED <<arenas, serial, failed, constant, colours, call, storage>>
  BY DEF GpuEnd, cpuVars
<1>2. gpu \in Seq(Entry)
  BY DEF TypeOK
<1>3. /\ 1 \in DOMAIN gpu /\ h = gpu[1] /\ gpu' \in Seq(Entry)
      /\ \A i \in DOMAIN gpu' : i + 1 \in DOMAIN gpu /\ gpu'[i] = gpu[i + 1] /\ i + 1 # 1
      /\ \A i \in DOMAIN gpu' : i \in Nat
  BY <1>1, <1>2
<1>4. h.arena \in ArenaId /\ h.fence \in Nat /\ arenas[h.arena].submitted
  BY <1>3, ArenaFacts DEF Entry, InFlightBound, Bound
<1> HIDE DEF h
<1>5. labels' \in [ArenaId -> Nat] /\ \A a \in ArenaId \ {h.arena} : labels'[a] = labels[a]
  BY <1>1, <1>4 DEF TypeOK
<1>6. TypeOK'
  BY <1>1, <1>3, <1>5 DEF TypeOK
<1>7. InFlightBound'
  <2>1. ASSUME NEW i \in DOMAIN gpu'
        PROVE  Bound(gpu[i])'
    <3>1. gpu'[i] = gpu[i + 1] /\ i + 1 \in DOMAIN gpu
      BY <1>3
    <3>2. gpu[i + 1].arena \in ArenaId /\ gpu[i + 1].arena # h.arena
      BY <1>3, ArenaFacts DEF OneEach
    <3> QED BY <3>1, <3>2, <1>1, <1>5 DEF InFlightBound, Bound
  <2> QED BY <2>1 DEF InFlightBound, Bound
<1>8. OneEach'
  BY <1>3 DEF OneEach
<1>9. Backed' /\ FreedOnlyIdle'
  BY <1>1 DEF Backed, FreedOnlyIdle
<1>10. CallOk'
  BY <1>1, <1>4, <1>5 DEF CallOk
<1> QED BY <1>6, <1>7, <1>8, <1>9, <1>10

-----------------------------------------------------------------------------
(* The invariant, and what follows from it.                                 *)

LEMMA InitIInv == ASSUME Init PROVE IInv
<1>1. NoArena \in Arena /\ [NoArena EXCEPT !.memory = TRUE] \in Arena
      /\ [NoArena EXCEPT !.memory = FALSE] \in Arena
  BY DEF NoArena, Arena, Owner
<1>2. arenas \in [ArenaId -> Arena] /\ \A a \in ArenaId : ~arenas[a].submitted
  <2>1. \A a \in ArenaId : arenas[a] \in {[NoArena EXCEPT !.memory = TRUE], [NoArena EXCEPT !.memory = FALSE]}
    BY DEF Init
  <2>2. \A a \in ArenaId : ~arenas[a].submitted
    BY <2>1 DEF NoArena
  <2> QED BY <1>1, <2>1, <2>2 DEF Init
<1>3. Idle \in Call
  BY BlitAssumption DEF Idle, Call, Owner
<1>4. serial \in 0 .. MaxSerial
  BY BlitAssumption DEF Init
<1>5. TypeOK
  <2>1. gpu \in Seq(Entry)
    BY DEF Init
  <2>2. labels \in [ArenaId -> Nat] /\ colours \in [Constant -> Colour \union {None}]
    BY DEF Init
  <2>3. failed \in BOOLEAN /\ constant \in Constant \union {None} /\ call \in Call
        /\ storage \in {"live", "freed", "retained"}
    BY <1>3 DEF Init
  <2> QED BY <1>2, <1>4, <2>1, <2>2, <2>3 DEF TypeOK
<1>6. InFlightBound /\ OneEach /\ FreedOnlyIdle
  BY DEF Init, InFlightBound, OneEach, FreedOnlyIdle
<1>7. Backed /\ CallOk
  BY <1>2 DEF Init, Backed, CallOk, Idle
<1> QED BY <1>5, <1>6, <1>7 DEF IInv

LEMMA NextKeepsIInv ==
    ASSUME IInv, [Next]_vars
    PROVE  IInv'
<1>1. CASE \E s, t \in Target : CallCopy(s, t)
  BY <1>1, CallsBegin
<1>2. CASE \E t \in Target, colour \in Colour : CallClear(t, colour)
  BY <1>2, CallClearKeeps
<1>3. CASE CallFinish \/ CallDestroy
  BY <1>3, CallsBegin
<1>4. CASE SerialExhausted \/ Join \/ WaitTimeout \/ WaitInterrupted
  BY <1>4, CallMoves
<1>5. CASE Claim
  BY <1>5, ClaimKeeps
<1>6. CASE Write \/ WriteOverflows
  BY <1>6, WriteKeeps
<1>7. CASE Submit
  BY <1>7, SubmitKeeps
<1>8. CASE Retire
  BY <1>8, RetireKeeps
<1>9. CASE WaitDone
  BY <1>9, WaitDoneKeeps
<1>10. CASE DestroyEnd
  BY <1>10, DestroyEndKeeps
<1>11. CASE GpuEnd
  BY <1>11, GpuEndKeeps
<1>12. CASE UNCHANGED vars
  <2>1. UNCHANGED <<arenas, labels, gpu, storage, serial, constant, colours, failed, call>>
    BY <1>12 DEF vars, cpuVars
  <2>2. call' \in Call /\ CallOk' /\ failed' \in BOOLEAN
    BY <2>1 DEF IInv, TypeOK, CallOk
  <2> QED BY <2>1, <2>2, CallOnly
<1> QED BY <1>1, <1>2, <1>3, <1>4, <1>5, <1>6, <1>7, <1>8, <1>9, <1>10, <1>11, <1>12 DEF Next, CallStep

\* Every behaviour of the blitter keeps each unfinished blit alone in a submitted
\* arena that is behind its label and holds its commands, owners and constant.
THEOREM Invariance == Spec => []IInv
<1>1. Init => IInv
  BY InitIInv
<1>2. IInv /\ [Next]_vars => IInv'
  BY NextKeepsIInv
<1> QED BY <1>1, <1>2, PTL DEF Spec

\* claim(), retire(), wait(), fill_constant() and the destructor never touch what
\* a blit the GPU has not ended still uses.
THEOREM InFlightSafe == Spec => []InFlightIntact
<1>1. IInv => InFlightIntact
  BY DEF IInv, InFlightBound, Bound, InFlightIntact, StorageStable, OwnersHeld, FillStable
<1> QED BY <1>1, Invariance, PTL

\* A finish() that returns without an error leaves no blit unfinished.
THEOREM FinishSafe == Spec => FinishJoins
<1> DEFINE Joins == (call.op = "finish" /\ call' = Idle /\ ~failed' /\ ~WaitInterrupted) => gpu' = <<>>
<1>1. IInv /\ [Next]_vars => [Joins]_vars
  <2> SUFFICES ASSUME IInv, Next, call.op = "finish", call' = Idle, ~failed', ~WaitInterrupted
               PROVE  gpu' = <<>>
    OBVIOUS
  <2>1. call # Idle /\ storage = "live"
    BY DEF Idle, IInv, CallOk
  <2>2. Join /\ Joined
    <3>1. call.at # "idle" /\ call.at \notin {"claim", "write", "submit", "retire", "end"}
      BY <2>1 DEF IInv, CallOk
    <3>2. ~Ready /\ call' # call
      BY <2>1 DEF Ready
    <3>3. Join \/ WaitDone \/ WaitTimeout
      BY <3>1, <3>2 DEF Next, CallStep, CallCopy, CallClear, CallFinish, CallDestroy, SerialExhausted,
                        Claim, Write, WriteOverflows, Submit, Retire, DestroyEnd, GpuEnd
    <3>4. /\ \A at : [call EXCEPT !.at = at] # Idle
          /\ \A at, a : [call EXCEPT !.at = at, !.arena = a] # Idle
      BY DEF Idle, IInv, TypeOK, Call
    <3>5. ~WaitDone /\ ~WaitTimeout
      BY <3>4 DEF WaitDone, WaitTimeout
    <3> QED BY <3>3, <3>4, <3>5 DEF Join, WaitFor
  <2>3. gpu' = gpu /\ ~failed
    BY <2>2 DEF Join, cpuVars
  <2>4. ~Unresolved
    BY <2>2, <2>3 DEF Joined, Submitted, Unresolved
  <2> QED BY <2>3, <2>4, UnresolvedFacts DEF IInv
<1> QED BY <1>1, Invariance, PTL DEF Spec, FinishJoins

=============================================================================
