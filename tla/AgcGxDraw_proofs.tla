-------------------------- MODULE AgcGxDraw_proofs --------------------------
(***************************************************************************)
(* Safety of the draw queue for every ring size, batch size, serial limit  *)
(* and set of resources.                                                   *)
(*                                                                         *)
(* StorageStable and OwnersHeld are not inductive: a slot may be rewritten *)
(* because it is not `submitted`, and that says something about the GPU    *)
(* only through what ties the flag, the batch's serial, the fence and the  *)
(* label together.  IInv adds those ties.                                  *)
(***************************************************************************)
EXTENDS AgcGxDraw, TLAPS

\* What an unfinished submission and its batch agree on.
Bound(e) ==
    /\ batches[e.slot].submitted
    /\ batches[e.slot].serial = e.fence
    /\ batches[e.slot].draws = e.draws
    /\ \A k \in DOMAIN e.draws : e.draws[k].res \in batches[e.slot].owners
    /\ e.fence > label
    /\ e.fence <= submittedSerial

\* Fences grow along the queue: each batch ends after the ones before it.
Ordered == \A i, j \in DOMAIN gpu : i < j => gpu[i].fence < gpu[j].fence

\* The open batch is the CPU's: the GPU has no reference to it, it owns what
\* its draws read, and its serial lies after every submitted one.
OpenOwn ==
    open # None =>
        /\ ~batches[open].submitted
        /\ \A k \in DOMAIN batches[open].draws :
               batches[open].draws[k].res \in batches[open].owners
        /\ batches[open].draws # <<>> => /\ batches[open].serial > submittedSerial
                                         /\ batches[open].serial <= serial

\* What each step of a call relies on.
CallOk ==
    /\ call.at # "idle" => storage = "live" /\ call.op # "none"
    /\ call.op = "none" => call.at = "idle"
    /\ call.op = "draw" => call.res \in Resource /\ serial < MaxSerial
    /\ call.at \in {"begin", "record"} => call.op = "draw"
    /\ call.at \in {"begin", "wait"} => open = None
    /\ call.at = "join" => call.op = "finish" /\ open = None
    /\ call.at = "retire" => open = None
    /\ call.at = "record" => open # None
    /\ call.at = "wait" => call.op \in {"draw", "finish"}
    /\ call.at = "wait" /\ call.op = "draw" => call.target = batches[cursor].serial

\* Serials only run ahead of submissions, and submissions of the label.
Ahead == label <= submittedSerial /\ submittedSerial <= serial

InFlight == \A i \in DOMAIN gpu : Bound(gpu[i])

IInv ==
    /\ TypeOK
    /\ Ahead
    /\ storage # "freed" => InFlight
    /\ storage = "freed" => gpu = <<>>
    /\ Ordered
    /\ OpenOwn
    /\ CallOk

-----------------------------------------------------------------------------
\* retire() returns batches of the same type; it changes nothing of an
\* unsubmitted batch and nothing of one the label has not passed, and it leaves
\* no batch submitted that the label has passed.
LEMMA RetiredFacts ==
    ASSUME NEW bs \in [Slot -> Batch], NEW done \in Nat
    PROVE  /\ Retired(bs, done) \in [Slot -> Batch]
           /\ \A s \in Slot :
                /\ Retired(bs, done)[s].draws = bs[s].draws
                /\ Retired(bs, done)[s].serial = bs[s].serial
                /\ Retired(bs, done)[s].overflow = bs[s].overflow
                /\ ~bs[s].submitted \/ bs[s].serial > done => Retired(bs, done)[s] = bs[s]
                /\ bs[s].serial <= done => ~Retired(bs, done)[s].submitted
<1> DEFINE R == Retired(bs, done)
<1>1. ASSUME NEW s \in Slot
      PROVE  /\ R[s] = IF bs[s].submitted /\ bs[s].serial <= done
                       THEN [bs[s] EXCEPT !.owners = {}, !.submitted = FALSE]
                       ELSE bs[s]
             /\ bs[s] \in Batch
  BY <1>1 DEF Retired
<1>2. ASSUME NEW s \in Slot PROVE R[s] \in Batch
  BY <1>1, <1>2 DEF Batch
<1>3. R \in [Slot -> Batch]
  BY <1>2 DEF Retired
<1>4. ASSUME NEW s \in Slot
      PROVE  /\ R[s].draws = bs[s].draws
             /\ R[s].serial = bs[s].serial
             /\ R[s].overflow = bs[s].overflow
             /\ ~bs[s].submitted \/ bs[s].serial > done => R[s] = bs[s]
             /\ bs[s].serial <= done => ~R[s].submitted
  <2>1. bs[s].serial \in Nat /\ bs[s].submitted \in BOOLEAN
    BY <1>1, <1>4 DEF Batch
  <2>2. CASE bs[s].submitted /\ bs[s].serial <= done
    <3>1. R[s] = [bs[s] EXCEPT !.owners = {}, !.submitted = FALSE]
      BY <1>1, <1>4, <2>2
    <3>2. /\ R[s].draws = bs[s].draws
          /\ R[s].serial = bs[s].serial
          /\ R[s].overflow = bs[s].overflow
      BY <1>1, <1>4, <3>1 DEF Batch
    <3>3. R[s].submitted = FALSE
      BY <1>1, <1>4, <3>1 DEF Batch
    <3> QED
      BY <2>1, <2>2, <3>2, <3>3
  <2>3. CASE ~(bs[s].submitted /\ bs[s].serial <= done)
    BY <1>1, <1>4, <2>1, <2>3
  <2> QED
    BY <2>2, <2>3
<1> QED
  BY <1>3, <1>4

LEMMA RecordedType ==
    ASSUME TypeOK
    PROVE  Recorded \in Seq(Draw) /\ SerialsOf(Recorded) \subseteq Nat
<1>1. Recorded \in Seq(Draw)
  BY DEF TypeOK, Recorded, Batch
<1>2. ASSUME NEW i \in DOMAIN Recorded PROVE Recorded[i].serial \in Nat
  <2>1. Recorded[i] \in Draw
    BY <1>1, <1>2
  <2> QED
    BY <2>1 DEF Draw
<1> QED
  BY <1>1, <1>2 DEF SerialsOf

\* Init and the invariant's own consequences.
LEMMA InitIInv == Init => IInv
<1> SUFFICES ASSUME Init PROVE IInv
  OBVIOUS
<1>1. Blank(0) \in Batch
  BY DEF Blank, Batch
<1>2. TypeOK
  <2>1. batches \in [Slot -> Batch]
    BY <1>1 DEF Init
  <2>2. call \in Call
    BY DEF Init, Call, Idle
  <2>3. cursor \in Slot /\ serial \in 0 .. MaxSerial /\ gpu \in Seq(Entry)
    BY ConstantsAssumption DEF Init, Slot
  <2> QED
    BY <2>1, <2>2, <2>3 DEF Init, TypeOK
<1>3. DOMAIN gpu = {} /\ Ahead
  BY DEF Init, Ahead
<1>4. OpenOwn /\ CallOk
  BY DEF Init, OpenOwn, CallOk, Idle
<1> QED
  BY <1>2, <1>3, <1>4 DEF Init, IInv, InFlight, Ordered

LEMMA IInvSafe == IInv => StorageStable /\ OwnersHeld /\ FreedOnlyIdle
<1> SUFFICES ASSUME IInv PROVE StorageStable /\ OwnersHeld /\ FreedOnlyIdle
  OBVIOUS
<1>1. CASE storage = "freed"
  BY <1>1 DEF IInv, StorageStable, OwnersHeld, FreedOnlyIdle
<1>2. CASE storage # "freed"
  BY <1>2 DEF IInv, InFlight, Bound, StorageStable, OwnersHeld, FreedOnlyIdle
<1> QED
  BY <1>1, <1>2

\* retire() touches neither an unfinished submission nor the open batch.
LEMMA RetireSafe ==
    ASSUME IInv, storage # "freed"
    PROVE  /\ Retired(batches, label) \in [Slot -> Batch]
           /\ \A i \in DOMAIN gpu :
                Retired(batches, label)[gpu[i].slot] = batches[gpu[i].slot]
           /\ open # None => Retired(batches, label)[open] = batches[open]
<1> USE DEF IInv, TypeOK
<1>1. ASSUME NEW i \in DOMAIN gpu
      PROVE  /\ gpu[i].slot \in Slot
             /\ batches[gpu[i].slot].serial > label
  <2>1. gpu[i] \in Entry
    BY <1>1
  <2> QED
    BY <1>1, <2>1 DEF InFlight, Bound, Entry
<1>2. open # None => open \in Slot /\ ~batches[open].submitted
  BY DEF OpenOwn
<1> QED
  BY <1>1, <1>2, RetiredFacts

\* A step that keeps the queue and the label, and every batch the GPU refers
\* to, keeps what ties them together.
LEMMA Undisturbed ==
    ASSUME IInv, storage' = storage, storage # "freed",
           gpu' = gpu, label' = label, submittedSerial' = submittedSerial,
           \A i \in DOMAIN gpu : batches'[gpu[i].slot] = batches[gpu[i].slot]
    PROVE  InFlight' /\ Ordered'
<1>1. ASSUME NEW i \in DOMAIN gpu' PROVE Bound(gpu[i])'
  BY <1>1 DEF IInv, InFlight, Bound
<1>2. InFlight'
  BY <1>1 DEF InFlight
<1> QED
  BY <1>2 DEF IInv, Ordered

LEMMA CallsKeepIInv ==
    ASSUME IInv, \/ \E r \in Resource : CallDraw(r)
                 \/ CallSubmit
                 \/ CallFinish
    PROVE  IInv'
<1> USE DEF IInv, TypeOK, queueVars, history
<1>1. /\ UNCHANGED <<queueVars, label, gpu, storage, history>>
      /\ storage = "live" /\ call.op = "none"
  BY DEF CallDraw, CallSubmit, CallFinish, Idle
<1>2. call' \in Call /\ CallOk'
  <2>1. CASE \E r \in Resource : CallDraw(r)
    BY <1>1, <2>1 DEF CallDraw, Call, CallOk
  <2>2. CASE CallSubmit \/ CallFinish
    BY <1>1, <2>2 DEF CallSubmit, CallFinish, Call, CallOk, Idle
  <2> QED
    BY <2>1, <2>2
<1>3. TypeOK' /\ Ahead' /\ OpenOwn'
  BY <1>1, <1>2 DEF Ahead, OpenOwn
<1>4. InFlight' /\ Ordered'
  BY <1>1, Undisturbed
<1> QED
  BY <1>1, <1>2, <1>3, <1>4

LEMMA AfterSubmitOk ==
    ASSUME IInv, AfterSubmit, call.at \in {"submit", "retire"},
           storage' = storage, serial' = serial, cursor' = cursor, open' = None
    PROVE  call' \in Call /\ CallOk'
<1> USE DEF IInv, TypeOK, Call, CallOk
<1>1. CASE call.op = "draw"
  <2>1. call' = [call EXCEPT !.at = "begin"]
    BY <1>1 DEF AfterSubmit
  <2>2. call'.at = "begin" /\ call'.op = "draw" /\ call'.res = call.res
    BY <1>1, <2>1
  <2> QED
    BY <1>1, <2>1, <2>2
<1>2. CASE call.op = "submit"
  <2>1. call' = Idle
    BY <1>2 DEF AfterSubmit, Return
  <2> QED
    BY <2>1 DEF Idle
<1>3. CASE call.op = "finish"
  <2>1. call' = [call EXCEPT !.at = "join"]
    BY <1>3 DEF AfterSubmit
  <2>2. call'.at = "join" /\ call'.op = "finish"
    BY <1>3, <2>1
  <2> QED
    BY <1>3, <2>1, <2>2
<1> QED
  BY <1>1, <1>2, <1>3

\* The steps of submit_open(): the batch that joins the queue was not in it, and
\* its fence lies after every other one.
LEMMA SubmitKeepsIInv ==
    ASSUME IInv, \/ SubmitNothing \/ SubmitOverflowed
                 \/ SubmitAccepted \/ SubmitFailed
    PROVE  IInv'
<1> USE DEF IInv, TypeOK, history
<1>1. /\ call.at = "submit" /\ storage = "live" /\ storage' = storage
      /\ label' = label /\ serial' = serial /\ cursor' = cursor /\ open' = None
      /\ executed' = executed
  BY DEF SubmitNothing, SubmitOverflowed, SubmitAccepted, SubmitFailed, AtSubmit,
         CanSubmit, MarkSubmitted, CallOk
<1>2. call' \in Call /\ CallOk'
  <2>1. CASE AfterSubmit
    BY <1>1, <2>1, AfterSubmitOk
  <2>2. CASE call' = Idle
    BY <1>1, <2>2 DEF Call, CallOk, Idle
  <2>3. CASE call' = [call EXCEPT !.at = "retire"]
    BY <1>1, <2>3 DEF Call, CallOk
  <2> QED
    BY <2>1, <2>2, <2>3 DEF SubmitNothing, SubmitOverflowed, SubmitAccepted, SubmitFailed, Return
<1>3. discarded' \subseteq Nat /\ OpenOwn'
  BY <1>1, RecordedType DEF SubmitNothing, SubmitOverflowed, SubmitAccepted, SubmitFailed, OpenOwn
<1>4. CASE SubmitNothing \/ SubmitOverflowed
  <2>1. UNCHANGED <<batches, gpu, submittedSerial, failed>>
    BY <1>4 DEF SubmitNothing, SubmitOverflowed
  <2>2. InFlight' /\ Ordered'
    BY <1>1, <2>1, Undisturbed
  <2> QED
    BY <1>1, <1>2, <1>3, <2>1, <2>2 DEF Ahead
<1>5. CASE SubmitAccepted \/ SubmitFailed
  <2> DEFINE BoundNext(x) ==
               /\ batches'[x.slot].submitted
               /\ batches'[x.slot].serial = x.fence
               /\ batches'[x.slot].draws = x.draws
               /\ \A k \in DOMAIN x.draws : x.draws[k].res \in batches'[x.slot].owners
               /\ x.fence > label'
               /\ x.fence <= submittedSerial'
             e == [slot |-> open, fence |-> batches[open].serial, draws |-> batches[open].draws]
  <2>1. /\ open \in Slot /\ open # None /\ batches[open] \in Batch
        /\ batches[open].draws # <<>> /\ batches[open].submitted = FALSE
        /\ Recorded = batches[open].draws
    BY <1>5 DEF SubmitAccepted, SubmitFailed, CanSubmit, Recorded, OpenOwn, Batch
  <2>2. /\ batches[open].serial \in Nat
        /\ batches[open].draws \in Seq(Draw)
        /\ batches[open].serial > submittedSerial
        /\ batches[open].serial <= serial
        /\ \A k \in DOMAIN batches[open].draws :
             batches[open].draws[k].res \in batches[open].owners
    BY <2>1 DEF Batch, OpenOwn
  <2>3. /\ batches' = [batches EXCEPT ![open].submitted = TRUE]
        /\ submittedSerial' = batches[open].serial
        /\ gpu' = gpu \/ gpu' = Append(gpu, e)
        /\ failed' \in BOOLEAN
    BY <1>5, <2>1 DEF SubmitAccepted, SubmitFailed, MarkSubmitted, Enqueue, Fence
  <2>4. /\ batches'[open] = [batches[open] EXCEPT !.submitted = TRUE]
        /\ \A s \in Slot \ {open} : batches'[s] = batches[s]
    BY <2>1, <2>3
  <2>5. /\ batches'[open] \in Batch
        /\ batches'[open].submitted = TRUE
        /\ batches'[open].serial = batches[open].serial
        /\ batches'[open].draws = batches[open].draws
        /\ batches'[open].owners = batches[open].owners
    BY <2>1, <2>4 DEF Batch
  <2>6. batches' \in [Slot -> Batch]
    BY <2>3, <2>4, <2>5
  <2>7. ASSUME NEW i \in DOMAIN gpu
        PROVE  /\ gpu[i] \in Entry /\ Bound(gpu[i]) /\ BoundNext(gpu[i])
               /\ gpu[i].fence < batches[open].serial
    <3>1. gpu[i] \in Entry /\ Bound(gpu[i])
      BY <1>1, <2>7 DEF InFlight
    <3>2. gpu[i].slot \in Slot \ {open}
      BY <2>1, <3>1 DEF Bound, Entry
    <3>3. batches'[gpu[i].slot] = batches[gpu[i].slot]
      BY <2>4, <3>2
    <3> QED
      BY <1>1, <2>2, <2>3, <3>1, <3>2, <3>3 DEF Bound, Ahead, Entry
  <2>8. e \in Entry /\ e.slot = open /\ e.fence = batches[open].serial /\ e.draws = batches[open].draws
    BY <2>1, <2>2 DEF Entry
  <2>9. BoundNext(e)
    BY <1>1, <2>1, <2>2, <2>3, <2>5, <2>8 DEF Ahead
  <2>10. gpu' \in Seq(Entry) /\ InFlight' /\ Ordered'
    <3>1. CASE gpu' = gpu
      <4>1. ASSUME NEW i \in DOMAIN gpu' PROVE Bound(gpu[i])'
        BY <2>7, <3>1, <4>1 DEF Bound
      <4>2. InFlight'
        BY <4>1 DEF InFlight
      <4> QED
        BY <3>1, <4>2 DEF Ordered
    <3>2. CASE gpu' = Append(gpu, e)
      <4>1. /\ gpu' \in Seq(Entry)
            /\ DOMAIN gpu' = 1 .. Len(gpu) + 1
            /\ \A i \in 1 .. Len(gpu) : gpu'[i] = gpu[i]
            /\ gpu'[Len(gpu) + 1] = e
            /\ DOMAIN gpu = 1 .. Len(gpu) /\ Len(gpu) \in Nat
        BY <2>8, <3>2
      <4>2. ASSUME NEW i \in DOMAIN gpu' PROVE BoundNext(gpu'[i])
        <5>1. CASE i \in DOMAIN gpu
          BY <2>7, <4>1, <5>1
        <5>2. CASE i = Len(gpu) + 1
          BY <2>9, <4>1, <5>2
        <5> QED
          BY <4>1, <4>2, <5>1, <5>2
      <4>3. InFlight'
        <5>1. ASSUME NEW i \in DOMAIN gpu' PROVE Bound(gpu[i])'
          BY <4>2, <5>1 DEF Bound
        <5> QED
          BY <5>1 DEF InFlight
      <4>4. ASSUME NEW i \in DOMAIN gpu', NEW j \in DOMAIN gpu', i < j
            PROVE  gpu'[i].fence < gpu'[j].fence
        <5>1. i \in DOMAIN gpu
          BY <4>1, <4>4
        <5>2. CASE j \in DOMAIN gpu
          BY <4>1, <4>4, <5>1, <5>2 DEF Ordered
        <5>3. CASE j = Len(gpu) + 1
          BY <2>7, <2>8, <4>1, <5>1, <5>3
        <5> QED
          BY <4>1, <4>4, <5>2, <5>3
      <4> QED
        BY <4>1, <4>3, <4>4 DEF Ordered
    <3> QED
      BY <2>3, <3>1, <3>2
  <2>11. Ahead' /\ submittedSerial' \in Nat
    BY <1>1, <2>2, <2>3 DEF Ahead
  <2> QED
    BY <1>1, <1>2, <1>3, <2>3, <2>6, <2>10, <2>11
<1> QED
  BY <1>4, <1>5

\* Rewinding the ring position `cursor`, or giving it up, once retire() has run
\* and left it unsubmitted: no unfinished submission is there.
LEMMA BeginKeepsIInv ==
    ASSUME IInv, NEW bs, bs = Retired(batches, label),
           storage = "live", call.op = "draw", ~bs[cursor].submitted,
           Rewind(bs) \/ (GrowFails(bs) /\ open = None),
           UNCHANGED <<serial, submittedSerial, failed, label, gpu, storage, history>>
    PROVE  IInv'
<1> USE DEF IInv, TypeOK, history
<1>1. /\ bs \in [Slot -> Batch]
      /\ \A i \in DOMAIN gpu : bs[gpu[i].slot] = batches[gpu[i].slot]
  BY RetireSafe
<1>2. ASSUME NEW i \in DOMAIN gpu PROVE gpu[i].slot \in Slot \ {cursor}
  <2>1. gpu[i] \in Entry /\ Bound(gpu[i])
    BY <1>2 DEF InFlight
  <2> QED
    BY <1>1, <1>2, <2>1 DEF Bound, Entry
<1>3. bs[cursor] \in Batch /\ cursor \in Slot
  BY <1>1
<1>4. CASE Rewind(bs)
  <2> DEFINE fresh == Blank(bs[cursor].serial)
  <2>1. fresh \in Batch /\ fresh.submitted = FALSE /\ fresh.draws = <<>>
    <3>1. bs[cursor].serial \in Nat
      BY <1>3 DEF Batch
    <3> QED
      BY <3>1 DEF Blank, Batch
  <2>2. /\ batches' = [bs EXCEPT ![cursor] = fresh]
        /\ open' = cursor
        /\ cursor' = (cursor + 1) % InFlightSlots
        /\ call' = [call EXCEPT !.at = "record"]
    BY <1>4 DEF Rewind
  <2>3. batches' \in [Slot -> Batch] /\ batches'[cursor] = fresh
    BY <1>1, <1>3, <2>1, <2>2
  <2>4. InFlight' /\ Ordered'
    <3>1. \A i \in DOMAIN gpu : batches'[gpu[i].slot] = batches[gpu[i].slot]
      BY <1>1, <1>2, <2>2
    <3> QED
      BY <3>1, Undisturbed
  <2>5. cursor' \in Slot
    BY <1>3, <2>2, ConstantsAssumption DEF Slot
  <2>6. call' \in Call /\ call'.at = "record" /\ call'.op = "draw" /\ call'.res = call.res
    BY <2>2 DEF Call
  <2>7. CallOk'
    BY <1>3, <2>2, <2>6, ConstantsAssumption DEF CallOk, Slot
  <2>8. OpenOwn'
    BY <2>1, <2>2, <2>3 DEF OpenOwn
  <2> QED
    BY <1>3, <2>2, <2>3, <2>4, <2>5, <2>6, <2>7, <2>8 DEF Ahead
<1>5. CASE GrowFails(bs) /\ open = None
  <2> DEFINE dropped == [bs[cursor] EXCEPT !.owners = {}]
  <2>1. /\ batches' = [bs EXCEPT ![cursor] = dropped]
        /\ open' = None /\ cursor' = cursor /\ call' = Idle
    BY <1>5 DEF GrowFails, Return
  <2>2. dropped \in Batch
    BY <1>3 DEF Batch
  <2>3. batches' \in [Slot -> Batch]
    BY <1>1, <1>3, <2>1, <2>2
  <2>4. InFlight' /\ Ordered'
    <3>1. \A i \in DOMAIN gpu : batches'[gpu[i].slot] = batches[gpu[i].slot]
      BY <1>1, <1>2, <2>1
    <3> QED
      BY <3>1, Undisturbed
  <2>5. call' \in Call /\ CallOk' /\ OpenOwn'
    BY <2>1 DEF Call, CallOk, Idle, OpenOwn
  <2> QED
    BY <2>1, <2>3, <2>4, <2>5 DEF Ahead
<1> QED
  BY <1>4, <1>5

\* A step that only retires batches, and may end or advance its call.
LEMMA RetireKeepsIInv ==
    ASSUME IInv, storage = "live",
           batches' = Retired(batches, label) \/ batches' = batches,
           UNCHANGED <<open, cursor, serial, submittedSerial, label, gpu, storage, history>>,
           failed' \in BOOLEAN,
           call' \in Call, CallOk'
    PROVE  IInv'
<1> USE DEF IInv, TypeOK, history
<1>1. /\ batches' \in [Slot -> Batch]
      /\ \A i \in DOMAIN gpu : batches'[gpu[i].slot] = batches[gpu[i].slot]
      /\ open # None => batches'[open] = batches[open]
  BY RetireSafe
<1>2. InFlight' /\ Ordered'
  BY <1>1, Undisturbed
<1>3. OpenOwn'
  BY <1>1 DEF OpenOwn
<1> QED
  BY <1>1, <1>2, <1>3 DEF Ahead

LEMMA WaitKeepsIInv ==
    ASSUME IInv, \/ RetireSubmitted \/ BeginBatch \/ Join
                 \/ WaitDone \/ WaitTimeout \/ WaitInterrupted
    PROVE  IInv'
<1> USE DEF IInv, TypeOK
<1>1. storage = "live" /\ storage' = storage
  BY DEF RetireSubmitted, BeginBatch, Join, WaitDone, WaitTimeout, WaitInterrupted, CallOk
<1>2. CASE RetireSubmitted
  <2>1. call.at = "retire" /\ open = None /\ UNCHANGED <<open, cursor, serial>> /\ AfterSubmit
    BY <1>2 DEF RetireSubmitted, CallOk
  <2>2. call' \in Call /\ CallOk'
    BY <1>1, <2>1, AfterSubmitOk
  <2> QED
    BY <1>1, <1>2, <2>2, RetireKeepsIInv DEF RetireSubmitted, history
<1>3. CASE BeginBatch
  <2> DEFINE bs == Retired(batches, label)
  <2>1. call.at = "begin" /\ call.op = "draw" /\ UNCHANGED <<serial, submittedSerial, failed, label, gpu, storage, history>>
    BY <1>3 DEF BeginBatch, CallOk
  <2>2. CASE ~SlotBusy(bs[cursor]) /\ (Rewind(bs) \/ GrowFails(bs))
    BY <1>1, <2>1, <2>2, BeginKeepsIInv DEF SlotBusy, CallOk
  <2>3. CASE /\ SlotBusy(bs[cursor])
             /\ batches' = bs
             /\ call' = [call EXCEPT !.at = "wait", !.target = bs[cursor].serial]
             /\ UNCHANGED <<open, cursor>>
    <3>1. bs[cursor].serial \in Nat /\ bs \in [Slot -> Batch]
      BY <1>1, RetireSafe DEF Batch
    <3>2. /\ call' \in Call /\ call'.at = "wait" /\ call'.op = "draw"
          /\ call'.res = call.res /\ call'.target = bs[cursor].serial
      BY <2>1, <2>3, <3>1 DEF Call
    <3>3. CallOk'
      BY <1>1, <2>1, <2>3, <3>2 DEF CallOk
    <3> QED
      BY <1>1, <2>1, <2>3, <3>2, <3>3, RetireKeepsIInv
  <2> QED
    BY <1>3, <2>2, <2>3 DEF BeginBatch
<1>4. CASE Join
  <2>1. /\ call.at = "join"
        /\ UNCHANGED <<open, cursor, serial, submittedSerial, failed, label, gpu, storage, history>>
        /\ batches' = Retired(batches, label) \/ batches' = batches
        /\ call' = Idle \/ call' = [call EXCEPT !.at = "wait", !.target = submittedSerial]
    BY <1>4 DEF Join, Return
  <2>2. call.op = "finish" /\ open = None
    BY <2>1 DEF CallOk
  <2>3. call' \in Call /\ CallOk'
    <3>1. CASE call' = Idle
      BY <3>1 DEF CallOk, Call, Idle
    <3>2. CASE call' = [call EXCEPT !.at = "wait", !.target = submittedSerial]
      <4>1. call' \in Call /\ call'.at = "wait" /\ call'.op = "finish"
        BY <2>2, <3>2 DEF Call
      <4> QED
        BY <1>1, <2>1, <2>2, <4>1 DEF CallOk
    <3> QED
      BY <2>1, <3>1, <3>2
  <2> QED
    BY <1>1, <2>1, <2>3, RetireKeepsIInv
<1>5. CASE WaitDone
  <2> DEFINE bs == Retired(batches, label)
  <2>1. /\ call.at = "wait" /\ label >= call.target
        /\ UNCHANGED <<serial, submittedSerial, failed, label, gpu, storage, history>>
    BY <1>5 DEF WaitDone
  <2>2. CASE call.op = "draw" /\ (Rewind(bs) \/ GrowFails(bs))
    <3>1. batches[cursor].serial <= label /\ cursor \in Slot
      BY <2>1, <2>2 DEF CallOk
    <3>2. ~bs[cursor].submitted
      BY <3>1, RetiredFacts
    <3> QED
      BY <1>1, <2>1, <2>2, <3>2, BeginKeepsIInv DEF CallOk
  <2>3. CASE /\ call.op = "finish" /\ batches' = bs /\ Return
             /\ UNCHANGED <<open, cursor>>
    <3>1. call' \in Call /\ CallOk'
      BY <2>3 DEF Return, Call, CallOk, Idle
    <3> QED
      BY <1>1, <2>1, <2>3, <3>1, RetireKeepsIInv
  <2> QED
    BY <1>5, <2>2, <2>3 DEF WaitDone
<1>6. CASE WaitTimeout
  <2>1. call' \in Call /\ CallOk'
    BY <1>6 DEF WaitTimeout, Return, Call, CallOk, Idle
  <2> QED
    BY <1>1, <1>6, <2>1, RetireKeepsIInv DEF WaitTimeout
<1>7. CASE WaitInterrupted
  <2>1. call' \in Call /\ CallOk'
    BY <1>7 DEF WaitInterrupted, Return, Call, CallOk, Idle, queueVars
  <2> QED
    BY <1>1, <1>7, <2>1, RetireKeepsIInv DEF WaitInterrupted, queueVars, history
<1> QED
  BY <1>2, <1>3, <1>4, <1>5, <1>6, <1>7

\* Recording writes the open batch only, and no submission refers to it.
LEMMA RecordKeepsIInv ==
    ASSUME IInv, Record \/ RecordOverflows
    PROVE  IInv'
<1> USE DEF IInv, TypeOK, history
<1>1. /\ call.at = "record" /\ call.op = "draw" /\ call.res \in Resource
      /\ open # None /\ open \in Slot /\ storage = "live" /\ serial < MaxSerial
      /\ call' = Idle
      /\ UNCHANGED <<open, cursor, submittedSerial, failed, label, gpu, storage, executed, discarded>>
  BY DEF Record, RecordOverflows, CallOk, Return
<1>2. /\ batches[open] \in Batch /\ batches[open].submitted = FALSE
      /\ \A k \in DOMAIN batches[open].draws :
           batches[open].draws[k].res \in batches[open].owners
      /\ batches[open].draws # <<>> => /\ batches[open].serial > submittedSerial
                                       /\ batches[open].serial <= serial
  BY <1>1 DEF OpenOwn, Batch
<1>3. call' \in Call /\ CallOk'
  BY <1>1 DEF Call, CallOk, Idle
<1>4. ASSUME \A s \in Slot \ {open} : batches'[s] = batches[s]
      PROVE  InFlight' /\ Ordered'
  <2>1. ASSUME NEW i \in DOMAIN gpu PROVE gpu[i].slot \in Slot \ {open}
    <3>1. gpu[i] \in Entry /\ Bound(gpu[i])
      BY <1>1, <2>1 DEF InFlight
    <3> QED
      BY <1>2, <3>1 DEF Bound, Entry
  <2>2. \A i \in DOMAIN gpu : batches'[gpu[i].slot] = batches[gpu[i].slot]
    BY <1>4, <2>1
  <2> QED
    BY <1>1, <2>2, Undisturbed
<1>5. CASE Record
  <2> DEFINE d == [serial |-> serial + 1, res |-> call.res]
             b == [batches[open] EXCEPT !.draws = Append(@, d),
                                        !.owners = @ \union {call.res},
                                        !.serial = serial + 1]
  <2>1. serial' = serial + 1 /\ serial' \in 0 .. MaxSerial /\ serial \in Nat
    BY <1>1, <1>5, ConstantsAssumption DEF Record
  <2>2. batches' = [batches EXCEPT ![open].draws = Append(@, d),
                                   ![open].owners = @ \union {call.res},
                                   ![open].serial = serial + 1]
    BY <1>5 DEF Record
  <2>3. batches'[open] = b /\ \A s \in Slot \ {open} : batches'[s] = batches[s]
    BY <1>1, <2>2
  <2>4. d \in Draw /\ d.res = call.res
    BY <1>1, <2>1 DEF Draw
  <2>5. /\ b.draws = Append(batches[open].draws, d)
        /\ b.owners = batches[open].owners \union {call.res}
        /\ b.serial = serial + 1
        /\ b.submitted = FALSE
        /\ b \in Batch
    <3>1. /\ batches[open].draws \in Seq(Draw) /\ batches[open].owners \subseteq Resource
          /\ batches[open].overflow \in BOOLEAN
      BY <1>2 DEF Batch
    <3>2. /\ b.draws = Append(batches[open].draws, d)
          /\ b.owners = batches[open].owners \union {call.res}
          /\ b.serial = serial + 1
          /\ b.submitted = FALSE
      BY <1>2 DEF Batch
    <3> HIDE DEF d
    <3>3. Append(batches[open].draws, d) \in Seq(Draw)
      BY <2>4, <3>1
    <3>4. batches[open].owners \union {call.res} \subseteq Resource
      BY <1>1, <3>1
    <3>5. serial + 1 \in Nat
      BY <2>1
    <3>6. b \in Batch
      BY <1>2, <3>3, <3>4, <3>5 DEF Batch
    <3> QED
      BY <3>2, <3>6
  <2>6. batches' \in [Slot -> Batch]
    BY <1>1, <2>2, <2>3, <2>5
  <2>7. ASSUME NEW k \in DOMAIN b.draws PROVE b.draws[k].res \in b.owners
    <3> DEFINE old == batches[open].draws
    <3>1. old \in Seq(Draw)
      BY <1>2 DEF Batch
    <3> HIDE DEF d, b, old
    <3>2. k \in 1 .. Len(old) + 1 /\ Len(old) \in Nat
      BY <2>4, <2>5, <2>7, <3>1 DEF old
    <3>3. CASE k \in 1 .. Len(old)
      <4>1. b.draws[k] = old[k] /\ k \in DOMAIN old
        BY <2>4, <2>5, <3>1, <3>3 DEF old
      <4> QED
        BY <1>2, <2>5, <4>1 DEF old
    <3>4. CASE k = Len(old) + 1
      <4>1. b.draws[k] = d
        BY <2>4, <2>5, <3>1, <3>4 DEF old
      <4> QED
        BY <2>4, <2>5, <4>1
    <3> QED
      BY <3>2, <3>3, <3>4
  <2>8. OpenOwn'
    <3> HIDE DEF b
    <3> QED
      BY <1>1, <2>1, <2>3, <2>5, <2>7 DEF OpenOwn, Ahead
  <2> QED
    BY <1>1, <1>3, <1>4, <2>1, <2>3, <2>6, <2>8 DEF Ahead
<1>6. CASE RecordOverflows
  <2> DEFINE b == [batches[open] EXCEPT !.overflow = TRUE]
  <2>1. batches' = [batches EXCEPT ![open].overflow = TRUE] /\ serial' = serial
    BY <1>6 DEF RecordOverflows
  <2>2. batches'[open] = b /\ \A s \in Slot \ {open} : batches'[s] = batches[s]
    BY <1>1, <2>1
  <2>3. /\ b.draws = batches[open].draws /\ b.owners = batches[open].owners
        /\ b.serial = batches[open].serial /\ b.submitted = FALSE /\ b \in Batch
    BY <1>2 DEF Batch
  <2>4. batches' \in [Slot -> Batch]
    BY <1>1, <2>1, <2>2, <2>3
  <2>5. OpenOwn'
    <3> HIDE DEF b
    <3> QED
      BY <1>1, <1>2, <2>1, <2>2, <2>3 DEF OpenOwn
  <2> QED
    BY <1>1, <1>3, <1>4, <2>1, <2>2, <2>4, <2>5 DEF Ahead
<1> QED
  BY <1>5, <1>6

\* With every submission behind the label, the GPU refers to nothing.
LEMMA DestroyKeepsIInv ==
    ASSUME IInv, Destroy
    PROVE  IInv'
<1> USE DEF IInv, TypeOK
<1>1. /\ storage = "live" /\ call = Idle
      /\ UNCHANGED <<cursor, serial, submittedSerial, failed, label, gpu, call, executed>>
  BY DEF Destroy
<1>2. CallOk' /\ Ahead' /\ Ordered'
  BY <1>1 DEF CallOk, Ahead, Ordered, Idle
<1>3. CASE Pending /\ storage' = "retained" /\ UNCHANGED <<batches, open, discarded>>
  <2>1. ASSUME NEW i \in DOMAIN gpu' PROVE Bound(gpu[i])'
    BY <1>1, <1>3, <2>1 DEF InFlight, Bound
  <2>2. InFlight'
    BY <2>1 DEF InFlight
  <2> QED
    BY <1>1, <1>2, <1>3, <2>2 DEF OpenOwn
<1>4. CASE /\ ~Pending
           /\ storage' = "freed"
           /\ batches' = [s \in Slot |-> Blank(0)]
           /\ open' = None
           /\ discarded' = discarded \union SerialsOf(Recorded)
  <2>1. ASSUME gpu # <<>> PROVE FALSE
    <3>1. 1 \in DOMAIN gpu
      BY <2>1
    <3>2. Bound(gpu[1]) /\ gpu[1] \in Entry
      BY <1>1, <3>1 DEF InFlight
    <3> QED
      BY <1>4, <3>2 DEF Bound, Pending, Entry
  <2>2. Blank(0) \in Batch
    BY DEF Blank, Batch
  <2>3. discarded' \subseteq Nat
    BY <1>4, RecordedType
  <2> QED
    BY <1>1, <1>2, <1>4, <2>1, <2>2, <2>3 DEF OpenOwn
<1> QED
  BY <1>3, <1>4 DEF Destroy

\* The label moves to the fence of the oldest submission: every other one lies
\* ahead of it.
LEMMA GpuKeepsIInv ==
    ASSUME IInv, GpuEnd
    PROVE  IInv'
<1> USE DEF IInv, TypeOK
<1>1. /\ gpu # <<>> /\ storage # "freed"
      /\ UNCHANGED <<queueVars, call, storage, discarded>>
      /\ label' = gpu[1].fence /\ gpu' = Tail(gpu)
  BY DEF GpuEnd
<1>2. /\ Len(gpu) \in Nat \ {0} /\ DOMAIN gpu = 1 .. Len(gpu)
      /\ gpu' \in Seq(Entry) /\ DOMAIN gpu' = 1 .. Len(gpu) - 1
      /\ \A i \in 1 .. Len(gpu) - 1 : gpu'[i] = gpu[i + 1]
  BY <1>1
<1>3. ASSUME NEW i \in DOMAIN gpu PROVE gpu[i] \in Entry /\ Bound(gpu[i])
  BY <1>1, <1>3 DEF InFlight
<1>4. gpu[1] \in Entry /\ Bound(gpu[1])
  BY <1>2, <1>3
<1>5. label' \in Nat /\ label' <= submittedSerial
  BY <1>1, <1>4 DEF Entry, Bound
<1>6. ASSUME NEW i \in DOMAIN gpu' PROVE Bound(gpu[i])'
  <2>1. i + 1 \in DOMAIN gpu /\ 1 \in DOMAIN gpu /\ 1 < i + 1 /\ gpu'[i] = gpu[i + 1]
    BY <1>2, <1>6
  <2>2. Bound(gpu[i + 1]) /\ gpu[1].fence < gpu[i + 1].fence
    BY <1>3, <2>1 DEF Ordered
  <2> QED
    BY <1>1, <2>1, <2>2 DEF Bound, queueVars
<1>7. InFlight'
  BY <1>6 DEF InFlight
<1>8. ASSUME NEW i \in DOMAIN gpu', NEW j \in DOMAIN gpu', i < j
      PROVE  gpu'[i].fence < gpu'[j].fence
  <2>1. i + 1 \in DOMAIN gpu /\ j + 1 \in DOMAIN gpu /\ i + 1 < j + 1
    BY <1>2, <1>8
  <2> QED
    BY <1>2, <1>8, <2>1 DEF Ordered
<1>9. Ordered'
  BY <1>8 DEF Ordered
<1>10. executed' \subseteq Nat
  <2>1. batches[gpu[1].slot].draws \in Seq(Draw)
    BY <1>4 DEF Entry, Batch
  <2>2. ASSUME NEW i \in DOMAIN batches[gpu[1].slot].draws
        PROVE  batches[gpu[1].slot].draws[i].serial \in Nat
    <3>1. batches[gpu[1].slot].draws[i] \in Draw
      BY <2>1, <2>2
    <3> QED
      BY <3>1 DEF Draw
  <2>3. executed' = executed \union SerialsOf(batches[gpu[1].slot].draws)
    BY <1>1 DEF GpuEnd
  <2> QED
    BY <2>2, <2>3 DEF SerialsOf
<1>11. OpenOwn' /\ CallOk' /\ Ahead'
  BY <1>1, <1>5 DEF OpenOwn, CallOk, Ahead, queueVars
<1> QED
  BY <1>1, <1>2, <1>5, <1>7, <1>9, <1>10, <1>11 DEF queueVars

-----------------------------------------------------------------------------
LEMMA StutterKeepsIInv == ASSUME IInv, UNCHANGED vars PROVE IInv'
<1> USE DEF vars, queueVars, history
<1>1. InFlight => InFlight'
  BY DEF InFlight, Bound
<1>2. OpenOwn => OpenOwn'
  BY DEF OpenOwn
<1>3. CallOk => CallOk'
  BY DEF CallOk
<1> QED
  BY <1>1, <1>2, <1>3 DEF IInv, TypeOK, Ahead, Ordered

LEMMA NextKeepsIInv == IInv /\ [Next]_vars => IInv'
<1> SUFFICES ASSUME IInv, [Next]_vars PROVE IInv'
  OBVIOUS
<1>1. CASE (\E r \in Resource : CallDraw(r)) \/ CallSubmit \/ CallFinish
  BY <1>1, CallsKeepIInv
<1>2. CASE SubmitNothing \/ SubmitOverflowed \/ SubmitAccepted \/ SubmitFailed
  BY <1>2, SubmitKeepsIInv
<1>3. CASE RetireSubmitted \/ BeginBatch \/ Join \/ WaitDone \/ WaitTimeout \/ WaitInterrupted
  BY <1>3, WaitKeepsIInv
<1>4. CASE Record \/ RecordOverflows
  BY <1>4, RecordKeepsIInv
<1>5. CASE Destroy
  BY <1>5, DestroyKeepsIInv
<1>6. CASE GpuEnd
  BY <1>6, GpuKeepsIInv
<1>7. CASE UNCHANGED vars
  BY <1>7, StutterKeepsIInv
<1> QED
  BY <1>1, <1>2, <1>3, <1>4, <1>5, <1>6, <1>7 DEF Next, CallStep

\* The inductive invariant holds in every reachable state.
THEOREM Invariance == Spec => []IInv
<1> QED
  BY InitIInv, NextKeepsIInv, PTL DEF Spec

\* Every variable keeps its type, and no draw gets a serial past the limit.
THEOREM TypeCorrect == Spec => []TypeOK
<1>1. IInv => TypeOK
  BY DEF IInv
<1> QED
  BY <1>1, Invariance, PTL

\* No batch storage is rewritten while the GPU may read it, and what an
\* unfinished submission reads through is owned until its fence.
THEOREM InFlightSafe == Spec => []InFlightIntact
<1>1. IInv => InFlightIntact
  BY IInvSafe DEF InFlightIntact
<1> QED
  BY <1>1, Invariance, PTL

\* The destructor frees the storage only of an idle queue.
THEOREM DestructionSafe == Spec => []FreedOnlyIdle
  BY Invariance, IInvSafe, PTL

-----------------------------------------------------------------------------
(* The stream of draws.  IInv says nothing of which serials a batch carries *)
(* or of what becomes of them; SInv accounts for every serial.              *)

\* A failed queue has no call in progress: it refuses them.
Refusing == failed => call.at = "idle"

\* The serials an unfinished submission carries follow those of the one before
\* it, and the open batch's follow every submitted one, but for what was lost.
Before(i) == IF i = 1 THEN label ELSE gpu[i - 1].fence

Consecutive ==
    /\ \A i \in DOMAIN gpu :
          SerialsOf(gpu[i].draws) = (Before(i) + 1 .. gpu[i].fence) \ discarded
    /\ SerialsOf(Recorded) = (submittedSerial + 1 .. serial) \ discarded
    /\ Recorded # <<>> => batches[open].serial = serial
    /\ ~failed => submittedSerial = Before(Len(gpu) + 1)

\* What the label has passed has run, or its loss was reported; only accepted
\* draws are lost.
Settled ==
    /\ 1 .. label \subseteq executed \union discarded
    /\ discarded \subseteq 1 .. serial

\* A batch's serial is its last draw's, and the submitted ones are counted.
Dated ==
    \A s \in Slot :
        /\ \A k \in DOMAIN batches[s].draws : batches[s].draws[k].serial <= batches[s].serial
        /\ batches[s].submitted => batches[s].serial <= submittedSerial

\* A batch that is neither open nor submitted owns nothing but lost draws'.
Loose ==
    \A s \in Slot \ {open} : ~batches[s].submitted =>
        \A k \in DOMAIN batches[s].draws :
            batches[s].draws[k].res \in batches[s].owners => batches[s].draws[k].serial \in discarded

\* finish() waits for the last submission.
Joining == call.at = "wait" /\ call.op = "finish" => call.target = submittedSerial

SInv == IInv /\ Refusing /\ Consecutive /\ Settled /\ Dated /\ Loose /\ Joining

LEMMA SInvFacts ==
    ASSUME SInv
    PROVE  /\ serial \in Nat /\ submittedSerial \in Nat /\ label \in Nat
           /\ label <= submittedSerial /\ submittedSerial <= serial
           /\ gpu \in Seq(Entry) /\ Recorded \in Seq(Draw)
           /\ None \notin Slot /\ (open # None => open \in Slot)
           /\ \A s \in Slot : /\ batches[s] \in Batch /\ batches[s].draws \in Seq(Draw)
                              /\ batches[s].serial \in Nat /\ batches[s].submitted \in BOOLEAN
<1>1. serial \in Nat
  BY ConstantsAssumption DEF SInv, IInv, TypeOK
<1>2. \A s \in Slot : batches[s] \in Batch
  BY DEF SInv, IInv, TypeOK
<1>3. None \notin Slot
  BY ConstantsAssumption DEF Slot
<1> QED BY <1>1, <1>2, <1>3, RecordedType DEF SInv, IInv, TypeOK, Ahead, Batch

\* Steps that keep the queue of submissions and what is recorded.
LEMMA AccountsKept ==
    ASSUME SInv, UNCHANGED <<gpu, label, submittedSerial, serial, discarded>>,
           Recorded' = Recorded, failed => failed',
           Recorded # <<>> => batches'[open'].serial = batches[open].serial
    PROVE  Consecutive'
<1>1. \A i : Before(i)' = Before(i)
  BY DEF Before
<1> QED BY <1>1 DEF SInv, Consecutive

\* Steps that keep the batches too.
LEMMA QueueKept ==
    ASSUME SInv, IInv', UNCHANGED <<batches, open, gpu, label, submittedSerial, serial, history>>,
           failed => failed', Refusing', Joining'
    PROVE  SInv'
<1>1. Recorded' = Recorded
  BY DEF Recorded
<1>2. Consecutive'
  BY <1>1, AccountsKept DEF history
<1>3. Settled' /\ Dated' /\ Loose'
  BY DEF SInv, Settled, Dated, Loose, history
<1> QED BY <1>2, <1>3 DEF SInv

LEMMA CallsKeepSInv ==
    ASSUME SInv, IInv', \/ \E r \in Resource : CallDraw(r)
                        \/ CallSubmit \/ CallFinish \/ WaitInterrupted \/ WaitTimeout
                        \/ UNCHANGED vars
    PROVE  SInv'
<1>1. UNCHANGED <<batches, open, gpu, label, submittedSerial, serial, history>> /\ (failed => failed')
  BY DEF CallDraw, CallSubmit, CallFinish, WaitInterrupted, WaitTimeout, vars, queueVars
<1>2. Refusing' /\ Joining'
  <2>1. CASE \E r \in Resource : CallDraw(r)
    <3>1. ~failed' /\ call'.op = "draw"
      BY <2>1 DEF CallDraw, queueVars
    <3> QED BY <3>1 DEF Refusing, Joining
  <2>2. CASE CallSubmit \/ CallFinish
    <3>1. ~failed'
      BY <2>2 DEF CallSubmit, CallFinish, queueVars
    <3>2. call'.at = "submit"
      BY <2>2 DEF CallSubmit, CallFinish, Idle
    <3> QED BY <3>1, <3>2 DEF Refusing, Joining
  <2>3. CASE WaitInterrupted \/ WaitTimeout
    BY <2>3 DEF WaitInterrupted, WaitTimeout, Return, Refusing, Joining, Idle
  <2>4. CASE UNCHANGED vars
    BY <2>4 DEF vars, queueVars, SInv, Refusing, Joining
  <2> QED BY <2>1, <2>2, <2>3, <2>4
<1> QED BY <1>1, <1>2, QueueKept

\* A draw in the open batch whose loss is reported, and its serial.
LEMMA RecordedSerials ==
    ASSUME SInv
    PROVE  /\ SerialsOf(Recorded) = (submittedSerial + 1 .. serial) \ discarded
           /\ SerialsOf(<<>>) = {}
           /\ Recorded # <<>> => /\ open # None /\ open \in Slot /\ Recorded = batches[open].draws
                               /\ batches[open].serial = serial /\ serial > submittedSerial
                               /\ SerialsOf(Recorded) # {}
<1>1. SerialsOf(<<>>) = {}
  BY DEF SerialsOf
<1>2. ASSUME Recorded # <<>>
      PROVE  /\ open # None /\ open \in Slot /\ Recorded = batches[open].draws
             /\ batches[open].serial = serial /\ serial > submittedSerial
             /\ SerialsOf(Recorded) # {}
  <2>1. open # None /\ open \in Slot /\ Recorded = batches[open].draws /\ batches[open].serial = serial
    BY <1>2, SInvFacts DEF Recorded, SInv, Consecutive
  <2>2. 1 \in DOMAIN Recorded
    BY <1>2, SInvFacts
  <2> QED BY <1>2, <2>1, <2>2 DEF SerialsOf, SInv, IInv, OpenOwn
<1> QED BY <1>1, <1>2 DEF SInv, Consecutive

\* submit_open() appends what follows the last submission, or reports it lost.
LEMMA SubmitKeepsSInv ==
    ASSUME SInv, IInv', SubmitNothing \/ SubmitOverflowed \/ SubmitAccepted \/ SubmitFailed
    PROVE  SInv'
<1>1. /\ UNCHANGED <<serial, label, executed>> /\ open' = None /\ Recorded' = <<>>
      /\ call.at = "submit" /\ ~failed
  <2>1. open' = None
    BY DEF SubmitNothing, SubmitOverflowed, SubmitAccepted, SubmitFailed, MarkSubmitted
  <2>2. Recorded' = <<>>
    BY <2>1 DEF Recorded
  <2> QED BY <2>1, <2>2 DEF SubmitNothing, SubmitOverflowed, SubmitAccepted, SubmitFailed, AtSubmit,
             CanSubmit, SInv, Refusing, history
<1>2. Refusing' /\ Joining'
  <2>1. call'.at # "wait"
    <3>1. call \in Call /\ call.op \in {"draw", "submit", "finish"}
      BY <1>1 DEF SInv, IInv, TypeOK, Call, CallOk
    <3>2. \/ call' = Idle
          \/ \E at \in {"begin", "join", "retire"} : call' = [call EXCEPT !.at = at]
      BY <3>1 DEF SubmitNothing, SubmitOverflowed, SubmitAccepted, SubmitFailed, AfterSubmit, Return
    <3> QED BY <3>1, <3>2 DEF Call, Idle
  <2>2. failed' => call' = Idle
    BY <1>1 DEF SubmitNothing, SubmitOverflowed, SubmitAccepted, SubmitFailed, Return
  <2> QED BY <2>1, <2>2 DEF Refusing, Joining, Idle
<1>3. /\ SerialsOf(Recorded) = (submittedSerial + 1 .. serial) \ discarded
      /\ SerialsOf(<<>>) = {}
      /\ discarded' \in {discarded, discarded \union SerialsOf(Recorded)}
  BY RecordedSerials DEF SubmitNothing, SubmitOverflowed, SubmitAccepted, SubmitFailed, history
<1>4. Settled'
  BY <1>1, <1>3, SInvFacts DEF SInv, Settled
<1>5. ASSUME NEW i \in DOMAIN gpu
      PROVE  SerialsOf(gpu[i].draws) = (Before(i) + 1 .. gpu[i].fence) \ discarded'
  <2>1. gpu[i].fence \in Nat /\ gpu[i].fence <= submittedSerial
    <3>1. storage # "freed"
      BY <1>1 DEF SInv, IInv, CallOk
    <3>2. gpu[i] \in Entry
      BY SInvFacts
    <3>3. Bound(gpu[i])
      BY <3>1 DEF SInv, IInv, InFlight
    <3> QED BY <3>2, <3>3 DEF Bound, Entry
  <2>2. SerialsOf(gpu[i].draws) = (Before(i) + 1 .. gpu[i].fence) \ discarded
    BY DEF SInv, Consecutive
  <2>3. \A n \in Before(i) + 1 .. gpu[i].fence : n \notin SerialsOf(Recorded)
    BY <1>3, <2>1, SInvFacts
  <2> QED BY <1>3, <2>2, <2>3
<1>6. CASE SubmitNothing \/ SubmitOverflowed
  <2>1. UNCHANGED <<batches, gpu, submittedSerial, failed>>
    BY <1>6 DEF SubmitNothing, SubmitOverflowed
  <2>2. (submittedSerial + 1 .. serial) \ discarded' = {}
    <3>1. CASE SubmitNothing
      BY <1>3, <3>1 DEF SubmitNothing, history
    <3>2. CASE SubmitOverflowed
      BY <1>3, <3>2 DEF SubmitOverflowed
    <3> QED BY <1>6, <3>1, <3>2
  <2>3. \A i : Before(i)' = Before(i)
    BY <1>1, <2>1 DEF Before
  <2>4. Consecutive'
    BY <1>1, <1>3, <1>5, <2>1, <2>2, <2>3 DEF Consecutive, SInv
  <2>5. Dated'
    BY <2>1 DEF SInv, Dated
  <2>6. Loose'
    <3>1. open # None => \A k \in DOMAIN batches[open].draws : batches[open].draws[k].serial \in discarded'
      BY <1>6 DEF SubmitNothing, SubmitOverflowed, Recorded, SerialsOf
    <3> QED BY <1>3, <2>1, <3>1, SInvFacts DEF SInv, Loose
  <2> QED BY <1>2, <1>4, <2>4, <2>5, <2>6 DEF SInv
<1>7. CASE SubmitAccepted \/ SubmitFailed
  <2> DEFINE e == [slot |-> open, fence |-> batches[open].serial, draws |-> batches[open].draws]
  <2>1. /\ open \in Slot /\ open # None /\ Recorded = batches[open].draws
        /\ batches[open].serial = serial /\ batches[open] \in Batch
    BY <1>7, RecordedSerials, SInvFacts DEF SubmitAccepted, SubmitFailed, CanSubmit
  <2>2. /\ batches' = [batches EXCEPT ![open].submitted = TRUE] /\ submittedSerial' = serial
        /\ \/ gpu' = gpu /\ failed' /\ discarded' = discarded \union SerialsOf(Recorded)
           \/ gpu' = Append(gpu, e) /\ discarded' = discarded
    BY <1>7, <2>1 DEF SubmitAccepted, SubmitFailed, MarkSubmitted, Enqueue, Fence, history
  <2>3. /\ e.draws = Recorded /\ e.fence = serial /\ e \in Entry
    BY <2>1, SInvFacts DEF Entry
  <2> HIDE DEF e
  <2>4. /\ batches'[open] = [batches[open] EXCEPT !.submitted = TRUE]
        /\ \A s \in Slot \ {open} : batches'[s] = batches[s]
    BY <2>1, <2>2, SInvFacts DEF SInv, IInv, TypeOK
  <2>5. /\ batches'[open].submitted /\ batches'[open].serial = serial
        /\ batches'[open].draws = batches[open].draws
    BY <2>1, <2>4 DEF Batch
  <2>6. Dated'
    <3>1. submittedSerial <= submittedSerial'
      BY <2>2, SInvFacts
    <3> QED BY <2>1, <2>2, <2>4, <2>5, <3>1, SInvFacts DEF SInv, Dated
  <2>7. Loose'
    <3>1. ASSUME NEW s \in Slot, ~batches'[s].submitted
          PROVE  s # open /\ batches'[s] = batches[s]
      BY <2>4, <2>5, <3>1
    <3>2. discarded \subseteq discarded'
      BY <1>3
    <3>3. ASSUME NEW s \in Slot, s # open', ~batches'[s].submitted, NEW k \in DOMAIN batches'[s].draws,
                 batches'[s].draws[k].res \in batches'[s].owners
          PROVE  batches'[s].draws[k].serial \in discarded'
      <4>1. s # open /\ batches'[s] = batches[s]
        BY <3>1, <3>3
      <4>2. batches[s].draws[k].serial \in discarded
        BY <3>3, <4>1 DEF SInv, Loose
      <4> QED BY <3>2, <4>1, <4>2
    <3> QED BY <3>3 DEF Loose
  <2>8. (submittedSerial' + 1 .. serial) \ discarded' = {}
    BY <2>2, SInvFacts
  <2>9. CASE gpu' = gpu /\ failed'
    <3>1. \A i : Before(i)' = Before(i)
      BY <1>1, <2>9 DEF Before
    <3> HIDE <2>9
    <3>2. Consecutive'
      BY <1>1, <1>3, <1>5, <2>8, <2>9, <3>1 DEF Consecutive
    <3> QED BY <1>2, <1>4, <2>6, <2>7, <3>2 DEF SInv
  <2>10. CASE gpu' = Append(gpu, e) /\ discarded' = discarded
    <3>1. /\ Len(gpu) \in Nat /\ DOMAIN gpu = 1 .. Len(gpu)
          /\ DOMAIN gpu' = 1 .. Len(gpu) + 1 /\ Len(gpu') = Len(gpu) + 1
          /\ gpu'[Len(gpu) + 1] = e /\ \A i \in DOMAIN gpu : gpu'[i] = gpu[i]
      BY <2>3, <2>10, SInvFacts
    <3>2. \A i \in 1 .. Len(gpu) + 1 : Before(i)' = Before(i)
      BY <1>1, <3>1 DEF Before
    <3>3. Before(Len(gpu) + 1) = submittedSerial
      BY <1>1 DEF SInv, Consecutive
    <3>4. ASSUME NEW i \in DOMAIN gpu'
          PROVE  SerialsOf(gpu'[i].draws) = (Before(i)' + 1 .. gpu'[i].fence) \ discarded'
      <4>1. CASE i \in DOMAIN gpu
        BY <1>5, <3>1, <3>2, <4>1
      <4>2. CASE i = Len(gpu) + 1
        BY <1>3, <2>3, <2>10, <3>1, <3>2, <3>3, <4>2
      <4> QED BY <3>1, <4>1, <4>2
    <3>5. Before(Len(gpu) + 1)' = serial
      <4>1. Len(gpu') + 1 # 1 /\ Len(gpu') + 1 - 1 = Len(gpu) + 1
        BY <3>1
      <4>2. gpu'[Len(gpu') + 1 - 1].fence = serial
        BY <2>3, <3>1, <4>1
      <4> QED BY <4>1, <4>2 DEF Before
    <3>6. Consecutive'
      BY <1>1, <1>3, <2>2, <2>8, <3>4, <3>5 DEF Consecutive
    <3> QED BY <1>2, <1>4, <2>6, <2>7, <3>6 DEF SInv
  <2> QED BY <2>2, <2>9, <2>10
<1> QED BY <1>6, <1>7

\* retire() leaves a batch as it was or takes its owners and its mark.
LEMMA RetiredOrKept ==
    ASSUME NEW bs \in [Slot -> Batch], NEW done \in Nat, NEW s \in Slot
    PROVE  /\ Retired(bs, done)[s].draws = bs[s].draws
           /\ Retired(bs, done)[s].serial = bs[s].serial
           /\ \/ Retired(bs, done)[s] = bs[s]
              \/ /\ Retired(bs, done)[s].owners = {}
                 /\ ~Retired(bs, done)[s].submitted
                 /\ bs[s].submitted /\ bs[s].serial <= done
<1>1. bs[s] \in Batch
  OBVIOUS
<1>2. CASE bs[s].submitted /\ bs[s].serial <= done
  <2>1. Retired(bs, done)[s] = [bs[s] EXCEPT !.owners = {}, !.submitted = FALSE]
    BY <1>2 DEF Retired
  <2> QED BY <1>1, <1>2, <2>1 DEF Batch
<1>3. CASE ~(bs[s].submitted /\ bs[s].serial <= done)
  BY <1>3 DEF Retired
<1> QED BY <1>2, <1>3

LEMMA RetireKeepsSInv ==
    ASSUME SInv, IInv', storage # "freed",
           UNCHANGED <<open, gpu, label, submittedSerial, serial, failed, history>>,
           batches' = Retired(batches, label) \/ batches' = batches,
           Refusing', Joining'
    PROVE  SInv'
<1>1. CASE batches' = batches
  BY <1>1, QueueKept
<1>2. CASE batches' = Retired(batches, label)
  <2>1. batches \in [Slot -> Batch] /\ label \in Nat
    BY DEF SInv, IInv, TypeOK
  <2>2. open # None => batches'[open] = batches[open]
    BY <1>2, RetireSafe DEF SInv
  <2>3. \A s \in Slot : /\ batches'[s].draws = batches[s].draws
                       /\ batches'[s].serial = batches[s].serial
                       /\ \/ batches'[s] = batches[s]
                          \/ batches'[s].owners = {} /\ ~batches'[s].submitted
    BY <1>2, <2>1, RetiredOrKept
  <2>4. Recorded' = Recorded /\ (Recorded # <<>> => batches'[open'].serial = batches[open].serial)
    BY <2>2 DEF Recorded
  <2>5. Consecutive'
    BY <2>4, AccountsKept DEF history
  <2>6. Settled'
    BY DEF SInv, Settled, history
  <2>7. Dated'
    BY <2>3 DEF SInv, Dated
  <2>8. Loose'
    BY <2>3 DEF SInv, Loose, history
  <2> QED BY <2>5, <2>6, <2>7, <2>8 DEF SInv
<1> QED BY <1>1, <1>2

\* begin_batch() rewrites, or leaves without owners, what no draw is pinned in.
LEMMA BeginKeepsSInv ==
    ASSUME SInv, IInv', NEW bs, bs = Retired(batches, label),
           open = None, Rewind(bs) \/ GrowFails(bs),
           UNCHANGED <<serial, submittedSerial, failed, label, gpu, storage, history>>,
           Refusing', Joining'
    PROVE  SInv'
<1> DEFINE blank == Blank(bs[cursor].serial)
<1>1. batches \in [Slot -> Batch] /\ label \in Nat /\ cursor \in Slot /\ None \notin Slot
  BY SInvFacts DEF SInv, IInv, TypeOK
<1>2. \A s \in Slot : /\ bs[s].draws = batches[s].draws
                     /\ bs[s].serial = batches[s].serial
                     /\ \/ bs[s] = batches[s]
                        \/ bs[s].owners = {} /\ ~bs[s].submitted
  BY <1>1, RetiredOrKept
<1>3. bs \in [Slot -> Batch]
  BY <1>1, RetiredFacts
<1>4. blank.draws = <<>> /\ ~blank.submitted
  BY DEF Blank
<1> HIDE DEF blank
<1>5. /\ \A s \in Slot \ {cursor} : batches'[s] = bs[s]
      /\ \/ batches'[cursor] = blank /\ open' = cursor
         \/ /\ batches'[cursor].draws = bs[cursor].draws
            /\ batches'[cursor].serial = bs[cursor].serial
            /\ batches'[cursor].submitted = bs[cursor].submitted
            /\ batches'[cursor].owners = {} /\ open' = open
  <2>1. CASE Rewind(bs)
    BY <1>1, <1>3, <2>1 DEF Rewind, blank
  <2>2. CASE GrowFails(bs)
    <3>1. batches' = [bs EXCEPT ![cursor].owners = {}] /\ open' = open
      BY <2>2 DEF GrowFails
    <3>2. bs[cursor] \in Batch /\ batches'[cursor] = [bs[cursor] EXCEPT !.owners = {}]
      BY <1>1, <1>3, <3>1
    <3> QED BY <1>1, <1>3, <3>1, <3>2 DEF Batch
  <2> QED BY <2>1, <2>2
<1>6. Recorded = <<>> /\ Recorded' = <<>>
  BY <1>1, <1>4, <1>5 DEF Recorded
<1>7. Consecutive'
  BY <1>6, AccountsKept DEF history
<1>8. Settled'
  BY DEF SInv, Settled, history
<1>9. Dated'
  <2>1. ASSUME NEW s \in Slot
        PROVE  /\ \A k \in DOMAIN batches'[s].draws : batches'[s].draws[k].serial <= batches'[s].serial
               /\ batches'[s].submitted => batches'[s].serial <= submittedSerial
    <3>1. CASE batches'[s] = blank
      BY <1>4, <3>1
    <3>2. CASE batches'[s] # blank
      <4>1. /\ batches'[s].draws = batches[s].draws /\ batches'[s].serial = batches[s].serial
            /\ batches'[s].submitted => batches[s].submitted
        BY <1>2, <1>5, <3>2
      <4> QED BY <4>1 DEF SInv, Dated
    <3> QED BY <3>1, <3>2
  <2> QED BY <2>1 DEF Dated
<1>10. Loose'
  <2>1. ASSUME NEW s \in Slot, ~batches'[s].submitted, NEW k \in DOMAIN batches'[s].draws,
               batches'[s].draws[k].res \in batches'[s].owners
        PROVE  batches'[s].draws[k].serial \in discarded'
    <3>1. s # cursor
      BY <1>4, <1>5, <2>1
    <3>2. batches'[s] = batches[s]
      BY <1>2, <1>5, <2>1, <3>1
    <3> QED BY <1>1, <2>1, <3>2 DEF SInv, Loose, history
  <2> QED BY <2>1 DEF Loose
<1> QED BY <1>7, <1>8, <1>9, <1>10 DEF SInv

LEMMA WaitKeepsSInv ==
    ASSUME SInv, IInv', RetireSubmitted \/ BeginBatch \/ Join \/ WaitDone
    PROVE  SInv'
<1>1. /\ storage # "freed" /\ ~failed
      /\ UNCHANGED <<gpu, label, submittedSerial, serial, failed, history, storage>>
  BY DEF RetireSubmitted, BeginBatch, Join, WaitDone, SInv, IInv, CallOk, Refusing
<1>2. Refusing'
  BY <1>1 DEF Refusing
<1>3. CASE RetireSubmitted
  <2>1. Joining'
    <3>1. call.op \in {"draw", "submit", "finish"} /\ call \in Call
      BY <1>3 DEF RetireSubmitted, SInv, IInv, TypeOK, Call, CallOk
    <3>2. call' = Idle \/ \E at \in {"begin", "join"} : call' = [call EXCEPT !.at = at]
      BY <1>3, <3>1 DEF RetireSubmitted, AfterSubmit, Return
    <3> QED BY <3>1, <3>2 DEF Joining, Idle, Call
  <2> QED BY <1>1, <1>2, <1>3, <2>1, RetireKeepsSInv DEF RetireSubmitted
<1>4. CASE Join
  <2>1. Joining'
    <3>1. call \in Call
      BY DEF SInv, IInv, TypeOK
    <3>2. call' = Idle \/ call' = [call EXCEPT !.at = "wait", !.target = submittedSerial]
      BY <1>4 DEF Join, Return
    <3>3. call'.at # "wait" \/ call'.target = submittedSerial
      <4>1. CASE call' = Idle
        BY <4>1 DEF Idle
      <4>2. CASE call' = [call EXCEPT !.at = "wait", !.target = submittedSerial]
        BY <3>1, <4>2 DEF Call
      <4> QED BY <3>2, <4>1, <4>2
    <3> QED BY <1>1, <3>3 DEF Joining
  <2> QED BY <1>1, <1>2, <1>4, <2>1, RetireKeepsSInv DEF Join
<1>5. CASE BeginBatch
  <2> DEFINE bs == Retired(batches, label)
  <2>1. call.op = "draw" /\ open = None /\ call \in Call
    BY <1>5 DEF BeginBatch, SInv, IInv, CallOk, TypeOK
  <2>2. CASE /\ batches' = bs /\ UNCHANGED <<open, cursor>>
             /\ call' = [call EXCEPT !.at = "wait", !.target = bs[cursor].serial]
    <3>1. Joining'
      BY <2>1, <2>2 DEF Joining, Call
    <3> QED BY <1>1, <1>2, <2>2, <3>1, RetireKeepsSInv
  <2>3. CASE Rewind(bs) \/ GrowFails(bs)
    <3>1. Joining'
      BY <2>1, <2>3 DEF Rewind, GrowFails, Return, Joining, Idle, Call
    <3> QED BY <1>1, <1>2, <2>1, <2>3, <3>1, BeginKeepsSInv
  <2> QED BY <1>5, <2>2, <2>3 DEF BeginBatch
<1>6. CASE WaitDone
  <2> DEFINE bs == Retired(batches, label)
  <2>1. open = None /\ call \in Call
    BY <1>6 DEF WaitDone, SInv, IInv, CallOk, TypeOK
  <2>2. CASE batches' = bs /\ Return /\ UNCHANGED <<open, cursor>>
    <3>1. Joining'
      BY <2>2 DEF Joining, Return, Idle
    <3> QED BY <1>1, <1>2, <2>2, <3>1, RetireKeepsSInv
  <2>3. CASE call.op = "draw" /\ (Rewind(bs) \/ GrowFails(bs))
    <3>1. Joining'
      BY <2>1, <2>3 DEF Rewind, GrowFails, Return, Joining, Idle, Call
    <3> QED BY <1>1, <1>2, <2>1, <2>3, <3>1, BeginKeepsSInv
  <2> QED BY <1>6, <2>2, <2>3 DEF WaitDone
<1> QED BY <1>3, <1>4, <1>5, <1>6

\* A recorded draw takes the serial after the last one accepted.
LEMMA RecordKeepsSInv ==
    ASSUME SInv, IInv', Record \/ RecordOverflows
    PROVE  SInv'
<1>1. /\ call.at = "record" /\ open # None /\ open \in Slot /\ ~failed /\ call' = Idle
      /\ UNCHANGED <<open, cursor, submittedSerial, failed, label, gpu, storage, executed, discarded>>
      /\ Recorded = batches[open].draws
  BY SInvFacts DEF Record, RecordOverflows, Return, SInv, IInv, CallOk, Refusing, Recorded, history
<1>2. Refusing' /\ Joining'
  BY <1>1 DEF Refusing, Joining, Idle
<1>3. \A i : Before(i)' = Before(i)
  BY <1>1 DEF Before
<1>4. batches[open] \in Batch /\ ~batches[open].submitted /\ batches \in [Slot -> Batch]
  BY <1>1, SInvFacts DEF SInv, IInv, OpenOwn, TypeOK
<1>5. CASE Record
  <2> DEFINE d == [serial |-> serial + 1, res |-> call.res]
  <2>1. serial' = serial + 1
    BY <1>5 DEF Record
  <2>2. /\ batches'[open] = [batches[open] EXCEPT !.draws = Append(@, d),
                                                 !.owners = @ \union {call.res},
                                                 !.serial = serial + 1]
        /\ \A s \in Slot \ {open} : batches'[s] = batches[s]
    BY <1>1, <1>4, <1>5 DEF Record
  <2>3. /\ batches'[open].draws = Append(Recorded, d) /\ batches'[open].serial = serial + 1
        /\ ~batches'[open].submitted
    BY <1>1, <1>4, <2>2 DEF Batch
  <2>4. Recorded' = Append(Recorded, d)
    BY <1>1, <2>3 DEF Recorded
  <2>5. d.serial = serial + 1 /\ d \in Draw
    <3>1. call.res \in Resource
      BY <1>1 DEF SInv, IInv, CallOk
    <3> QED BY <3>1, SInvFacts DEF Draw
  <2> HIDE DEF d
  <2>6. /\ DOMAIN Recorded' = DOMAIN Recorded \union {Len(Recorded) + 1}
        /\ \A k \in DOMAIN Recorded : Recorded'[k] = Recorded[k]
        /\ Recorded'[Len(Recorded) + 1] = d /\ Recorded' # <<>>
    BY <2>4, <2>5, SInvFacts
  <2>7. SerialsOf(Recorded') = SerialsOf(Recorded) \union {serial + 1}
    BY <2>5, <2>6 DEF SerialsOf
  <2>8. Settled'
    BY <1>1, <2>1, SInvFacts DEF SInv, Settled
  <2>9. SerialsOf(Recorded') = (submittedSerial' + 1 .. serial') \ discarded'
    <3>1. serial + 1 \notin discarded
      BY SInvFacts DEF SInv, Settled
    <3>2. SerialsOf(Recorded) = (submittedSerial + 1 .. serial) \ discarded
      BY DEF SInv, Consecutive
    <3>3. submittedSerial + 1 .. serial + 1 = (submittedSerial + 1 .. serial) \union {serial + 1}
      BY SInvFacts
    <3> QED BY <1>1, <2>1, <2>7, <3>1, <3>2, <3>3
  <2>10. Consecutive'
    BY <1>1, <1>3, <2>1, <2>3, <2>9 DEF SInv, Consecutive
  <2>11. Dated'
    <3>1. ASSUME NEW k \in DOMAIN Recorded
          PROVE  Recorded[k].serial <= serial + 1
      <4>1. Recorded[k].serial \in SerialsOf(Recorded)
        BY DEF SerialsOf
      <4> QED BY <4>1, RecordedSerials, SInvFacts
    <3>2. \A k \in DOMAIN batches'[open].draws : batches'[open].draws[k].serial <= serial + 1
      BY <2>3, <2>4, <2>5, <2>6, <3>1, SInvFacts
    <3> QED BY <1>1, <2>2, <2>3, <3>2 DEF SInv, Dated
  <2>12. Loose'
    BY <1>1, <2>2 DEF SInv, Loose
  <2> QED BY <1>2, <2>8, <2>10, <2>11, <2>12 DEF SInv
<1>6. CASE RecordOverflows
  <2>1. /\ batches'[open] = [batches[open] EXCEPT !.overflow = TRUE]
        /\ \A s \in Slot \ {open} : batches'[s] = batches[s]
        /\ serial' = serial
    BY <1>1, <1>4, <1>6 DEF RecordOverflows
  <2>2. /\ batches'[open].draws = Recorded /\ batches'[open].serial = batches[open].serial
        /\ ~batches'[open].submitted
    BY <1>1, <1>4, <2>1 DEF Batch
  <2>3. Recorded' = Recorded
    BY <1>1, <2>2 DEF Recorded
  <2>4. Consecutive'
    BY <1>1, <2>1, <2>2, <2>3, AccountsKept
  <2>5. Settled' /\ Loose'
    BY <1>1, <2>1 DEF SInv, Settled, Loose
  <2>6. Dated'
    BY <1>1, <2>1, <2>2 DEF SInv, Dated
  <2> QED BY <1>2, <2>4, <2>5, <2>6 DEF SInv
<1> QED BY <1>5, <1>6

\* The destructor reports what it drops.
LEMMA DestroyKeepsSInv ==
    ASSUME SInv, IInv', Destroy
    PROVE  SInv'
<1>1. call = Idle /\ UNCHANGED <<serial, submittedSerial, failed, label, gpu, call, executed>>
  BY DEF Destroy
<1>2. Refusing' /\ Joining'
  BY <1>1 DEF Refusing, Joining, Idle
<1>3. CASE UNCHANGED <<batches, open, discarded>>
  BY <1>1, <1>2, <1>3, QueueKept DEF history
<1>4. CASE /\ batches' = [s \in Slot |-> Blank(0)] /\ open' = None /\ ~Pending
           /\ discarded' = discarded \union SerialsOf(Recorded)
  <2>1. gpu = <<>>
    <3>1. storage' = "freed"
      BY <1>4 DEF Destroy
    <3> QED BY <1>1, <3>1 DEF IInv
  <2>2. Recorded' = <<>>
    BY <1>4 DEF Recorded
  <2>3. SerialsOf(Recorded) = (submittedSerial + 1 .. serial) \ discarded /\ SerialsOf(<<>>) = {}
    BY RecordedSerials
  <2>4. Before(Len(gpu) + 1)' = Before(Len(gpu) + 1)
    BY <1>1 DEF Before
  <2>5. Consecutive'
    BY <1>1, <1>4, <2>1, <2>2, <2>3, <2>4 DEF SInv, Consecutive
  <2>6. Settled'
    <3>1. SerialsOf(Recorded) \subseteq 1 .. serial
      BY <2>3, SInvFacts
    <3> QED BY <1>1, <1>4, <3>1 DEF SInv, Settled
  <2>7. Dated' /\ Loose'
    BY <1>4 DEF Dated, Loose, Blank
  <2> QED BY <1>2, <2>5, <2>6, <2>7 DEF SInv
<1> QED BY <1>3, <1>4 DEF Destroy

\* The label moves over the draws of the ended batch and over lost ones.
LEMMA GpuKeepsSInv ==
    ASSUME SInv, IInv', GpuEnd
    PROVE  /\ SInv'
           /\ gpu[1] \in Entry /\ label' = gpu[1].fence /\ label' \in label + 1 .. serial
           /\ executed' = executed \union ((label + 1 .. label') \ discarded)
<1>1. /\ gpu # <<>> /\ gpu' = Tail(gpu) /\ label' = gpu[1].fence
      /\ executed' = executed \union SerialsOf(batches[gpu[1].slot].draws)
      /\ UNCHANGED <<batches, open, cursor, serial, submittedSerial, failed, call, storage, discarded>>
  BY DEF GpuEnd, queueVars
<1>2. /\ Len(gpu) \in Nat \ {0} /\ DOMAIN gpu = 1 .. Len(gpu) /\ 1 \in DOMAIN gpu
      /\ DOMAIN gpu' = 1 .. Len(gpu) - 1 /\ Len(gpu') = Len(gpu) - 1
      /\ \A i \in 1 .. Len(gpu) - 1 : gpu'[i] = gpu[i + 1]
  BY <1>1, SInvFacts
<1>3. Bound(gpu[1]) /\ gpu[1] \in Entry
  <2>1. storage # "freed"
    BY <1>1 DEF SInv, IInv
  <2> QED BY <1>2, <2>1, SInvFacts DEF SInv, IInv, InFlight
<1>4. label' \in label + 1 .. serial
  BY <1>1, <1>3, SInvFacts DEF Bound, Entry
<1>5. SerialsOf(gpu[1].draws) = (label + 1 .. label') \ discarded
  BY <1>1, <1>2 DEF SInv, Consecutive, Before
<1>6. executed' = executed \union ((label + 1 .. label') \ discarded)
  BY <1>1, <1>3, <1>5 DEF Bound
<1>7. Settled'
  BY <1>1, <1>4, <1>6, SInvFacts DEF SInv, Settled
<1>8. \A i \in 1 .. Len(gpu) : Before(i)' = Before(i + 1)
  BY <1>1, <1>2 DEF Before
<1>9. Recorded' = Recorded
  BY <1>1 DEF Recorded
<1>10. ASSUME NEW i \in DOMAIN gpu'
       PROVE  SerialsOf(gpu'[i].draws) = (Before(i)' + 1 .. gpu'[i].fence) \ discarded'
  <2>1. i + 1 \in DOMAIN gpu /\ gpu'[i] = gpu[i + 1] /\ Before(i)' = Before(i + 1)
    BY <1>2, <1>8
  <2> QED BY <1>1, <2>1 DEF SInv, Consecutive
<1>11. Before(Len(gpu) + 1)' = Before(Len(gpu) + 1)
  <2>1. Before(Len(gpu) + 1) = gpu[Len(gpu)].fence
    BY <1>2 DEF Before
  <2>2. CASE Len(gpu) = 1
    BY <1>1, <1>2, <2>1, <2>2 DEF Before
  <2>3. CASE Len(gpu) # 1
    <3>1. gpu'[Len(gpu')] = gpu[Len(gpu)] /\ Len(gpu') + 1 # 1 /\ Len(gpu') + 1 - 1 = Len(gpu')
      BY <1>2, <2>3
    <3> QED BY <2>1, <3>1 DEF Before
  <2> QED BY <2>2, <2>3
<1>12. Consecutive'
  BY <1>1, <1>9, <1>10, <1>11 DEF SInv, Consecutive
<1>13. Refusing' /\ Joining' /\ Dated' /\ Loose'
  BY <1>1 DEF SInv, Refusing, Joining, Dated, Loose
<1> QED BY <1>1, <1>3, <1>4, <1>6, <1>7, <1>12, <1>13 DEF SInv

LEMMA InitSInv == ASSUME Init PROVE SInv
<1>1. IInv
  BY InitIInv
<1>2. Recorded = <<>> /\ SerialsOf(<<>>) = {} /\ gpu = <<>> /\ Before(1) = 0
  BY DEF Init, Recorded, SerialsOf, Before
<1>3. Consecutive /\ Settled
  BY <1>2 DEF Init, Consecutive, Settled
<1>4. Refusing /\ Joining /\ Dated /\ Loose
  BY DEF Init, Refusing, Joining, Dated, Loose, Idle, Blank
<1> QED BY <1>1, <1>3, <1>4 DEF SInv

LEMMA NextKeepsSInv ==
    ASSUME SInv, [Next]_vars
    PROVE  SInv'
<1>1. IInv'
  BY NextKeepsIInv DEF SInv
<1>2. CASE (\E r \in Resource : CallDraw(r)) \/ CallSubmit \/ CallFinish
  BY <1>1, <1>2, CallsKeepSInv
<1>3. CASE WaitInterrupted \/ WaitTimeout \/ UNCHANGED vars
  BY <1>1, <1>3, CallsKeepSInv
<1>4. CASE SubmitNothing \/ SubmitOverflowed \/ SubmitAccepted \/ SubmitFailed
  BY <1>1, <1>4, SubmitKeepsSInv
<1>5. CASE RetireSubmitted \/ BeginBatch \/ Join \/ WaitDone
  BY <1>1, <1>5, WaitKeepsSInv
<1>6. CASE Record \/ RecordOverflows
  BY <1>1, <1>6, RecordKeepsSInv
<1>7. CASE Destroy
  BY <1>1, <1>7, DestroyKeepsSInv
<1>8. CASE GpuEnd
  BY <1>1, <1>8, GpuKeepsSInv
<1> QED BY <1>2, <1>3, <1>4, <1>5, <1>6, <1>7, <1>8 DEF Next, CallStep

\* Every accepted serial is accounted for: executed, in flight in order, being
\* recorded, or reported lost.
THEOREM SerialsAccounted == Spec => []SInv
<1>1. Init => SInv
  BY InitSInv
<1>2. SInv /\ [Next]_vars => SInv'
  BY NextKeepsSInv
<1> QED BY <1>1, <1>2, PTL DEF Spec

\* A finish() that returns without an error has seen every draw executed or
\* reported lost.
THEOREM FinishSafe == Spec => FinishJoins
<1> DEFINE Joins == (/\ call.op = "finish"
                     /\ call' = Idle /\ ~failed' /\ discarded' = discarded /\ ~WaitInterrupted)
                    => 1 .. serial \subseteq executed \union discarded
<1>1. SInv /\ [Next]_vars => [Joins]_vars
  <2> SUFFICES ASSUME SInv, Next, call.op = "finish", call' = Idle, ~failed',
                      discarded' = discarded, ~WaitInterrupted
               PROVE  1 .. serial \subseteq executed \union discarded
    OBVIOUS
  <2>1. call # Idle /\ call \in Call /\ call.at \notin {"begin", "record"}
    BY DEF Idle, SInv, IInv, CallOk, TypeOK
  <2>2. SubmitNothing \/ SubmitOverflowed \/ SubmitAccepted \/ SubmitFailed \/ RetireSubmitted \/ Join \/ WaitDone
    BY <2>1 DEF Next, CallStep, CallDraw, CallSubmit, CallFinish, WaitTimeout, BeginBatch, Record,
                RecordOverflows, Destroy, GpuEnd
  <2>3. \A at : [call EXCEPT !.at = at] # Idle
    BY <2>1 DEF Idle, Call
  <2>4. ~SubmitNothing /\ ~SubmitAccepted /\ ~SubmitFailed /\ ~RetireSubmitted
    BY <2>3 DEF SubmitNothing, SubmitAccepted, SubmitFailed, RetireSubmitted, AfterSubmit
  <2>5. ~SubmitOverflowed
    <3>1. ASSUME SubmitOverflowed PROVE FALSE
      BY <3>1, RecordedSerials DEF SubmitOverflowed
    <3> QED BY <3>1
  <2>6. label >= submittedSerial /\ open = None
    <3>1. CASE Join
      <4>1. [call EXCEPT !.at = "wait", !.target = submittedSerial] # Idle
        BY <2>1 DEF Idle, Call
      <4> QED BY <3>1, <4>1 DEF Join, Joined, SInv, IInv, CallOk
    <3>2. CASE WaitDone
      BY <3>2 DEF WaitDone, SInv, Joining, IInv, CallOk
    <3> QED BY <2>2, <2>4, <2>5, <3>1, <3>2
  <2>7. (submittedSerial + 1 .. serial) \ discarded = {}
    BY <2>6, RecordedSerials DEF Recorded
  <2> QED BY <2>6, <2>7, SInvFacts DEF SInv, Settled
<1> QED BY <1>1, SerialsAccounted, PTL DEF Spec, FinishJoins

\* A failed submission or a timeout keeps every owner, and a failed queue
\* accepts and submits nothing more.
THEOREM FailureSafe == Spec => FailureRetains
<1> DEFINE Retains == /\ failed' => \A s \in Slot : batches[s].owners \subseteq batches'[s].owners
                      /\ failed => Len(gpu') <= Len(gpu) /\ serial' = serial
<1>1. SInv /\ [Next]_vars => [Retains]_vars
  <2> SUFFICES ASSUME SInv, Next PROVE Retains
    OBVIOUS
  <2>1. CASE failed
    <3>1. call.at = "idle" /\ call.at \notin {"submit", "retire", "begin", "join", "wait", "record"}
      BY <2>1 DEF SInv, Refusing
    <3>2. GpuEnd \/ (Destroy /\ UNCHANGED batches)
      BY <2>1, <3>1 DEF Next, CallStep, CallDraw, CallSubmit, CallFinish, SubmitNothing, SubmitOverflowed,
           SubmitAccepted, SubmitFailed, AtSubmit, CanSubmit, RetireSubmitted, BeginBatch, Join, WaitDone,
           WaitTimeout, WaitInterrupted, Record, RecordOverflows, Destroy, Pending
    <3>3. UNCHANGED <<batches, serial>> /\ (gpu' = gpu \/ (gpu' = Tail(gpu) /\ gpu # <<>>))
      BY <3>2 DEF GpuEnd, Destroy, queueVars
    <3>4. Len(gpu') <= Len(gpu)
      BY <3>3, SInvFacts
    <3> QED BY <3>3, <3>4
  <2>2. CASE ~failed /\ failed'
    <3>1. SubmitFailed \/ WaitTimeout
      BY <2>2 DEF Next, CallStep, CallDraw, CallSubmit, CallFinish, SubmitNothing, SubmitOverflowed,
           SubmitAccepted, RetireSubmitted, BeginBatch, Join, WaitDone, WaitInterrupted, Record,
           RecordOverflows, Destroy, GpuEnd, queueVars
    <3>2. CASE SubmitFailed
      <4>1. batches' = [batches EXCEPT ![open].submitted = TRUE] /\ open \in Slot /\ batches[open] \in Batch
        BY <3>2, RecordedSerials, SInvFacts DEF SubmitFailed, CanSubmit, MarkSubmitted
      <4>2. \A s \in Slot : batches'[s].owners = batches[s].owners
        BY <4>1, SInvFacts DEF SInv, IInv, TypeOK, Batch
      <4> QED BY <2>2, <4>2
    <3>3. CASE WaitTimeout
      BY <2>2, <3>3 DEF WaitTimeout
    <3> QED BY <3>1, <3>2, <3>3
  <2>3. CASE ~failed /\ ~failed'
    BY <2>3
  <2> QED BY <2>1, <2>2, <2>3
<1> QED BY <1>1, SerialsAccounted, PTL DEF Spec, FailureRetains

-----------------------------------------------------------------------------
(* The queue implements the stream of pinned draws.                         *)

\* What a ring of batches keeps alive.
PinnedIn(bs) ==
    UNION {{d \in {bs[s].draws[i] : i \in DOMAIN bs[s].draws} : d.res \in bs[s].owners} : s \in Slot}

PinnedBy(b, d) == \E k \in DOMAIN b.draws : d = b.draws[k] /\ d.res \in b.owners

\* Every pin of the batch is of a draw that has run or was reported lost.
Droppable(b) ==
    \A k \in DOMAIN b.draws :
        b.draws[k].res \in b.owners => b.draws[k].serial <= label \/ b.draws[k].serial \in discarded

LEMMA PinnedFacts ==
    ASSUME NEW bs
    PROVE  \A d : d \in PinnedIn(bs) <=> \E s \in Slot : PinnedBy(bs[s], d)
BY DEF PinnedIn, PinnedBy

LEMMA PinnedSame ==
    ASSUME NEW bs, NEW next,
           \A s \in Slot : next[s].draws = bs[s].draws /\ next[s].owners = bs[s].owners
    PROVE  PinnedIn(next) = PinnedIn(bs)
<1>1. \A s \in Slot : \A d : PinnedBy(next[s], d) <=> PinnedBy(bs[s], d)
  BY DEF PinnedBy
<1>2. \A d : d \in PinnedIn(next) <=> d \in PinnedIn(bs)
  BY <1>1, PinnedFacts, Zenon
<1>3. PinnedIn(next) \subseteq PinnedIn(bs) /\ PinnedIn(bs) \subseteq PinnedIn(next)
  BY <1>2
<1> QED BY <1>3

\* Steps in which the stream takes no part.
LEMMA QuietStep ==
    ASSUME UNCHANGED <<serial, label, executed, discarded, failed>>,
           \A s \in Slot : batches'[s].draws = batches[s].draws /\ batches'[s].owners = batches[s].owners
    PROVE  UNCHANGED Stream!vars
<1>1. PinnedIn(batches') = PinnedIn(batches)
  BY PinnedSame
<1> QED BY <1>1 DEF Stream!vars, PinnedIn

\* Steps that drop the pins of draws that are done.
LEMMA UnpinStep ==
    ASSUME UNCHANGED <<serial, label, executed, discarded, failed>>, ~failed,
           \A s \in Slot :
              \/ batches'[s].draws = batches[s].draws /\ batches'[s].owners = batches[s].owners
              \/ Droppable(batches[s]) /\ \A d : ~PinnedBy(batches'[s], d)
    PROVE  Stream!Unpin
<1>1. PinnedIn(batches') \subseteq PinnedIn(batches)
  <2>1. \A s \in Slot : \A d : PinnedBy(batches'[s], d) => PinnedBy(batches[s], d)
    BY DEF PinnedBy
  <2> QED BY <2>1, PinnedFacts, Zenon
<1>2. ASSUME NEW p \in PinnedIn(batches) \ PinnedIn(batches')
      PROVE  p.serial <= label \/ p.serial \in discarded
  <2>1. PICK s \in Slot : PinnedBy(batches[s], p)
    BY <1>2, PinnedFacts
  <2>2. ~PinnedBy(batches'[s], p)
    BY <1>2, PinnedFacts
  <2>3. Droppable(batches[s])
    BY <2>1, <2>2 DEF PinnedBy
  <2> QED BY <2>1, <2>3 DEF PinnedBy, Droppable
<1> QED BY <1>1, <1>2 DEF Stream!Unpin, PinnedIn

LEMMA DroppableFacts ==
    ASSUME SInv, NEW s \in Slot
    PROVE  /\ batches[s].submitted /\ batches[s].serial <= label => Droppable(batches[s])
           /\ ~batches[s].submitted /\ s # open => Droppable(batches[s])
<1>1. batches[s] \in Batch /\ batches[s].draws \in Seq(Draw) /\ batches[s].serial \in Nat /\ label \in Nat
  BY SInvFacts
<1>2. ASSUME batches[s].serial <= label, NEW k \in DOMAIN batches[s].draws
      PROVE  batches[s].draws[k].serial <= label
  <2>1. batches[s].draws[k] \in Draw
    BY <1>1, <1>2
  <2>2. batches[s].draws[k].serial \in Nat
    BY <2>1 DEF Draw
  <2>3. batches[s].draws[k].serial <= batches[s].serial
    BY <1>2 DEF SInv, Dated
  <2> QED BY <1>1, <1>2, <2>2, <2>3
<1> QED BY <1>2 DEF Droppable, SInv, Loose

LEMMA RecordRefines ==
    ASSUME SInv, Record
    PROVE  \E r \in Resource : Stream!Accept(r)
<1> DEFINE d == [serial |-> serial + 1, res |-> call.res]
<1>1. /\ open \in Slot /\ open # None /\ call.res \in Resource /\ ~failed
      /\ batches[open] \in Batch /\ batches \in [Slot -> Batch]
  BY SInvFacts DEF Record, SInv, IInv, CallOk, Refusing, TypeOK
<1>2. serial' = serial + 1 /\ UNCHANGED <<failed, label, executed, discarded>>
  BY DEF Record, history
<1>3. /\ batches'[open] = [batches[open] EXCEPT !.draws = Append(@, d),
                                               !.owners = @ \union {call.res},
                                               !.serial = serial + 1]
      /\ \A s \in Slot \ {open} : batches'[s] = batches[s]
  BY <1>1 DEF Record
<1> DEFINE old == batches[open].draws
<1>4. /\ batches'[open].draws = Append(old, d)
      /\ batches'[open].owners = batches[open].owners \union {call.res}
      /\ old \in Seq(Draw)
  BY <1>1, <1>3 DEF Batch
<1>5. d \in Draw /\ d.res = call.res
  BY <1>1, SInvFacts DEF Draw
<1>6. \A k \in DOMAIN old : old[k].res \in batches[open].owners
  BY <1>1 DEF SInv, IInv, OpenOwn
<1> HIDE DEF d, old
<1>7. /\ DOMAIN batches'[open].draws = DOMAIN old \union {Len(old) + 1}
      /\ \A k \in DOMAIN old : batches'[open].draws[k] = old[k]
      /\ batches'[open].draws[Len(old) + 1] = d
  BY <1>4, <1>5
<1>8. \A p : PinnedBy(batches'[open], p) <=> PinnedBy(batches[open], p) \/ p = d
  BY <1>4, <1>5, <1>6, <1>7 DEF PinnedBy, old
<1>9. \A s \in Slot \ {open} : \A p : PinnedBy(batches'[s], p) <=> PinnedBy(batches[s], p)
  BY <1>3 DEF PinnedBy
<1>10. \A p : p \in PinnedIn(batches') <=> p \in PinnedIn(batches) \/ p = d
  <2>1. ASSUME NEW p, p \in PinnedIn(batches')
        PROVE  p \in PinnedIn(batches) \/ p = d
    <3>1. PICK s \in Slot : PinnedBy(batches'[s], p)
      BY <2>1, PinnedFacts
    <3>2. PinnedBy(batches[s], p) \/ p = d
      BY <3>1, <1>8, <1>9
    <3> QED BY <3>2, PinnedFacts
  <2>2. ASSUME NEW p, p \in PinnedIn(batches) \/ p = d
        PROVE  p \in PinnedIn(batches')
    <3>1. \E s \in Slot : PinnedBy(batches'[s], p)
      BY <1>1, <1>8, <1>9, <2>2, PinnedFacts
    <3> QED BY <3>1, PinnedFacts
  <2> QED BY <2>1, <2>2
<1>11. PinnedIn(batches') = PinnedIn(batches) \union {d}
  <2>1. PinnedIn(batches') \subseteq PinnedIn(batches) \union {d}
    BY <1>10
  <2>2. PinnedIn(batches) \union {d} \subseteq PinnedIn(batches')
    BY <1>10
  <2> QED BY <2>1, <2>2
<1>12. \E r \in Resource :
          /\ ~failed /\ serial' = serial + 1
          /\ PinnedIn(batches') = PinnedIn(batches) \union {[serial |-> serial + 1, res |-> r]}
  BY <1>1, <1>2, <1>11 DEF d
<1> QED BY <1>2, <1>12 DEF Stream!Accept, PinnedIn

LEMMA DiscardRefines ==
    ASSUME SInv, SubmitOverflowed \/ SubmitFailed \/ WaitTimeout
    PROVE  Stream!Discard
<1>1. UNCHANGED <<serial, label, executed>> /\ failed' \in {failed, TRUE}
  BY DEF SubmitOverflowed, SubmitFailed, WaitTimeout, history
<1>2. discarded' \in {discarded, discarded \union SerialsOf(Recorded)}
  BY DEF SubmitOverflowed, SubmitFailed, WaitTimeout, history
<1>3. SerialsOf(Recorded) \subseteq label + 1 .. serial
  BY RecordedSerials, SInvFacts
<1>4. \A s \in Slot : batches'[s].draws = batches[s].draws /\ batches'[s].owners = batches[s].owners
  <2>1. CASE SubmitOverflowed \/ WaitTimeout
    BY <2>1 DEF SubmitOverflowed, WaitTimeout
  <2>2. CASE SubmitFailed
    <3>1. /\ batches' = [batches EXCEPT ![open].submitted = TRUE]
          /\ open \in Slot /\ batches[open] \in Batch /\ batches \in [Slot -> Batch]
      BY <2>2, RecordedSerials, SInvFacts DEF SubmitFailed, CanSubmit, MarkSubmitted, SInv, IInv, TypeOK
    <3> QED BY <3>1 DEF Batch
  <2> QED BY <2>1, <2>2
<1>5. PinnedIn(batches') = PinnedIn(batches)
  BY <1>4, PinnedSame
<1> QED BY <1>1, <1>2, <1>3, <1>5 DEF Stream!Discard, PinnedIn

LEMMA RetireRefines ==
    ASSUME SInv, storage # "freed", ~failed, UNCHANGED <<serial, label, executed, discarded, failed>>,
           batches' = Retired(batches, label) \/ batches' = batches
    PROVE  Stream!Unpin
<1>1. batches \in [Slot -> Batch] /\ label \in Nat
  BY DEF SInv, IInv, TypeOK
<1>2. ASSUME NEW s \in Slot
      PROVE  \/ batches'[s].draws = batches[s].draws /\ batches'[s].owners = batches[s].owners
             \/ Droppable(batches[s]) /\ \A d : ~PinnedBy(batches'[s], d)
  <2>1. \/ batches'[s] = batches[s]
        \/ batches'[s].owners = {} /\ batches[s].submitted /\ batches[s].serial <= label
    BY <1>1, RetiredOrKept
  <2> QED BY <2>1, DroppableFacts DEF PinnedBy
<1> QED BY <1>2, UnpinStep

LEMMA BeginRefines ==
    ASSUME SInv, NEW bs, bs = Retired(batches, label), ~failed,
           open = None, Rewind(bs) \/ GrowFails(bs), ~bs[cursor].submitted,
           UNCHANGED <<serial, failed, label, executed, discarded>>
    PROVE  Stream!Unpin
<1>1. batches \in [Slot -> Batch] /\ label \in Nat /\ cursor \in Slot /\ None \notin Slot
      /\ bs \in [Slot -> Batch]
  BY SInvFacts, RetiredFacts DEF SInv, IInv, TypeOK
<1>2. \A s \in Slot : \/ bs[s] = batches[s]
                      \/ bs[s].owners = {} /\ batches[s].submitted /\ batches[s].serial <= label
  BY <1>1, RetiredOrKept
<1>3. /\ \A s \in Slot \ {cursor} : batches'[s] = bs[s]
      /\ batches'[cursor].draws = <<>> \/ batches'[cursor].owners = {}
  <2>1. CASE Rewind(bs)
    BY <1>1, <2>1 DEF Rewind, Blank
  <2>2. CASE GrowFails(bs)
    <3>1. batches' = [bs EXCEPT ![cursor].owners = {}] /\ bs[cursor] \in Batch
      BY <1>1, <2>2 DEF GrowFails
    <3> QED BY <1>1, <3>1 DEF Batch
  <2> QED BY <2>1, <2>2
<1>4. ASSUME NEW s \in Slot
      PROVE  \/ batches'[s].draws = batches[s].draws /\ batches'[s].owners = batches[s].owners
             \/ Droppable(batches[s]) /\ \A d : ~PinnedBy(batches'[s], d)
  <2>1. CASE s = cursor
    BY <1>1, <1>2, <1>3, <2>1, DroppableFacts DEF PinnedBy
  <2>2. CASE s # cursor
    BY <1>2, <1>3, <2>2, DroppableFacts DEF PinnedBy
  <2> QED BY <2>1, <2>2
<1> QED BY <1>4, UnpinStep

LEMMA WaitRefines ==
    ASSUME SInv, RetireSubmitted \/ BeginBatch \/ Join \/ WaitDone
    PROVE  Stream!Unpin
<1>1. /\ storage # "freed" /\ ~failed
      /\ UNCHANGED <<serial, label, executed, discarded, failed>>
  BY DEF RetireSubmitted, BeginBatch, Join, WaitDone, SInv, IInv, CallOk, Refusing, history
<1>2. CASE RetireSubmitted \/ Join
  BY <1>1, <1>2, RetireRefines DEF RetireSubmitted, Join
<1> DEFINE bs == Retired(batches, label)
<1>3. CASE BeginBatch
  <2>1. open = None
    BY <1>3 DEF BeginBatch, SInv, IInv, CallOk
  <2>2. CASE batches' = bs
    BY <1>1, <2>2, RetireRefines
  <2>3. CASE ~SlotBusy(bs[cursor]) /\ (Rewind(bs) \/ GrowFails(bs))
    <3>1. ~bs[cursor].submitted
      BY <2>3 DEF SlotBusy
    <3> QED BY <1>1, <2>1, <2>3, <3>1, BeginRefines
  <2> QED BY <1>3, <2>2, <2>3 DEF BeginBatch
<1>4. CASE WaitDone
  <2>1. open = None /\ label >= call.target
    BY <1>4 DEF WaitDone, SInv, IInv, CallOk
  <2>2. CASE batches' = bs
    BY <1>1, <2>2, RetireRefines
  <2>3. CASE call.op = "draw" /\ (Rewind(bs) \/ GrowFails(bs))
    <3>1. batches[cursor].serial <= label /\ cursor \in Slot
      BY <1>4, <2>1, <2>3 DEF WaitDone, SInv, IInv, CallOk, TypeOK
    <3>2. batches \in [Slot -> Batch] /\ label \in Nat
      BY DEF SInv, IInv, TypeOK
    <3>3. ~bs[cursor].submitted
      BY <3>1, <3>2, RetiredFacts
    <3> QED BY <1>1, <2>1, <2>3, <3>3, BeginRefines
  <2> QED BY <1>4, <2>2, <2>3 DEF WaitDone
<1> QED BY <1>2, <1>3, <1>4

\* With every submission behind the label, nothing pinned is still to run.
LEMMA CloseRefines ==
    ASSUME SInv, Destroy, ~Pending
    PROVE  Stream!Close
<1>1. /\ batches' = [s \in Slot |-> Blank(0)]
      /\ discarded' = discarded \union SerialsOf(Recorded)
      /\ UNCHANGED <<serial, label, executed, failed>> /\ ~failed
      /\ label >= submittedSerial
  BY SInvFacts DEF Destroy, Pending
<1>2. SerialsOf(Recorded) \subseteq label + 1 .. serial
  BY RecordedSerials, SInvFacts
<1>3. PinnedIn(batches') = {}
  <2>1. \A s \in Slot : \A d : ~PinnedBy(batches'[s], d)
    BY <1>1 DEF PinnedBy, Blank
  <2> QED BY <2>1, PinnedFacts
<1>4. ASSUME NEW p \in PinnedIn(batches)
      PROVE  p.serial <= label \/ p.serial \in discarded'
  <2>1. PICK s \in Slot : PinnedBy(batches[s], p)
    BY <1>4, PinnedFacts
  <2>2. PICK k \in DOMAIN batches[s].draws : p = batches[s].draws[k] /\ p.res \in batches[s].owners
    BY <2>1 DEF PinnedBy
  <2>3. CASE batches[s].submitted
    <3>1. batches[s].serial <= label
      BY <1>1, <2>3, SInvFacts DEF SInv, Dated
    <3>2. Droppable(batches[s])
      BY <2>3, <3>1, DroppableFacts
    <3> QED BY <1>1, <2>2, <3>2 DEF Droppable
  <2>4. CASE ~batches[s].submitted /\ s # open
    BY <1>1, <2>2, <2>4, DroppableFacts DEF SInv, Loose
  <2>5. CASE s = open
    <3>1. Recorded = batches[s].draws
      BY <2>5, SInvFacts DEF Recorded
    <3> QED BY <1>1, <2>2, <3>1 DEF SerialsOf
  <2> QED BY <2>3, <2>4, <2>5
<1> QED BY <1>1, <1>2, <1>3, <1>4 DEF Stream!Close, PinnedIn

LEMMA GpuRefines ==
    ASSUME SInv, IInv', GpuEnd
    PROVE  \E n \in label + 1 .. serial : Stream!Complete(n)
<1>1. UNCHANGED <<serial, failed, discarded, batches>>
  BY DEF GpuEnd, queueVars
<1>2. /\ label' \in label + 1 .. serial
      /\ executed' = executed \union ((label + 1 .. label') \ discarded)
  BY GpuKeepsSInv
<1> QED BY <1>1, <1>2 DEF Stream!Complete

LEMMA NextRefines ==
    ASSUME SInv, [Next]_vars
    PROVE  [Stream!Next]_(Stream!vars)
<1>1. CASE (\E r \in Resource : CallDraw(r)) \/ CallSubmit \/ CallFinish \/ WaitInterrupted \/ UNCHANGED vars
  <2>1. UNCHANGED <<serial, label, executed, discarded, failed, batches>>
    BY <1>1 DEF CallDraw, CallSubmit, CallFinish, WaitInterrupted, vars, queueVars, history
  <2> QED BY <2>1, QuietStep
<1>2. CASE SubmitNothing
  BY <1>2, QuietStep DEF SubmitNothing, history
<1>3. CASE SubmitAccepted
  <2>1. /\ batches' = [batches EXCEPT ![open].submitted = TRUE]
        /\ open \in Slot /\ batches[open] \in Batch /\ batches \in [Slot -> Batch]
    BY <1>3, RecordedSerials, SInvFacts DEF SubmitAccepted, CanSubmit, MarkSubmitted, SInv, IInv, TypeOK
  <2>2. \A s \in Slot : batches'[s].draws = batches[s].draws /\ batches'[s].owners = batches[s].owners
    BY <2>1 DEF Batch
  <2> QED BY <1>3, <2>2, QuietStep DEF SubmitAccepted, history
<1>4. CASE RecordOverflows
  <2>1. /\ batches' = [batches EXCEPT ![open].overflow = TRUE]
        /\ open \in Slot /\ batches[open] \in Batch /\ batches \in [Slot -> Batch]
    BY <1>4, SInvFacts DEF RecordOverflows, SInv, IInv, CallOk, TypeOK
  <2>2. \A s \in Slot : batches'[s].draws = batches[s].draws /\ batches'[s].owners = batches[s].owners
    BY <2>1 DEF Batch
  <2> QED BY <1>4, <2>2, QuietStep DEF RecordOverflows, history
<1>5. CASE SubmitOverflowed \/ SubmitFailed \/ WaitTimeout
  BY <1>5, DiscardRefines DEF Stream!Next
<1>6. CASE RetireSubmitted \/ BeginBatch \/ Join \/ WaitDone
  BY <1>6, WaitRefines DEF Stream!Next
<1>7. CASE Record
  BY <1>7, RecordRefines DEF Stream!Next
<1>8. CASE Destroy
  <2>1. CASE ~Pending
    BY <1>8, <2>1, CloseRefines DEF Stream!Next
  <2>2. CASE Pending
    BY <1>8, <2>2, QuietStep DEF Destroy
  <2> QED BY <2>1, <2>2
<1>9. CASE GpuEnd
  <2>1. IInv'
    BY NextKeepsIInv DEF SInv
  <2> QED BY <1>9, <2>1, GpuRefines DEF Stream!Next
<1> QED BY <1>1, <1>2, <1>3, <1>4, <1>5, <1>6, <1>7, <1>8, <1>9 DEF Next, CallStep

\* Ring, batches and label implement the in-order stream of pinned draws: every
\* step of the queue or the GPU is a step of the stream or none.
THEOREM StreamImplemented == Spec => ImplementsStream
<1>1. Init => Stream!Init
  <2> SUFFICES ASSUME Init PROVE Stream!Init
    OBVIOUS
  <2>1. \A s \in Slot : \A d : ~PinnedBy(batches[s], d)
    BY DEF Init, PinnedBy, Blank
  <2>2. PinnedIn(batches) = {}
    BY <2>1, PinnedFacts
  <2> QED BY <2>2 DEF Init, Stream!Init, PinnedIn
<1>2. SInv /\ [Next]_vars => [Stream!Next]_(Stream!vars)
  BY NextRefines
<1> QED BY <1>1, <1>2, SerialsAccounted, PTL DEF Spec, ImplementsStream, Stream!Spec

=============================================================================
