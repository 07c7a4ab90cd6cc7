------------------------------ MODULE AgcGxDraw ------------------------------
(***************************************************************************)
(* The batched GX draw queue (ps5/gpu/agc_gx_draw.cpp) and the GPU that    *)
(* executes its batches.                                                   *)
(*                                                                         *)
(* The CPU records draws into the open batch, submits it as one command    *)
(* buffer and goes on recording into the next batch of a ring.  The GPU    *)
(* reads a batch's storage at any time between its submission and the      *)
(* fence that ends it; the fence writes the batch's serial to one label    *)
(* shared by all batches.  A batch's storage and the owners of what its    *)
(* draws read may be touched again only once the label has passed it.      *)
(*                                                                         *)
(* One thread calls the queue, so a call runs to its end before the next;  *)
(* the GPU moves between any two of its steps.  A draw is abstracted to    *)
(* the resource it reads through (material textures, copies, targets).     *)
(***************************************************************************)
EXTENDS Naturals, Sequences, FiniteSets

CONSTANTS
    InFlightSlots,  \* ring size (4 in the code)
    BatchDraws,     \* draws that fill a batch (256 in the code)
    MaxSerial,      \* last serial handed out (UINT64_MAX in the code)
    Resource,       \* what a draw may read through
    None            \* no open batch

ASSUME ConstantsAssumption ==
    /\ InFlightSlots \in Nat \ {0}
    /\ BatchDraws \in Nat \ {0}
    /\ MaxSerial \in Nat
    /\ None \notin 0 .. InFlightSlots - 1

Slot == 0 .. InFlightSlots - 1

VARIABLES
    batches,          \* ring of batches, their storage and their owners
    open,             \* slot of the batch being recorded, or None
    cursor,           \* next ring position for a new batch
    serial,           \* last serial handed out
    submittedSerial,  \* serial of the last batch submitted
    failed,           \* a submission failed or a wait timed out
    label,            \* the shared end-of-pipe completion label
    gpu,              \* command buffers the driver accepted and the GPU has not ended
    call,             \* the call in progress: its name, its next step, its argument
    storage,          \* "live", "freed" or "retained": what the destructor left
    executed,         \* history: serials whose draws the GPU has executed
    discarded         \* history: serials whose loss an exception reported

queueVars == <<batches, open, cursor, serial, submittedSerial, failed>>
history   == <<executed, discarded>>
vars == <<queueVars, label, gpu, call, storage, history>>

Draw  == [serial : Nat, res : Resource]
Batch == [draws : Seq(Draw), owners : SUBSET Resource, serial : Nat,
          submitted : BOOLEAN, overflow : BOOLEAN]
Entry == [slot : Slot, fence : Nat, draws : Seq(Draw)]
Idle  == [op |-> "none", at |-> "idle", res |-> None, target |-> 0]
Call  == [op : {"none", "draw", "submit", "finish"},
          at : {"idle", "submit", "retire", "begin", "wait", "record", "join"},
          res : Resource \union {None}, target : Nat]

\* A batch's storage and owners from the start; its last serial stays behind.
Blank(n) == [draws |-> <<>>, owners |-> {}, serial |-> n, submitted |-> FALSE, overflow |-> FALSE]

SerialsOf(draws) == {draws[i].serial : i \in DOMAIN draws}

Init ==
    /\ batches = [s \in Slot |-> Blank(0)]
    /\ open = None /\ cursor = 0
    /\ serial = 0 /\ submittedSerial = 0 /\ failed = FALSE
    /\ label = 0 /\ gpu = <<>>
    /\ call = Idle /\ storage = "live"
    /\ executed = {} /\ discarded = {}

-----------------------------------------------------------------------------
(* Helpers of the implementation, each after the slips it could contain.    *)

\* Slip: a batch is released one serial before the label reaches it.
RetiredEarly(bs, done) ==
    [s \in Slot |-> IF bs[s].submitted /\ bs[s].serial <= done + 1
                    THEN [bs[s] EXCEPT !.owners = {}, !.submitted = FALSE]
                    ELSE bs[s]]

\* retire(): drop the owners of every batch the label has passed.
Retired(bs, done) ==
    [s \in Slot |-> IF bs[s].submitted /\ bs[s].serial <= done
                    THEN [bs[s] EXCEPT !.owners = {}, !.submitted = FALSE]
                    ELSE bs[s]]

\* Slip: only a failure counts as pending.
PendingOnFailure == failed

\* pending(): submitted work is unresolved; an open batch is not.
Pending == failed \/ label < submittedSerial

\* begin_batch(): the slot's previous submission has not retired.
SlotBusy(b) == b.submitted

\* Slip: the fence carries the serial after the last draw's.
FenceAhead(b) == b.serial + 1

\* The value the batch's fence writes to the label.
Fence(b) == b.serial

\* finish(): nothing submitted is left to wait for.
Joined == label >= submittedSerial

\* The draws of the open batch.
Recorded == IF open = None THEN <<>> ELSE batches[open].draws

\* The open batch cannot take another draw for certain.
Full == Len(Recorded) >= BatchDraws

Return == call' = Idle

-----------------------------------------------------------------------------
(* The calls.                                                               *)

\* draw(), up to the choice of a batch.  A full open batch is submitted, and so
\* is one whose upload, register or command space the draw may not fit: how
\* much space a draw takes is left open.  Calls that the validation rejects, and
\* draws that touch no pixel, change nothing.
CallDraw(r) ==
    /\ storage = "live" /\ call = Idle
    /\ ~failed /\ serial < MaxSerial
    /\ \E at \in {"submit", "begin", "record"} :
         /\ at = "begin" <=> open = None
         /\ at = "record" => ~Full
         /\ call' = [op |-> "draw", at |-> at, res |-> r, target |-> 0]
    /\ UNCHANGED <<queueVars, label, gpu, storage, history>>

\* submit() and finish() start by submitting the open batch.
CallSubmit ==
    /\ storage = "live" /\ call = Idle /\ ~failed
    /\ call' = [Idle EXCEPT !.op = "submit", !.at = "submit"]
    /\ UNCHANGED <<queueVars, label, gpu, storage, history>>

CallFinish ==
    /\ storage = "live" /\ call = Idle /\ ~failed
    /\ call' = [Idle EXCEPT !.op = "finish", !.at = "submit"]
    /\ UNCHANGED <<queueVars, label, gpu, storage, history>>

\* Where a call goes on once the open batch is out of the way.
AfterSubmit ==
    CASE call.op = "draw"   -> call' = [call EXCEPT !.at = "begin"]
      [] call.op = "submit" -> Return
      [] call.op = "finish" -> call' = [call EXCEPT !.at = "join"]

AtSubmit == call.at = "submit"

\* submit_open() with nothing recorded: the open batch is dropped.
SubmitNothing ==
    /\ AtSubmit
    /\ Recorded = <<>>
    /\ open' = None
    /\ AfterSubmit
    /\ UNCHANGED <<batches, cursor, serial, submittedSerial, failed, label, gpu, storage, history>>

\* submit_open() of a batch whose command space overflowed: it is dropped with
\* its draws, and the exception does not set `failed`.
SubmitOverflowed ==
    /\ AtSubmit
    /\ Recorded # <<>> /\ batches[open].overflow
    /\ discarded' = discarded \union SerialsOf(Recorded)
    /\ open' = None
    /\ Return
    /\ UNCHANGED <<batches, cursor, serial, submittedSerial, failed, label, gpu, storage, executed>>

CanSubmit ==
    /\ AtSubmit
    /\ Recorded # <<>> /\ ~batches[open].overflow

MarkSubmitted ==
    /\ batches' = [batches EXCEPT ![open].submitted = TRUE]
    /\ submittedSerial' = batches[open].serial
    /\ open' = None

Enqueue ==
    gpu' = Append(gpu, [slot |-> open, fence |-> Fence(batches[open]), draws |-> Recorded])

\* The driver accepts the command buffer.
SubmitAccepted ==
    /\ CanSubmit
    /\ MarkSubmitted
    /\ Enqueue
    /\ call' = [call EXCEPT !.at = "retire"]
    /\ UNCHANGED <<cursor, serial, failed, label, storage, history>>

\* The driver reports an error.  Whether it took the command buffer is unknown.
SubmitFailed ==
    /\ CanSubmit
    /\ MarkSubmitted
    /\ failed' = TRUE
    /\ \/ /\ Enqueue
          /\ UNCHANGED discarded
       \/ /\ discarded' = discarded \union SerialsOf(Recorded)
          /\ UNCHANGED gpu
    /\ Return
    /\ UNCHANGED <<cursor, serial, label, storage, executed>>

\* The retire() after the suspend point.
RetireSubmitted ==
    /\ call.at = "retire"
    /\ batches' = Retired(batches, label)
    /\ AfterSubmit
    /\ UNCHANGED <<open, cursor, serial, submittedSerial, failed, label, gpu, storage, history>>

\* The end of begin_batch() on the ring position bs[cursor], once its previous
\* submission has retired: its owners go, its storage is rewritten from the start.
Rewind(bs) ==
    /\ batches' = [bs EXCEPT ![cursor] = Blank(bs[cursor].serial)]
    /\ open' = cursor
    /\ cursor' = (cursor + 1) % InFlightSlots
    /\ call' = [call EXCEPT !.at = "record"]

\* Growing the upload arena fails: the slot stays unused and the draw throws.
GrowFails(bs) ==
    /\ batches' = [bs EXCEPT ![cursor].owners = {}]
    /\ Return
    /\ UNCHANGED <<open, cursor>>

\* begin_batch(), up to its wait.
BeginBatch ==
    /\ call.at = "begin"
    /\ LET bs == Retired(batches, label) IN
         \/ /\ SlotBusy(bs[cursor])
            /\ batches' = bs
            /\ call' = [call EXCEPT !.at = "wait", !.target = bs[cursor].serial]
            /\ UNCHANGED <<open, cursor>>
         \/ ~SlotBusy(bs[cursor]) /\ (Rewind(bs) \/ GrowFails(bs))
    /\ UNCHANGED <<serial, submittedSerial, failed, label, gpu, storage, history>>

\* finish() after its submission.
Join ==
    /\ call.at = "join"
    /\ \/ /\ Joined
          /\ batches' = Retired(batches, label)
          /\ Return
       \/ /\ ~Joined
          /\ call' = [call EXCEPT !.at = "wait", !.target = submittedSerial]
          /\ UNCHANGED batches
    /\ UNCHANGED <<open, cursor, serial, submittedSerial, failed, label, gpu, storage, history>>

\* wait_until() sees its target: retire(), then back to begin_batch() or finish().
WaitDone ==
    /\ call.at = "wait" /\ label >= call.target
    /\ LET bs == Retired(batches, label) IN
         \/ call.op = "draw" /\ (Rewind(bs) \/ GrowFails(bs))
         \/ /\ call.op = "finish"
            /\ batches' = bs
            /\ Return
            /\ UNCHANGED <<open, cursor>>
    /\ UNCHANGED <<serial, submittedSerial, failed, label, gpu, storage, history>>

\* Slip: the wait starts over instead of giving up.
WaitTimeoutRetries == call.at = "wait" /\ label < call.target /\ UNCHANGED vars

\* wait_until() uses up its attempts: the queue fails and keeps everything.
WaitTimeout ==
    /\ call.at = "wait" /\ label < call.target
    /\ failed' = TRUE
    /\ Return
    /\ UNCHANGED <<batches, open, cursor, serial, submittedSerial, label, gpu, storage, history>>

\* The timing callback or the sleep inside gpu_wait_slice() throws: the call ends
\* with an error, nothing is released, and the queue has not failed.
WaitInterrupted ==
    /\ call.at = "wait"
    /\ Return
    /\ UNCHANGED <<queueVars, label, gpu, storage, history>>

\* The rest of draw(): packets, owners, the next serial.
Record ==
    /\ call.at = "record" /\ ~batches[open].overflow
    /\ serial' = serial + 1
    /\ batches' = [batches EXCEPT
         ![open].draws  = Append(@, [serial |-> serial + 1, res |-> call.res]),
         ![open].owners = @ \union {call.res},
         ![open].serial = serial + 1]
    /\ Return
    /\ UNCHANGED <<open, cursor, submittedSerial, failed, label, gpu, storage, history>>

\* The packets do not fit, now or since an earlier draw: the draw throws with no
\* serial and no owner, and the batch stays open, marked.
RecordOverflows ==
    /\ call.at = "record"
    /\ batches' = [batches EXCEPT ![open].overflow = TRUE]
    /\ Return
    /\ UNCHANGED <<open, cursor, serial, submittedSerial, failed, label, gpu, storage, history>>

\* ~AgcGxDraw(): pending work keeps the whole implementation; otherwise storage
\* and owners go, and an open batch is dropped with its draws.
Destroy ==
    /\ storage = "live" /\ call = Idle
    /\ \/ /\ Pending
          /\ storage' = "retained"
          /\ UNCHANGED <<batches, open, discarded>>
       \/ /\ ~Pending
          /\ storage' = "freed"
          /\ batches' = [s \in Slot |-> Blank(0)]
          /\ open' = None
          /\ discarded' = discarded \union SerialsOf(Recorded)
    /\ UNCHANGED <<cursor, serial, submittedSerial, failed, label, gpu, call, executed>>

-----------------------------------------------------------------------------
\* The GPU ends the oldest command buffer: its draws, as the storage holds them
\* now, have run, and its fence writes the label.  It may also hang: no fairness.
GpuEnd ==
    /\ gpu # <<>>
    /\ executed' = executed \union SerialsOf(batches[Head(gpu).slot].draws)
    /\ label' = Head(gpu).fence
    /\ gpu' = Tail(gpu)
    /\ UNCHANGED <<queueVars, call, storage, discarded>>

CallStep ==
    \/ SubmitNothing \/ SubmitOverflowed \/ SubmitAccepted \/ SubmitFailed \/ RetireSubmitted
    \/ BeginBatch \/ Join \/ WaitDone \/ WaitTimeout
    \/ Record \/ RecordOverflows

Next ==
    \/ \E r \in Resource : CallDraw(r)
    \/ CallSubmit \/ CallFinish
    \/ CallStep \/ WaitInterrupted
    \/ Destroy
    \/ GpuEnd

Spec == Init /\ [][Next]_vars

\* A call's own steps are a running thread's, and its waits are bounded; nothing
\* is assumed of the GPU or of the caller.
FairSpec == Spec /\ WF_vars(CallStep)

-----------------------------------------------------------------------------
(* Properties.                                                              *)

\* Every variable keeps its type, and no serial passes the limit the code checks.
TypeOK ==
    /\ batches \in [Slot -> Batch]
    /\ open \in Slot \union {None}
    /\ cursor \in Slot
    /\ serial \in 0 .. MaxSerial
    /\ submittedSerial \in Nat
    /\ failed \in BOOLEAN
    /\ label \in Nat
    /\ gpu \in Seq(Entry)
    /\ call \in Call
    /\ storage \in {"live", "freed", "retained"}
    /\ executed \subseteq Nat
    /\ discarded \subseteq Nat

\* begin_batch() never rewrites a batch the GPU may still read: the storage of
\* every unfinished submission is what it was at the submission.
StorageStable ==
    \A i \in DOMAIN gpu : batches[gpu[i].slot].draws = gpu[i].draws

\* Whatever an unfinished submission reads through is still owned by its batch
\* (retire(), begin_batch(), the timeout and the destructor all drop owners).
OwnersHeld ==
    \A i \in DOMAIN gpu : \A k \in DOMAIN gpu[i].draws :
        gpu[i].draws[k].res \in batches[gpu[i].slot].owners

\* What the GPU has yet to run is intact and alive.
InFlightIntact == StorageStable /\ OwnersHeld

\* The destructor frees the batches only when the GPU runs none of them.
FreedOnlyIdle == storage = "freed" => gpu = <<>>

\* finish() returns without an error only when every draw accepted so far has
\* executed or an earlier exception reported it lost.
FinishJoins ==
    [][ (/\ call.op = "finish"
         /\ call' = Idle /\ ~failed' /\ discarded' = discarded /\ ~WaitInterrupted)
        => 1 .. serial \subseteq executed \union discarded ]_vars

\* A failed submission or a timeout keeps every resource and refuses further
\* work: no owner leaves and nothing more reaches the GPU (agc_gx_draw.h).
FailureRetains ==
    [][ /\ failed' => \A s \in Slot : batches[s].owners \subseteq batches'[s].owners
        /\ failed => Len(gpu') <= Len(gpu) /\ serial' = serial ]_vars

\* Every call ends, even when the GPU hangs: the waits are bounded.
CallsReturn == (call # Idle) ~> (call = Idle)

\* A call ends, ends well or has reported why not, and keeps what it must.
CallsEndWell == CallsReturn /\ FinishJoins /\ FailureRetains

\* The queue as its callers see it.
Stream == INSTANCE DrawStream WITH
    accepted  <- serial,
    completed <- label,
    stopped   <- failed,
    pinned    <- UNION {{d \in {batches[s].draws[i] : i \in DOMAIN batches[s].draws} :
                            d.res \in batches[s].owners} : s \in Slot}

\* Ring, batches and label implement the in-order stream of pinned draws.
ImplementsStream == Stream!Spec
=============================================================================
