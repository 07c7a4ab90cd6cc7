---------------------------- MODULE VideoPresenter ----------------------------
(***************************************************************************)
(* Presentation through two scan-out buffers (ps5/gpu/video_presenter.cpp) *)
(* with the blitter's GPU work and VideoOut as its environment.            *)
(*                                                                         *)
(* A frame is copied on the GPU into the buffer that is not on screen,     *)
(* joined, then flipped to.  In submit mode the flip may still be on its   *)
(* way when the call returns; the next call retires it first.  One thread  *)
(* presents; the GPU and VideoOut move between its steps.                  *)
(***************************************************************************)
EXTENDS Naturals

CONSTANTS
    MaxSerial,  \* frames presented (INT64_MAX in the code)
    Rect,       \* letterboxed viewports
    Full,       \* the viewport that covers the whole buffer
    Torn,       \* an image the GPU has only partly written
    None

Slot == {0, 1}
View == Rect \union {Full}

Image    == 0 .. MaxSerial \union {Torn}
Contents == [image : Image, view : View \union {None}, lit : SUBSET (View \union {None})]

\* A flip the presenter waits for, one VideoOut has, and work the GPU has.
Submitted == [slot : Slot, before : Nat]
Flip      == [slot : Slot, arg : 0 .. MaxSerial, latched : BOOLEAN]
Work      == [slot : Slot, image : Image, view : View, lit : SUBSET (View \union {None})]

ASSUME PresenterAssumption ==
    /\ MaxSerial \in Nat
    /\ Full \notin Rect /\ Torn \notin Nat
    /\ None \notin View \union Nat \union Submitted \union Flip \union Work

VARIABLES
    handle,        \* the VideoOut handle is open
    current,       \* slot of the last retired flip, or None
    serial,        \* frames handed to VideoOut
    count,         \* VideoOut's flip count at the last retirement
    failed,        \* a presentation is unresolved for good
    outstanding,   \* the submitted flip not yet seen on screen, or None
    previousRect,  \* the viewport each slot was last copied with, or None
    call,          \* the call in progress
    buffers,       \* scan-out memory: image, viewport, where it is not black
    writing,       \* unfinished GPU work: the slot and what it will hold
    video          \* VideoOut: what it scans out, its status, its flip

own == <<handle, current, serial, count, failed, outstanding, previousRect>>
vars == <<own, call, buffers, writing, video>>

Idle == [op |-> "none", at |-> "idle", view |-> None, before |-> 0]

\* The memory starts with anything in it.
Init ==
    /\ handle = TRUE /\ current = None /\ serial = 0 /\ count = 0
    /\ failed = FALSE /\ outstanding = None
    /\ previousRect = [s \in Slot |-> None]
    /\ call = Idle
    /\ buffers = [s \in Slot |-> [image |-> Torn, view |-> None, lit |-> {None}]]
    /\ writing = None
    /\ video = [displayed |-> None, arg |-> 0, count |-> 0, flip |-> None]

-----------------------------------------------------------------------------
(* Helpers of the implementation, each after the slips it could contain.    *)

Return == call' = Idle
Fail   == failed' = TRUE /\ Return

\* retire(): VideoOut reports this very flip as displayed, nothing behind it.
OnScreen ==
    /\ video.count > outstanding.before
    /\ video.arg = serial
    /\ video.flip = None
    /\ video.displayed = outstanding.slot

\* submit(): VideoOut is where this presenter left it.
Agrees ==
    /\ video.flip = None
    /\ serial > 0 => /\ video.displayed = current
                     /\ video.arg = serial
                     /\ video.count >= count

\* Slip: the two slots are taken the wrong way round.
FrontSlot == IF current = 1 THEN 1 ELSE 0

\* The buffer that is not on screen.
BackSlot == IF current = 0 THEN 1 ELSE 0

\* submit(): the serials have run out.
Exhausted == serial = MaxSerial

\* Slip: the viewport is compared with the last frame's, in the other buffer.
NeedsClearByFrame(view) == view # Full /\ view # previousRect[1 - BackSlot]

\* The letterbox must be blackened: what the slot held has another extent.
NeedsClear(view) == view # Full /\ view # previousRect[BackSlot]

-----------------------------------------------------------------------------
(* The calls.                                                               *)

\* submit() and present(): a flip still on its way is retired first.
CallPresent(op, view) ==
    /\ call = Idle /\ handle /\ ~failed
    /\ call' = [op |-> op, at |-> IF outstanding = None THEN "status" ELSE "poll",
                view |-> view, before |-> 0]
    /\ UNCHANGED <<own, buffers, writing, video>>

\* retire_pending(), which neither a failure nor close() stops.
CallRetirePending ==
    /\ call = Idle /\ outstanding # None
    /\ call' = [Idle EXCEPT !.op = "retire", !.at = "poll"]
    /\ UNCHANGED <<own, buffers, writing, video>>

\* retire() sees the flip on screen.
RetireSeen ==
    /\ call.at \in {"poll", "presented"} /\ handle
    /\ OnScreen
    /\ current' = outstanding.slot
    /\ count' = video.count
    /\ outstanding' = None
    /\ IF call.at = "poll" /\ call.op # "retire" THEN call' = [call EXCEPT !.at = "status"] ELSE Return
    /\ UNCHANGED <<handle, serial, failed, previousRect, buffers, writing, video>>

\* retire() cannot read the status, or uses up its attempts.
RetireFails ==
    /\ call.at \in {"poll", "presented"}
    /\ Fail
    /\ UNCHANGED <<handle, current, serial, count, outstanding, previousRect, buffers, writing, video>>

\* The timing callback or the sleep inside gpu_wait_slice() throws: the flip stays
\* outstanding and the presenter has not failed.
RetireInterrupted ==
    /\ call.at \in {"poll", "presented"}
    /\ Return
    /\ UNCHANGED <<own, buffers, writing, video>>

\* A bad image or the last serial: the call throws and nothing changes.
Rejected ==
    /\ call.at = "status"
    /\ Return
    /\ UNCHANGED <<own, buffers, writing, video>>

\* The status cannot be read, or is not the one this presenter left.
StatusFails ==
    /\ call.at = "status" /\ ~Exhausted
    /\ Fail
    /\ UNCHANGED <<handle, current, serial, count, outstanding, previousRect, buffers, writing, video>>

\* The clear, if any, and the copy go to the GPU.
Copy ==
    /\ call.at = "status" /\ ~Exhausted /\ Agrees
    /\ writing' = [slot |-> BackSlot, image |-> serial + 1, view |-> call.view,
                   lit |-> {call.view} \union IF NeedsClear(call.view) THEN {} ELSE buffers[BackSlot].lit]
    /\ buffers' = [buffers EXCEPT ![BackSlot].image = Torn]
    /\ call' = [call EXCEPT !.at = "join", !.before = video.count]
    /\ UNCHANGED <<own, video>>

\* The blitter throws before the copy is submitted; a clear may be on its way.
CopyFails ==
    /\ call.at = "status" /\ ~Exhausted /\ Agrees
    /\ \/ /\ NeedsClear(call.view)
          /\ buffers' = [buffers EXCEPT ![BackSlot].image = Torn]
          /\ writing' = [slot |-> BackSlot, image |-> Torn, view |-> call.view, lit |-> {}]
       \/ UNCHANGED <<buffers, writing>>
    /\ Fail
    /\ UNCHANGED <<handle, current, serial, count, outstanding, previousRect, video>>

\* AgcBlit::finish() has seen every blit end.
Joined == writing = None

\* The join succeeds; from here to the accepted flip an exception is final.
Join ==
    /\ call.at = "join" /\ Joined
    /\ previousRect' = [previousRect EXCEPT ![BackSlot] = call.view]
    /\ serial' = serial + 1
    /\ failed' = TRUE
    /\ call' = [call EXCEPT !.at = "flip"]
    /\ UNCHANGED <<handle, current, count, outstanding, buffers, writing, video>>

JoinFails ==
    /\ call.at = "join"
    /\ Fail
    /\ UNCHANGED <<handle, current, serial, count, outstanding, previousRect, buffers, writing, video>>

QueueFlip == video' = [video EXCEPT !.flip = [slot |-> BackSlot, arg |-> serial, latched |-> FALSE]]

\* VideoOut takes the flip.
SubmitFlip ==
    /\ call.at = "flip"
    /\ QueueFlip
    /\ outstanding' = [slot |-> BackSlot, before |-> call.before]
    /\ failed' = FALSE
    /\ IF call.op = "present" THEN call' = [call EXCEPT !.at = "presented"] ELSE Return
    /\ UNCHANGED <<handle, current, serial, count, previousRect, buffers, writing>>

\* The wait for the deadline throws, or VideoOut reports an error, whether or not
\* it took the flip.
FlipFails ==
    /\ call.at = "flip"
    /\ QueueFlip \/ UNCHANGED video
    /\ Return
    /\ UNCHANGED <<own, buffers, writing>>

\* close(): VideoOut lets go of both buffers; an error of VideoOutClose changes
\* nothing.
Close ==
    /\ call = Idle /\ handle
    /\ handle' = FALSE /\ current' = None
    /\ video' = [video EXCEPT !.displayed = None, !.flip = None]
    /\ UNCHANGED <<serial, count, failed, outstanding, previousRect, call, buffers, writing>>

-----------------------------------------------------------------------------
(* The environment.                                                         *)

\* The GPU ends the work on a slot, at any time, even after the call gave up.
GpuEnd ==
    /\ writing # None
    /\ buffers' = [buffers EXCEPT ![writing.slot] =
                     [image |-> writing.image, view |-> writing.view, lit |-> writing.lit]]
    /\ writing' = None
    /\ UNCHANGED <<own, call, video>>

\* VideoOut counts a flip before it scans the new buffer out.
Latch ==
    /\ video.flip # None /\ ~video.flip.latched
    /\ video' = [video EXCEPT !.count = @ + 1, !.arg = video.flip.arg, !.flip.latched = TRUE]
    /\ UNCHANGED <<own, call, buffers, writing>>

VerticalBlank ==
    /\ video.flip # None /\ video.flip.latched
    /\ video' = [video EXCEPT !.displayed = video.flip.slot, !.flip = None]
    /\ UNCHANGED <<own, call, buffers, writing>>

Next ==
    \/ \E op \in {"submit", "present"}, view \in View : CallPresent(op, view)
    \/ CallRetirePending
    \/ RetireSeen \/ RetireFails \/ RetireInterrupted
    \/ Rejected \/ StatusFails \/ Copy \/ CopyFails \/ Join \/ JoinFails
    \/ SubmitFlip \/ FlipFails
    \/ Close
    \/ GpuEnd \/ Latch \/ VerticalBlank

Spec == Init /\ [][Next]_vars

-----------------------------------------------------------------------------
(* Properties.                                                              *)

\* Every variable keeps its type.
TypeOK ==
    /\ handle \in BOOLEAN /\ failed \in BOOLEAN
    /\ current \in Slot \union {None}
    /\ serial \in 0 .. MaxSerial
    /\ count \in Nat
    /\ outstanding \in Submitted \union {None}
    /\ previousRect \in [Slot -> View \union {None}]
    /\ call \in [op : {"none", "submit", "present", "retire"},
                 at : {"idle", "poll", "status", "join", "flip", "presented"},
                 view : View \union {None}, before : Nat]
    /\ buffers \in [Slot -> Contents]
    /\ writing \in Work \union {None}
    /\ video \in [displayed : Slot \union {None}, arg : 0 .. MaxSerial, count : Nat,
                  flip : Flip \union {None}]

\* The GPU never writes the buffer on screen, nor one a flip is on its way to
\* (slot choice, retirement before reuse, and the join before the flip).
ScanoutStable ==
    writing # None => /\ writing.slot # video.displayed
                      /\ video.flip # None => writing.slot # video.flip.slot

\* Outside its viewport the screen is black: the letterbox of a buffer is
\* cleared whenever what that buffer held before had another extent.
BordersClean ==
    video.displayed # None =>
        LET shown == buffers[video.displayed]
        IN  shown.view = Full \/ shown.lit \subseteq {shown.view}

\* The "changed outside its presenter" error cannot come from the presenter's
\* own calls, whatever threw or timed out before.
StatusAgrees == call.at = "status" => Agrees

\* current_target() refuses, or returns the buffer on screen.
CurrentOnScreen ==
    (current # None /\ ~failed /\ outstanding = None) => video.displayed = current

\* What is on screen is whole and framed in black, and what the presenter
\* believes of the display is so.
DisplaySound == TypeOK /\ ScanoutStable /\ BordersClean /\ StatusAgrees /\ CurrentOnScreen

\* The frames as the player sees them.
Screen == INSTANCE FrameScreen WITH
    offered <- serial,
    shown   <- IF video.displayed = None THEN 0 ELSE buffers[video.displayed].image,
    on      <- handle

\* Two buffers and polling show every submitted frame whole, once and in order.
ImplementsScreen == Screen!Spec
=============================================================================
