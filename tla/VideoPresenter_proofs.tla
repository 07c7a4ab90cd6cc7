------------------------ MODULE VideoPresenter_proofs ------------------------
(***************************************************************************)
(* What is on screen is whole, framed in black and in order, for any       *)
(* number of frames and any set of viewports.                              *)
(*                                                                         *)
(* DisplaySound is not inductive: the copy goes to the slot that `current` *)
(* leaves free, so `current` has to be what VideoOut scans out whenever a  *)
(* call may copy, which depends on what became of the last flip.  IInv     *)
(* follows a frame from the copy to the screen.                            *)
(***************************************************************************)
EXTENDS VideoPresenter, TLAPS

\* Outside the viewport an image is black.
Clean(b) == b.view = Full \/ b.lit \subseteq {b.view}

\* The frame on screen, 0 for none.
Shown == IF video.displayed = None THEN 0 ELSE buffers[video.displayed].image

\* What each step of a call relies on.
CallOk ==
    /\ call.at = "idle" => call = Idle
    /\ call.at \in {"status", "join", "flip"} =>
           handle /\ outstanding = None /\ call.view \in View /\ call.op \in {"submit", "present"}
    /\ call.at \in {"status", "join"} => ~failed
    /\ call.at = "flip" => failed
    /\ call.at = "poll" =>
           /\ outstanding # None
           /\ call.op = "retire" \/ (call.op # "none" /\ handle /\ ~failed /\ call.view \in View)
    /\ call.at = "presented" => outstanding # None /\ handle /\ ~failed /\ call.op = "present"

\* A display that is closed shows nothing.
Closed == ~handle => video.displayed = None /\ video.flip = None /\ current = None

\* With no flip on its way the display is where the presenter left it.
InSync ==
    handle /\ outstanding = None /\ (~failed \/ call.at = "flip") =>
        /\ video.flip = None /\ video.displayed = current
        /\ IF call.at = "flip" THEN Shown + 1 = serial
           ELSE Shown = serial /\ video.arg = serial /\ video.count >= count

\* A flip on its way is to the last frame, which is whole and comes next.
FlipOk ==
    /\ video.flip # None =>
         /\ handle /\ video.flip.arg = serial
         /\ buffers[video.flip.slot].image = serial /\ Clean(buffers[video.flip.slot])
         /\ Shown + 1 = serial
    /\ handle /\ outstanding # None /\ video.flip = None => Shown = serial

ShownOk == Shown \in Nat /\ (video.displayed # None => Clean(buffers[video.displayed]))

\* The GPU writes behind the screen, for the call that waits or after a failure.
WritingOk ==
    writing # None =>
        /\ video.flip = None /\ writing.slot # video.displayed
        /\ call.at = "join" \/ (failed /\ call.at # "flip")

\* The frame of the call in progress is on its way to the back buffer, or there.
FrameOk ==
    /\ call.at = "join" =>
         /\ serial < MaxSerial
         /\ LET b == IF writing = None THEN buffers[BackSlot] ELSE writing
            IN  b.image = serial + 1 /\ b.view = call.view /\ Clean(b)
         /\ writing # None => writing.slot = BackSlot
    /\ call.at = "flip" => /\ writing = None
                           /\ buffers[BackSlot].image = serial /\ Clean(buffers[BackSlot])

\* The remembered viewport is what a buffer shows, while buffers are copied to.
RectsOk ==
    \A s \in Slot :
        /\ call.at = "flip" \/ ~failed
        /\ ~(call.at = "join" /\ s = BackSlot)
        /\ previousRect[s] \in Rect
        => buffers[s].lit \subseteq {previousRect[s]}

IInv ==
    TypeOK /\ CallOk /\ Closed /\ InSync /\ FlipOk /\ ShownOk /\ WritingOk /\ FrameOk /\ RectsOk

-----------------------------------------------------------------------------
\* Frames are numbers; what is torn, absent or without a viewport is not.
LEMMA Distinct ==
    /\ MaxSerial \in Nat /\ Full \in View /\ Full \notin Rect /\ None \notin View
    /\ None \notin Slot /\ None \notin 0 .. MaxSerial /\ Torn \notin 0 .. MaxSerial
    /\ None \notin Submitted /\ None \notin Flip /\ None \notin Work
    /\ Rect \subseteq View /\ Slot = {0, 1}
BY PresenterAssumption DEF View, Slot

\* The copy goes to the slot that is not current.
LEMMA BackSlotFacts == ASSUME TypeOK PROVE BackSlot \in Slot /\ BackSlot # current
BY Distinct DEF TypeOK, BackSlot

\* The presenter starts in step with a display that shows nothing.
LEMMA InitIInv == Init => IInv
<1> SUFFICES ASSUME Init PROVE IInv
  OBVIOUS
<1> USE Distinct DEF Init
<1>1. TypeOK
  <2>1. [image |-> Torn, view |-> None, lit |-> {None}] \in Contents
    BY DEF Contents, Image
  <2>2. /\ 0 \in 0 .. MaxSerial /\ 0 \in Nat
        /\ Idle \in [op : {"none", "submit", "present", "retire"},
                    at : {"idle", "poll", "status", "join", "flip", "presented"},
                    view : View \union {None}, before : Nat]
    BY DEF Idle
  <2> QED
    BY <2>1, <2>2 DEF TypeOK
<1>2. CallOk /\ Closed /\ InSync /\ WritingOk /\ FrameOk
  BY DEF CallOk, Closed, InSync, WritingOk, FrameOk, Idle, Shown
<1>3. FlipOk /\ ShownOk
  BY DEF FlipOk, ShownOk, Shown
<1>4. RectsOk
  BY DEF RectsOk
<1> QED
  BY <1>1, <1>2, <1>3, <1>4 DEF IInv

\* A call begins: nothing but the call changes, and submit() and present() begin
\* in step with the display or with a flip to retire.
LEMMA CallsKeepIInv ==
    ASSUME IInv,
           \/ \E op \in {"submit", "present"}, view \in View : CallPresent(op, view)
           \/ CallRetirePending
    PROVE  IInv'
<1> USE Distinct DEF IInv
<1>1. /\ call = Idle /\ UNCHANGED <<own, buffers, writing, video>>
      /\ \/ /\ handle /\ ~failed
            /\ \E op \in {"submit", "present"}, view \in View :
                 \/ outstanding = None /\ call' = [op |-> op, at |-> "status", view |-> view, before |-> 0]
                 \/ outstanding # None /\ call' = [op |-> op, at |-> "poll", view |-> view, before |-> 0]
         \/ outstanding # None /\ call' = [op |-> "retire", at |-> "poll", view |-> None, before |-> 0]
  BY DEF CallPresent, CallRetirePending, Idle
<1>2. call'.at \in {"poll", "status"} /\ call.at = "idle"
  BY <1>1 DEF Idle
<1>3. TypeOK'
  BY <1>1 DEF TypeOK, own
<1>4. CallOk'
  BY <1>1 DEF CallOk, own
<1>5. Closed' /\ InSync' /\ FlipOk' /\ ShownOk' /\ WritingOk' /\ FrameOk'
  BY <1>1, <1>2 DEF Closed, InSync, FlipOk, ShownOk, Shown, WritingOk, FrameOk, own
<1>6. RectsOk'
  BY <1>1, <1>2 DEF RectsOk, own, BackSlot
<1> QED
  BY <1>3, <1>4, <1>5, <1>6

\* The retired flip is what the display shows.
LEMMA RetireKeepsIInv == ASSUME IInv, RetireSeen PROVE IInv'
<1> USE Distinct DEF IInv
<1>1. /\ outstanding # None /\ outstanding.slot \in Slot /\ handle
      /\ OnScreen /\ call.at \in {"poll", "presented"}
      /\ current' = outstanding.slot /\ count' = video.count /\ outstanding' = None
      /\ UNCHANGED <<handle, serial, failed, previousRect, buffers, writing, video>>
  BY DEF RetireSeen, CallOk, TypeOK, Submitted
<1>2. \/ call' = Idle
      \/ /\ call' = [call EXCEPT !.at = "status"] /\ ~failed /\ call.view \in View
         /\ call.op \in {"submit", "present"}
  BY DEF RetireSeen, Return, CallOk, TypeOK
<1>3. call'.at \in {"idle", "status"} /\ (call'.at = "idle" => call' = Idle)
  BY <1>2 DEF Idle, TypeOK
<1>4. TypeOK'
  BY <1>1, <1>2 DEF TypeOK, Idle
<1>5. CallOk'
  BY <1>1, <1>2, <1>3 DEF CallOk, TypeOK, Idle
<1>6. Closed' /\ InSync'
  <2>1. Shown = serial
    BY <1>1 DEF OnScreen, FlipOk
  <2>2. Shown' = Shown
    BY <1>1 DEF Shown
  <2> QED
    BY <1>1, <1>3, <2>1, <2>2 DEF Closed, InSync, OnScreen, TypeOK
<1>7. FlipOk' /\ ShownOk' /\ WritingOk' /\ FrameOk'
  BY <1>1, <1>3 DEF FlipOk, ShownOk, Shown, WritingOk, FrameOk, OnScreen
<1>8. RectsOk'
  BY <1>1, <1>3 DEF RectsOk
<1> QED
  BY <1>4, <1>5, <1>6, <1>7, <1>8

\* An error or an exception ends the call.  After the copy was begun it is final.
LEMMA FailuresKeepIInv ==
    ASSUME IInv,
           \/ RetireFails \/ RetireInterrupted \/ Rejected \/ StatusFails \/ JoinFails
           \/ FlipFails /\ UNCHANGED video
    PROVE  IInv'
<1> USE Distinct DEF IInv
<1>1. /\ call' = Idle /\ failed' \in {failed, TRUE} /\ call.at # "idle"
      /\ call.at \in {"join", "flip"} => failed' = TRUE
      /\ UNCHANGED <<handle, current, serial, count, outstanding, previousRect, buffers, writing, video>>
  <2>1. CASE RetireFails \/ StatusFails \/ JoinFails
    BY <2>1 DEF RetireFails, StatusFails, JoinFails, Fail, Return
  <2>2. CASE RetireInterrupted \/ Rejected
    BY <2>2 DEF RetireInterrupted, Rejected, Return, own
  <2>3. CASE FlipFails /\ UNCHANGED video
    BY <2>3 DEF FlipFails, Return, CallOk, TypeOK, own
  <2> QED
    BY <2>1, <2>2, <2>3
<1>2. call'.at = "idle" /\ Idle.at = "idle"
  BY <1>1 DEF Idle
<1>3. failed' = failed \/ failed' = TRUE
  BY <1>1
<1>4. TypeOK'
  BY <1>1, <1>3 DEF TypeOK, Idle
<1>5. CallOk' /\ Closed' /\ FlipOk' /\ FrameOk'
  BY <1>1, <1>2 DEF CallOk, Closed, FlipOk, Shown, FrameOk
<1>6. ShownOk' /\ WritingOk'
  BY <1>1, <1>2, <1>3 DEF ShownOk, Shown, WritingOk, TypeOK
<1>7. InSync'
  <2>1. CASE failed' = TRUE
    BY <1>2, <2>1 DEF InSync
  <2>2. CASE failed' = failed /\ call.at \notin {"join", "flip"}
    BY <1>1, <1>2, <2>2 DEF InSync, Shown
  <2> QED
    BY <1>1, <1>3, <2>1, <2>2
<1>8. RectsOk'
  <2>1. CASE failed' = TRUE
    BY <1>2, <2>1 DEF RectsOk
  <2>2. CASE failed' = failed /\ call.at \notin {"join", "flip"}
    BY <1>1, <1>2, <2>2 DEF RectsOk
  <2> QED
    BY <1>1, <1>3, <2>1, <2>2
<1> QED
  BY <1>4, <1>5, <1>6, <1>7, <1>8

\* The GPU's work goes behind the screen, the new image black where it must be.
LEMMA CopyKeepsIInv == ASSUME IInv, Copy \/ CopyFails PROVE IInv'
<1> USE Distinct DEF IInv
<1>0. /\ BackSlot \in Slot /\ BackSlot # video.displayed /\ video.flip = None /\ writing = None
      /\ call.at = "status" /\ serial < MaxSerial /\ serial + 1 \in 0 .. MaxSerial
      /\ call.view \in View /\ call.op \in {"submit", "present"}
      /\ handle /\ ~failed /\ outstanding = None
      /\ UNCHANGED <<handle, current, serial, count, outstanding, previousRect, video>>
  BY BackSlotFacts DEF Copy, CopyFails, CallOk, InSync, WritingOk, Exhausted, TypeOK, own
<1>1. BackSlot' = BackSlot /\ Shown' = Shown
  <2>1. \A s \in Slot : s # BackSlot => buffers'[s] = buffers[s]
    BY <1>0 DEF Copy, CopyFails, TypeOK
  <2> QED
    BY <1>0, <2>1 DEF BackSlot, Shown, TypeOK
<1>2. CASE Copy
  <2> DEFINE w == [slot |-> BackSlot, image |-> serial + 1, view |-> call.view,
                   lit |-> {call.view} \union IF NeedsClear(call.view) THEN {} ELSE buffers[BackSlot].lit]
  <2>1. /\ writing' = w /\ buffers' = [buffers EXCEPT ![BackSlot].image = Torn]
        /\ call'.at = "join" /\ call'.view = call.view /\ call'.op = call.op
        /\ call' = [call EXCEPT !.at = "join", !.before = video.count]
    BY <1>2 DEF Copy, TypeOK
  <2>2. w \in Work /\ w # None
    BY <1>0 DEF Work, Image, TypeOK, Contents
  <2>3. w.slot = BackSlot /\ w.image = serial + 1 /\ w.view = call.view /\ Clean(w)
    BY <1>0 DEF NeedsClear, Clean, RectsOk, View
  <2> HIDE DEF w
  <2>4. [buffers[BackSlot] EXCEPT !.image = Torn] \in Contents
    BY <1>0 DEF TypeOK, Contents, Image
  <2>5. TypeOK'
    <3>1. buffers' \in [Slot -> Contents]
      BY <2>1, <2>4 DEF TypeOK
    <3>3. failed' = failed
      BY <1>2 DEF Copy, own
    <3>2. call' \in [op : {"none", "submit", "present", "retire"},
                    at : {"idle", "poll", "status", "join", "flip", "presented"},
                    view : View \union {None}, before : Nat]
      BY <2>1 DEF TypeOK
    <3> QED
      BY <1>0, <2>1, <2>2, <3>1, <3>2, <3>3 DEF TypeOK
  <2>6. CallOk' /\ Closed' /\ WritingOk'
    <3>1. failed' = failed
      BY <1>2 DEF Copy, own
    <3> QED
      BY <1>0, <2>1, <2>2, <2>3, <3>1 DEF CallOk, Closed, WritingOk
  <2>7. \A s \in Slot : s # BackSlot => buffers'[s] = buffers[s]
    BY <2>1 DEF TypeOK
  <2>8. InSync' /\ FlipOk' /\ ShownOk'
    BY <1>0, <1>1, <2>1, <2>7 DEF InSync, FlipOk, ShownOk, TypeOK
  <2>9. FrameOk'
    BY <1>0, <1>1, <2>1, <2>2, <2>3 DEF FrameOk
  <2>10. RectsOk'
    BY <1>0, <1>1, <2>1, <2>7 DEF RectsOk, TypeOK
  <2> QED
    BY <2>5, <2>6, <2>8, <2>9, <2>10
<1>3. CASE CopyFails
  <2>1. /\ call' = Idle /\ call'.at = "idle" /\ failed' = TRUE
        /\ buffers' \in {buffers, [buffers EXCEPT ![BackSlot].image = Torn]}
        /\ writing' # None => writing'.slot = BackSlot
        /\ writing' \in Work \union {None}
    BY <1>0, <1>3 DEF CopyFails, Fail, Return, Idle, Work, Image
  <2>2. [buffers[BackSlot] EXCEPT !.image = Torn] \in Contents
    BY <1>0 DEF TypeOK, Contents, Image
  <2>3. TypeOK'
    BY <1>0, <2>1, <2>2 DEF TypeOK, Idle
  <2>4. CallOk' /\ Closed' /\ WritingOk' /\ FrameOk' /\ InSync' /\ RectsOk'
    BY <1>0, <1>1, <2>1 DEF CallOk, Closed, WritingOk, FrameOk, InSync, RectsOk
  <2>5. \A s \in Slot : s # BackSlot => buffers'[s] = buffers[s]
    BY <2>1 DEF TypeOK
  <2>6. FlipOk' /\ ShownOk'
    BY <1>0, <1>1, <2>5 DEF FlipOk, ShownOk, TypeOK
  <2> QED
    BY <2>3, <2>4, <2>6
<1> QED
  BY <1>2, <1>3

\* The join has seen the image whole; the flip that follows shows the next frame.
LEMMA JoinKeepsIInv == ASSUME IInv, Join PROVE IInv'
<1> USE Distinct DEF IInv
<1>1. /\ call.at = "join" /\ writing = None /\ failed' = TRUE /\ serial' = serial + 1
      /\ call'.at = "flip" /\ call'.view = call.view /\ call'.op = call.op
      /\ call' = [call EXCEPT !.at = "flip"]
      /\ UNCHANGED <<handle, current, count, outstanding, buffers, writing, video>>
  BY DEF Join, Joined, TypeOK
<1>2. /\ BackSlot' = BackSlot /\ BackSlot \in Slot /\ Shown' = Shown
      /\ previousRect' = [previousRect EXCEPT ![BackSlot] = call.view]
  BY <1>1, BackSlotFacts DEF Join, BackSlot, Shown
<1>3. /\ handle /\ ~failed /\ outstanding = None /\ serial < MaxSerial /\ serial + 1 \in 0 .. MaxSerial
      /\ call.view \in View /\ Shown = serial /\ video.flip = None
      /\ buffers[BackSlot].image = serial + 1 /\ Clean(buffers[BackSlot])
      /\ buffers[BackSlot].view = call.view
  BY <1>1 DEF CallOk, InSync, FrameOk, TypeOK
<1>4. TypeOK'
  BY <1>1, <1>2, <1>3 DEF TypeOK
<1>5. CallOk' /\ Closed' /\ WritingOk'
  BY <1>1, <1>3 DEF CallOk, Closed, WritingOk
<1>6. InSync' /\ FlipOk' /\ ShownOk' /\ FrameOk'
  BY <1>1, <1>2, <1>3 DEF InSync, FlipOk, ShownOk, FrameOk, Clean
<1>7. RectsOk'
  BY <1>1, <1>2, <1>3 DEF RectsOk, Clean, TypeOK
<1> QED
  BY <1>4, <1>5, <1>6, <1>7

\* VideoOut takes the flip, whether or not its error says otherwise.
LEMMA FlipKeepsIInv == ASSUME IInv, SubmitFlip \/ (FlipFails /\ QueueFlip) PROVE IInv'
<1> USE Distinct DEF IInv
<1> DEFINE f == [slot |-> BackSlot, arg |-> serial, latched |-> FALSE]
           o == [slot |-> BackSlot, before |-> call.before]
<1>1. /\ call.at = "flip" /\ video' = [video EXCEPT !.flip = f]
      /\ UNCHANGED <<handle, current, serial, count, previousRect, buffers, writing>>
      /\ \/ failed' = failed /\ outstanding' = outstanding /\ call' = Idle
         \/ /\ failed' = FALSE /\ outstanding' = o
            /\ \/ call' = Idle
               \/ call' = [call EXCEPT !.at = "presented"] /\ call.op = "present"
  BY DEF SubmitFlip, FlipFails, QueueFlip, Return, own
<1>2. /\ handle /\ failed /\ outstanding = None /\ writing = None /\ video.flip = None
      /\ Shown + 1 = serial /\ BackSlot \in Slot
      /\ buffers[BackSlot].image = serial /\ Clean(buffers[BackSlot])
  BY <1>1, BackSlotFacts DEF CallOk, InSync, FrameOk
<1>3. f \in Flip /\ f # None /\ f.slot = BackSlot /\ f.arg = serial /\ o \in Submitted /\ o # None
  <2>1. serial \in 0 .. MaxSerial /\ call.before \in Nat
    BY DEF TypeOK
  <2>2. f \in Flip /\ o \in Submitted
    BY <1>2, <2>1 DEF Flip, Submitted
  <2> QED
    BY <2>2
<1> HIDE DEF f, o
<1>4. /\ video'.flip = f /\ video'.displayed = video.displayed
      /\ BackSlot' = BackSlot /\ Shown' = Shown
  BY <1>1 DEF TypeOK, BackSlot, Shown
<1>5. /\ call'.at \in {"idle", "presented"} /\ (call'.at = "idle" => call' = Idle)
      /\ call'.at = "presented" => call'.op = "present" /\ failed' = FALSE /\ outstanding' = o
  BY <1>1 DEF TypeOK, Idle
<1>6. TypeOK'
  <2>1. /\ call' \in [op : {"none", "submit", "present", "retire"},
                     at : {"idle", "poll", "status", "join", "flip", "presented"},
                     view : View \union {None}, before : Nat]
    BY <1>1 DEF TypeOK, Idle
  <2>2. failed' \in BOOLEAN /\ outstanding' \in Submitted \union {None}
    BY <1>1, <1>3 DEF TypeOK
  <2>3. video' \in [displayed : Slot \union {None}, arg : 0 .. MaxSerial, count : Nat,
                   flip : Flip \union {None}]
    BY <1>1, <1>3 DEF TypeOK
  <2> QED
    BY <1>1, <2>1, <2>2, <2>3 DEF TypeOK
<1>7. CallOk' /\ Closed'
  BY <1>1, <1>2, <1>3, <1>5 DEF CallOk, Closed
<1>8. InSync'
  BY <1>1, <1>2, <1>3, <1>5 DEF InSync
<1>9. FlipOk' /\ ShownOk' /\ WritingOk' /\ FrameOk'
  BY <1>1, <1>2, <1>3, <1>4, <1>5 DEF FlipOk, ShownOk, WritingOk, FrameOk, Clean
<1>10. RectsOk'
  BY <1>1, <1>5 DEF RectsOk
<1> QED
  BY <1>6, <1>7, <1>8, <1>9, <1>10

\* Once VideoOut is closed it scans out nothing.
LEMMA CloseKeepsIInv == ASSUME IInv, Close PROVE IInv'
<1> USE Distinct DEF IInv
<1>1. /\ call' = Idle /\ call'.at = "idle" /\ handle' = FALSE /\ current' = None
      /\ video'.displayed = None /\ video'.flip = None
      /\ video' = [video EXCEPT !.displayed = None, !.flip = None]
      /\ UNCHANGED <<serial, count, failed, outstanding, previousRect, call, buffers, writing>>
  BY DEF Close, TypeOK, Idle
<1>2. TypeOK'
  BY <1>1 DEF TypeOK
<1>3. CallOk' /\ Closed' /\ InSync' /\ FlipOk' /\ FrameOk'
  BY <1>1 DEF CallOk, Closed, InSync, FlipOk, FrameOk
<1>4. ShownOk' /\ WritingOk'
  <2>1. writing # None => writing.slot \in Slot
    BY DEF TypeOK, Work
  <2> QED
    BY <1>1, <2>1 DEF ShownOk, Shown, WritingOk
<1>5. RectsOk'
  BY <1>1 DEF RectsOk
<1> QED
  BY <1>2, <1>3, <1>4, <1>5

\* The GPU ends work behind the screen.
LEMMA GpuKeepsIInv == ASSUME IInv, GpuEnd PROVE IInv'
<1> USE Distinct DEF IInv
<1> DEFINE c == [image |-> writing.image, view |-> writing.view, lit |-> writing.lit]
<1>1. /\ writing # None /\ writing \in Work /\ writing.slot \in Slot /\ writing' = None
      /\ buffers' = [buffers EXCEPT ![writing.slot] = c]
      /\ UNCHANGED <<own, call, video>>
  BY DEF GpuEnd, TypeOK, Work
<1>2. c \in Contents /\ (Clean(writing) => Clean(c))
  BY <1>1 DEF Contents, Work, Clean
<1>3. c.image = writing.image /\ c.view = writing.view
  OBVIOUS
<1> HIDE DEF c
<1>4. /\ writing.slot # video.displayed /\ video.flip = None
      /\ call.at = "join" \/ (failed /\ call.at # "flip")
  BY <1>1 DEF WritingOk
<1>5. /\ \A s \in Slot : s # writing.slot => buffers'[s] = buffers[s]
      /\ buffers'[writing.slot] = c
      /\ Shown' = Shown /\ BackSlot' = BackSlot
  BY <1>1, <1>4 DEF Shown, BackSlot, own, TypeOK
<1>6. TypeOK'
  BY <1>1, <1>2 DEF TypeOK, own
<1>7. CallOk' /\ Closed' /\ InSync' /\ WritingOk'
  BY <1>1, <1>5 DEF CallOk, Closed, InSync, WritingOk, own
<1>8. FlipOk' /\ ShownOk'
  BY <1>1, <1>4, <1>5 DEF FlipOk, ShownOk, own, TypeOK
<1>9. FrameOk'
  BY <1>1, <1>2, <1>3, <1>4, <1>5 DEF FrameOk, own
<1>10. RectsOk'
  BY <1>1, <1>4, <1>5 DEF RectsOk, FrameOk, CallOk, own
<1> QED
  BY <1>6, <1>7, <1>8, <1>9, <1>10

\* VideoOut counts a flip, then shows it.
LEMMA VideoKeepsIInv == ASSUME IInv, Latch \/ VerticalBlank PROVE IInv'
<1> USE Distinct DEF IInv
<1>1. /\ UNCHANGED <<own, call, buffers, writing>> /\ video.flip # None /\ video.flip \in Flip
      /\ video.flip.slot \in Slot /\ video.flip.arg = serial /\ handle
      /\ buffers[video.flip.slot].image = serial /\ Clean(buffers[video.flip.slot])
      /\ Shown + 1 = serial /\ writing = None
  BY DEF Latch, VerticalBlank, TypeOK, Flip, FlipOk, WritingOk
<1>2. ~(outstanding = None /\ (~failed \/ call.at = "flip"))
  BY <1>1 DEF InSync
<1>3. CASE Latch
  <2>1. /\ video' = [video EXCEPT !.count = @ + 1, !.arg = video.flip.arg, !.flip.latched = TRUE]
        /\ video'.displayed = video.displayed /\ video'.flip = [video.flip EXCEPT !.latched = TRUE]
    BY <1>3 DEF Latch, TypeOK
  <2>2. /\ video'.flip \in Flip /\ video'.flip.slot = video.flip.slot /\ video'.flip.arg = video.flip.arg
        /\ Shown' = Shown
    <3>1. \A x \in Flip : LET y == [x EXCEPT !.latched = TRUE]
                         IN  y \in Flip /\ y.slot = x.slot /\ y.arg = x.arg
      BY DEF Flip
    <3>2. /\ video'.flip \in Flip /\ video'.flip.slot = video.flip.slot
          /\ video'.flip.arg = video.flip.arg
      BY <1>1, <2>1, <3>1
    <3>3. Shown' = Shown
      BY <1>1, <2>1 DEF Shown
    <3> QED
      BY <3>2, <3>3
  <2>3. TypeOK'
    <3>1. video.flip.arg \in 0 .. MaxSerial /\ video.count + 1 \in Nat
      BY <1>1 DEF Flip, TypeOK
    <3> QED
      BY <1>1, <2>1, <2>2, <3>1 DEF TypeOK, own
  <2>4. CallOk' /\ Closed' /\ InSync' /\ FlipOk' /\ ShownOk' /\ WritingOk'
    BY <1>1, <1>2, <2>1, <2>2 DEF CallOk, Closed, InSync, FlipOk, ShownOk, WritingOk, own
  <2>5. FrameOk' /\ RectsOk'
    BY <1>1 DEF FrameOk, RectsOk, BackSlot, own
  <2> QED
    BY <2>3, <2>4, <2>5
<1>4. CASE VerticalBlank
  <2>1. /\ video' = [video EXCEPT !.displayed = video.flip.slot, !.flip = None]
        /\ video'.displayed = video.flip.slot /\ video'.flip = None
    BY <1>4 DEF VerticalBlank, TypeOK
  <2>2. Shown' = serial
    BY <1>1, <2>1 DEF Shown
  <2>3. TypeOK'
    BY <1>1, <2>1 DEF TypeOK, own
  <2>4. CallOk' /\ Closed' /\ InSync' /\ FlipOk' /\ ShownOk' /\ WritingOk'
    BY <1>1, <1>2, <2>1, <2>2 DEF CallOk, Closed, InSync, FlipOk, ShownOk, WritingOk, own, TypeOK
  <2>5. FrameOk' /\ RectsOk'
    BY <1>1 DEF FrameOk, RectsOk, BackSlot, own
  <2> QED
    BY <2>3, <2>4, <2>5
<1> QED
  BY <1>3, <1>4

LEMMA NextKeepsIInv == IInv /\ [Next]_vars => IInv'
<1> SUFFICES ASSUME IInv, [Next]_vars PROVE IInv'
  OBVIOUS
<1>1. CASE UNCHANGED vars
  <2>1. UNCHANGED <<handle, current, serial, count, failed, outstanding, previousRect, call, buffers, writing, video>>
    BY <1>1 DEF vars, own
  <2>2. TypeOK'
    BY <2>1 DEF IInv, TypeOK
  <2>3. CallOk' /\ Closed' /\ InSync' /\ FlipOk' /\ ShownOk' /\ WritingOk' /\ FrameOk' /\ RectsOk'
    BY <2>1 DEF IInv, CallOk, Closed, InSync, FlipOk, ShownOk, Shown, WritingOk, FrameOk, RectsOk, BackSlot
  <2> QED
    BY <2>2, <2>3 DEF IInv
<1>2. CASE FlipFails
  <2>1. QueueFlip \/ UNCHANGED video
    BY <1>2 DEF FlipFails
  <2> QED
    BY <1>2, <2>1, FailuresKeepIInv, FlipKeepsIInv
<1>3. CASE \/ \E op \in {"submit", "present"}, view \in View : CallPresent(op, view)
           \/ CallRetirePending
  BY <1>3, CallsKeepIInv
<1>4. CASE RetireFails \/ RetireInterrupted \/ Rejected \/ StatusFails \/ JoinFails
  BY <1>4, FailuresKeepIInv
<1>5. CASE RetireSeen \/ Copy \/ CopyFails \/ Join \/ SubmitFlip
  <2>1. CASE RetireSeen
    BY <2>1, RetireKeepsIInv
  <2>2. CASE Copy \/ CopyFails
    BY <2>2, CopyKeepsIInv
  <2>3. CASE Join
    BY <2>3, JoinKeepsIInv
  <2>4. CASE SubmitFlip
    BY <2>4, FlipKeepsIInv
  <2> QED
    BY <1>5, <2>1, <2>2, <2>3, <2>4
<1>6. CASE Close \/ GpuEnd \/ Latch \/ VerticalBlank
  BY <1>6, CloseKeepsIInv, GpuKeepsIInv, VideoKeepsIInv
<1> QED
  BY <1>1, <1>2, <1>3, <1>4, <1>5, <1>6 DEF Next

\* The inductive invariant holds in every reachable state.
THEOREM Invariance == Spec => []IInv
  BY InitIInv, NextKeepsIInv, PTL DEF Spec

-----------------------------------------------------------------------------
\* The GPU writes no buffer that is on screen or on its way there, the borders are
\* black, and the "changed outside its presenter" error and current_target() are
\* right about the display (video_presenter.cpp).
THEOREM DisplaySafe == Spec => []DisplaySound
<1>1. ASSUME IInv PROVE DisplaySound
  <2> USE <1>1, Distinct DEF IInv
  <2>1. ScanoutStable
    BY DEF ScanoutStable, WritingOk
  <2>2. BordersClean
    BY DEF BordersClean, ShownOk, Clean
  <2>3. StatusAgrees
    BY DEF StatusAgrees, Agrees, CallOk, InSync
  <2>4. CurrentOnScreen
    BY DEF CurrentOnScreen, Closed, InSync
  <2> QED
    BY <2>1, <2>2, <2>3, <2>4 DEF DisplaySound
<1> QED
  BY <1>1, Invariance, PTL

\* A frame is offered when the last one shows, and shows whole when VideoOut gets
\* to it; nothing else moves the screen.
LEMMA NextRefines == IInv /\ [Next]_vars => [Screen!Next]_(Screen!vars)
<1> SUFFICES ASSUME IInv, [Next]_vars PROVE [Screen!Next]_(Screen!vars)
  OBVIOUS
<1> USE Distinct DEF IInv
<1>0. IInv'
  BY NextKeepsIInv
<1>1. ASSUME UNCHANGED <<serial, handle>>, Shown' = Shown PROVE UNCHANGED Screen!vars
  BY <1>1 DEF Screen!vars, Shown
<1>2. CASE \/ \E op \in {"submit", "present"}, view \in View : CallPresent(op, view)
           \/ CallRetirePending \/ RetireSeen \/ RetireFails \/ RetireInterrupted \/ Rejected
           \/ StatusFails \/ JoinFails \/ UNCHANGED vars
  <2>1. UNCHANGED <<serial, handle, buffers, video>>
    BY <1>2 DEF CallPresent, CallRetirePending, RetireSeen, RetireFails, RetireInterrupted, Rejected,
                StatusFails, JoinFails, vars, own
  <2> QED
    BY <1>1, <2>1 DEF Shown
<1>3. CASE Copy \/ CopyFails \/ GpuEnd
  <2>1. UNCHANGED <<serial, handle, video>>
    BY <1>3 DEF Copy, CopyFails, GpuEnd, own
  <2>2. \A s \in Slot : s = video.displayed => buffers'[s] = buffers[s]
    BY <1>3, BackSlotFacts DEF Copy, CopyFails, GpuEnd, CallOk, InSync, WritingOk, TypeOK, Work
  <2> QED
    BY <1>1, <2>1, <2>2 DEF Shown, TypeOK
<1>4. CASE SubmitFlip \/ FlipFails
  <2>1. UNCHANGED <<serial, handle, buffers>> /\ video'.displayed = video.displayed
    BY <1>4 DEF SubmitFlip, FlipFails, QueueFlip, own, TypeOK
  <2> QED
    BY <1>1, <2>1 DEF Shown
<1>5. CASE Latch
  <2>1. UNCHANGED <<serial, handle, buffers>> /\ video'.displayed = video.displayed
    BY <1>5 DEF Latch, own, TypeOK
  <2> QED
    BY <1>1, <2>1 DEF Shown
<1>6. CASE Join
  <2>1. handle /\ Shown = serial /\ serial' = serial + 1 /\ UNCHANGED <<handle, buffers, video>>
    BY <1>6 DEF Join, CallOk, InSync
  <2>2. Shown' = Shown
    BY <2>1 DEF Shown
  <2> QED
    BY <2>1, <2>2 DEF Shown, Screen!Next, Screen!Offer
<1>7. CASE VerticalBlank
  <2>1. /\ handle /\ Shown + 1 = serial /\ UNCHANGED <<serial, handle, buffers>>
        /\ video'.displayed = video.flip.slot /\ buffers[video.flip.slot].image = serial
        /\ video'.displayed # None
    BY <1>7 DEF VerticalBlank, FlipOk, TypeOK, Flip, own
  <2>2. Shown' = serial /\ Shown < serial
    BY <2>1 DEF Shown, ShownOk
  <2> QED
    BY <2>1, <2>2 DEF Shown, Screen!Next, Screen!Show
<1>8. CASE Close
  BY <1>8 DEF Close, TypeOK, Screen!Next, Screen!Close
<1> QED
  BY <1>2, <1>3, <1>4, <1>5, <1>6, <1>7, <1>8 DEF Next

\* Two buffers and polling show every frame handed over whole, once and in order,
\* whatever fails, times out or is interrupted.
THEOREM ScreenImplemented == Spec => ImplementsScreen
<1>1. Init => Screen!Init
  BY DEF Init, Screen!Init
<1> QED
  BY <1>1, NextRefines, Invariance, PTL DEF Spec, ImplementsScreen, Screen!Spec
=============================================================================
