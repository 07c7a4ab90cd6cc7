-------------------------------- MODULE GxFrame --------------------------------
(***************************************************************************)
(* A frame: the FIFO, the open batch of draws, the EFB copies and the      *)
(* presentation over one GPU queue (ps5/gpu/gx_frame_renderer.cpp,         *)
(* gx_texture_copy.cpp, gx_display_copy.cpp, gx_renderer.cpp).             *)
(*                                                                         *)
(* The draw queue and the blitter stand here for what AgcGxDraw and        *)
(* AgcBlit show of them: work runs in submission order, finish() joins,    *)
(* and unfinished work holds its targets.  An image is the number of the   *)
(* last command that changed it.  One thread issues commands; the guest's  *)
(* timing callback cannot reenter.                                         *)
(***************************************************************************)
EXTENDS Naturals, Sequences, FiniteSets, SequencesExt

CONSTANTS
    Dest,       \* destinations of EFB texture copies in Wii RAM
    Texture,    \* identities of targets for texture copies
    Display,    \* identities of targets for display copies
    Displays,   \* size of the display pool (3 in the code)
    MaxFifo,    \* bound: draws in the FIFO or the open batch
    MaxStamp,   \* bound: draws, copies and clears in a run
    MaxCores,   \* bound: renderers made in a run
    Efb, None

Image == 0 .. MaxStamp
Held  == [target : Texture \union Display, image : Image]

ASSUME FrameAssumption ==
    /\ Displays \in Nat \ {0, 1} /\ Cardinality(Display) > Displays
    /\ MaxFifo \in Nat /\ MaxStamp \in Nat /\ MaxCores \in Nat
    /\ Texture \intersect Display = {} /\ Efb # None
    /\ {Efb, None} \intersect (Texture \union Display \union Dest) = {}
    /\ None \notin Nat \union Held

VARIABLES
    fifo,       \* draws issued and not yet decoded
    batch,      \* draws decoded into the open batch
    gpu,        \* submitted work, oldest first
    memory,     \* the image in each copy target
    efb,        \* the image in the EFB
    back,       \* the image in the scan-out buffer that is not shown
    copies,     \* per destination: its last copy's target and image, or None
    due,        \* destinations whose bytes are not in RAM yet
    pool,       \* the display pool
    latest,     \* the frame's display copy and its image, or None
    lingering,  \* targets of blits that have ended and are not released
    core,       \* renderers made so far; the last one is in use
    inFrame, failed, closed,
    broken,     \* of "draws" and "blits": whose waits have timed out
    stamp,      \* draws, copies and clears issued so far
    call,       \* the call in progress
    output      \* the image last shown on screen or read back by the CPU

gpuSide == <<memory, efb, back>>
copySide == <<copies, due>>
display == <<pool, latest>>
status  == <<core, inFrame, failed, closed, broken>>
vars == <<fifo, batch, gpu, gpuSide, copySide, display, lingering, status, stamp, call, output>>

Idle  == [op |-> "none", at |-> "idle", dest |-> None, clear |-> FALSE]
Job   == [kind : {"draw", "copy", "clear", "present"}, from : Texture \union Display \union {Efb, None},
          to : Texture \union Display \union {Efb, None}, image : Image, stamp : Image, core : Nat]

Init ==
    /\ fifo = <<>> /\ batch = <<>> /\ gpu = <<>>
    /\ memory = [t \in Texture \union Display |-> 0] /\ efb = 0 /\ back = 0
    /\ copies = [d \in Dest |-> None] /\ due = {}
    /\ pool = {} /\ latest = None /\ lingering = {}
    /\ core = 0 /\ inFrame = FALSE /\ failed = FALSE /\ closed = FALSE
    /\ broken = {} /\ stamp = 0 /\ call = Idle
    /\ output = 0

-----------------------------------------------------------------------------
(* Helpers of the implementation, each after the slips it could contain.    *)

Return == call' = Idle
Ready  == call = Idle /\ ~closed

\* Draws are decoded only with the frame's receivers in place; copies also need
\* the blitter.
Drawing == Ready /\ inFrame /\ "draws" \notin broken
Working == Drawing /\ "blits" \notin broken

DrawJob(s, from, image) ==
    [kind |-> "draw", from |-> from, to |-> Efb, image |-> image, stamp |-> s, core |-> core]
CopyJob(t)    == [kind |-> "copy", from |-> Efb, to |-> t, image |-> 0, stamp |-> 0, core |-> core]
ClearJob(s)   == [kind |-> "clear", from |-> None, to |-> Efb, image |-> 0, stamp |-> s, core |-> core]
PresentJob(t) == [kind |-> "present", from |-> t, to |-> None, image |-> 0, stamp |-> 0, core |-> core]

\* The FIFO's draws as packets: each takes the copy it samples from the cache.
Decoded ==
    [i \in DOMAIN fifo |->
        IF fifo[i].tex = None THEN DrawJob(fifo[i].stamp, None, 0)
        ELSE DrawJob(fifo[i].stamp, copies[fifo[i].tex].target, copies[fifo[i].tex].image)]

\* drain() and AgcGxDraw::submit(): every draw so far, in order.
DrawsSoFar == batch \o Decoded

\* The image in an EFB that showed image, once the work s has run: that of the
\* last job to the EFB.
Painters(s) == {i \in DOMAIN s : s[i].to = Efb}
After(s, image) == IF Painters(s) = {} THEN image ELSE s[Max(Painters(s))].stamp

\* The image the EFB is to show once everything issued has run.
Due == After(gpu \o DrawsSoFar, efb)

Unfinished(kinds) == \E i \in DOMAIN gpu : gpu[i].kind \in kinds
Draws == {"draw"}
Blits == {"copy", "clear", "present"}

\* What unfinished work and unreleased blits refer to.
InUse == (UNION {{gpu[i].from, gpu[i].to} : i \in DOMAIN gpu})
           \union {batch[i].from : i \in DOMAIN batch} \union lingering

\* Slip: a target is free although a published copy refers to it.
FreeOfWork == Texture \ InUse

\* pooled_target(): the pool alone refers to it, or it is new.
FreeTextures == Texture \ (InUse \union {copies[d].target : d \in {x \in Dest : copies[x] # None}})

\* Display targets that only the pool refers to.
FreeDisplays == {t \in pool : t \notin InUse /\ (latest # None => t # latest.target)}

PoolFull == Cardinality(pool) >= Displays

\* Slip: a full pool is taken to have a free target.
PoolReadyBlindly == TRUE

\* The display copy can take a target without joining the blits.
PoolReady == ~PoolFull \/ FreeDisplays # {}

\* The targets a display copy may take: a free one of the pool, or else a new one.
NextDisplays ==
    IF FreeDisplays # {} THEN FreeDisplays
    ELSE IF PoolFull THEN {} ELSE Display \ (pool \union InUse)

\* An optional clear behind a copy.
ClearBehind(clear) == IF clear THEN <<ClearJob(stamp + 1)>> ELSE <<>>

-----------------------------------------------------------------------------
(* The guest's commands.                                                    *)

\* A draw enters the FIFO, inside a frame or ahead of the next one.
Draw(tex) ==
    /\ Ready
    /\ Len(fifo) + Len(batch) < MaxFifo /\ stamp < MaxStamp
    /\ tex # None => copies[tex] # None
    /\ fifo' = Append(fifo, [stamp |-> stamp + 1, tex |-> tex])
    /\ stamp' = stamp + 1
    /\ UNCHANGED <<batch, gpu, gpuSide, copySide, display, lingering, status, call, output>>

\* The FIFO is decoded whenever it is drained.
Drain ==
    /\ Drawing /\ fifo # <<>>
    /\ fifo' = <<>> /\ batch' = DrawsSoFar
    /\ UNCHANGED <<gpu, gpuSide, copySide, display, lingering, status, stamp, call, output>>

\* A full batch is submitted by the draw that follows it.
SubmitBatch ==
    /\ Drawing /\ batch # <<>>
    /\ gpu' = gpu \o batch /\ batch' = <<>>
    /\ UNCHANGED <<fifo, gpuSide, copySide, display, lingering, status, stamp, call, output>>

\* GXCopyTex: the draws are submitted; the copy, the clear and publish() follow.
CopyTexture(d, clear) ==
    /\ Working /\ stamp < MaxStamp
    /\ \E t \in FreeTextures :
         /\ gpu' = gpu \o DrawsSoFar \o <<CopyJob(t)>> \o ClearBehind(clear)
         /\ copies' = [copies EXCEPT ![d] = [target |-> t, image |-> Due]]
    /\ fifo' = <<>> /\ batch' = <<>>
    /\ due' = due \union {d}
    /\ stamp' = stamp + 1
    /\ lingering' = {}
    /\ UNCHANGED <<gpuSide, display, status, call, output>>

\* The copy, its clear or publish() throws: what was submitted before runs.
CopyTextureFails ==
    /\ Working /\ stamp < MaxStamp
    /\ \/ gpu' = gpu \o DrawsSoFar
       \/ \E t \in FreeTextures, clear \in BOOLEAN :
             gpu' = gpu \o DrawsSoFar \o <<CopyJob(t)>> \o ClearBehind(clear)
    /\ fifo' = <<>> /\ batch' = <<>>
    /\ stamp' = stamp + 1
    /\ lingering' \in {lingering, {}}
    /\ UNCHANGED <<gpuSide, copySide, display, status, call, output>>

\* GXCopyDisp joins the draws first.
CopyDisplay(clear) ==
    /\ Working /\ stamp < MaxStamp
    /\ gpu' = gpu \o DrawsSoFar
    /\ fifo' = <<>> /\ batch' = <<>>
    /\ call' = [op |-> "display", at |-> "draws", dest |-> None, clear |-> clear]
    /\ UNCHANGED <<gpuSide, copySide, display, lingering, status, stamp, output>>

\* GXCopyDisp: all targets of a full pool in use wait for the blits.
CheckPool ==
    /\ call.at = "pool"
    /\ call' = [call EXCEPT !.at = IF PoolReady THEN "take" ELSE "blits"]
    /\ UNCHANGED <<fifo, batch, gpu, gpuSide, copySide, display, lingering, status, stamp, output>>

\* GXCopyDisp: a pooled target, or a new one, the copy and the clear.
TakeDisplay ==
    /\ call.at = "take"
    /\ \E t \in NextDisplays :
         /\ pool' = pool \union {t}
         /\ latest' = [target |-> t, image |-> Due]
         /\ gpu' = gpu \o <<CopyJob(t)>> \o ClearBehind(call.clear)
    /\ stamp' = stamp + 1
    /\ lingering' = {}
    /\ Return
    /\ UNCHANGED <<fifo, batch, gpuSide, copySide, status, output>>

\* GXCopyDisp: the copy or the clear throws.  The target stays in the pool, and what
\* was submitted runs, but the frame's display copy is still the one before.
TakeDisplayFails ==
    /\ call.at = "take"
    /\ \E t \in NextDisplays :
         /\ pool' = pool \union {t}
         /\ \/ gpu' = gpu
            \/ \E clear \in {FALSE, call.clear} : gpu' = gpu \o <<CopyJob(t)>> \o ClearBehind(clear)
    /\ stamp' = stamp + 1
    /\ lingering' \in {lingering, {}}
    /\ Return
    /\ UNCHANGED <<fifo, batch, gpuSide, copySide, latest, status, output>>

\* The CPU touches the bytes of a copy for the first time: the readback joins
\* the blits, then the image goes to RAM.
ReadCopy(d) ==
    /\ Ready /\ d \in due
    /\ call' = [op |-> "read", at |-> "blits", dest |-> d, clear |-> FALSE]
    /\ UNCHANGED <<fifo, batch, gpu, gpuSide, copySide, display, lingering, status, stamp, output>>

Encode ==
    /\ call.at = "encode"
    /\ output' = memory[copies[call.dest].target]
    /\ due' = due \ {call.dest}
    /\ Return
    /\ UNCHANGED <<fifo, batch, gpu, gpuSide, copies, display, lingering, status, stamp>>

-----------------------------------------------------------------------------
(* The frame.                                                               *)

\* begin(): another extent needs another renderer, once the old one's draws have
\* ended; an interrupted frame may have left its batch open.
Begin(fresh) ==
    /\ Ready /\ ~inFrame /\ ~failed /\ stamp < MaxStamp
    /\ core = 0 => fresh
    /\ fresh => core < MaxCores
    /\ call' = [Idle EXCEPT !.op = "begin",
                            !.at = IF ~fresh THEN "fill" ELSE IF core = 0 THEN "core" ELSE "joining"]
    /\ UNCHANGED <<fifo, batch, gpu, gpuSide, copySide, display, lingering, status, stamp, output>>

\* Slip: the join does not submit the open batch.
FinishDrawsUnsubmitted ==
    /\ call.at = "joining"
    /\ call' = [call EXCEPT !.at = "draws"]
    /\ UNCHANGED <<fifo, batch, gpu, gpuSide, copySide, display, lingering, status, stamp, output>>

\* begin() and close(): the renderer submits its open batch and joins the draws.
FinishDraws ==
    /\ call.at = "joining"
    /\ gpu' = IF "draws" \in broken THEN gpu ELSE gpu \o batch
    /\ batch' = IF "draws" \in broken THEN batch ELSE <<>>
    /\ call' = [call EXCEPT !.at = "draws"]
    /\ UNCHANGED <<fifo, gpuSide, copySide, display, lingering, status, stamp, output>>

NewCore ==
    /\ call.at = "core"
    /\ core' = core + 1
    /\ pool' = {} /\ latest' = None
    /\ call' = [call EXCEPT !.at = "fill"]
    /\ UNCHANGED <<fifo, batch, gpu, gpuSide, copySide, lingering, inFrame, failed, closed, broken, stamp, output>>

\* begin(): the EFB is cleared, the display copy forgotten, the receivers set.
Fill ==
    /\ call.at = "fill" /\ "blits" \notin broken
    /\ gpu' = Append(gpu, ClearJob(stamp + 1))
    /\ stamp' = stamp + 1
    /\ latest' = None
    /\ inFrame' = TRUE
    /\ lingering' = {}
    /\ Return
    /\ UNCHANGED <<fifo, batch, gpuSide, copySide, pool, core, failed, closed, broken, output>>

\* end(): the FIFO is drained and the draws are joined.
End ==
    /\ Ready /\ inFrame
    /\ IF Drawing
       THEN gpu' = gpu \o DrawsSoFar /\ fifo' = <<>> /\ batch' = <<>>
       ELSE UNCHANGED <<fifo, batch, gpu>>
    /\ call' = [Idle EXCEPT !.op = "end", !.at = "draws"]
    /\ UNCHANGED <<gpuSide, copySide, display, lingering, status, stamp, output>>

\* end(): the presenter copies the display copy, or else the EFB.
Present ==
    /\ call.at = "present" /\ "blits" \notin broken
    /\ gpu' = Append(gpu, PresentJob(IF latest = None THEN Efb ELSE latest.target))
    /\ lingering' = {}
    /\ call' = [call EXCEPT !.at = "blits"]
    /\ UNCHANGED <<fifo, batch, gpuSide, copySide, display, status, stamp, output>>

\* end(): the flip, and the receivers go.  What the other buffer holds is
\* overwritten before it is shown.
Flip ==
    /\ call.at = "flip"
    /\ output' = back /\ back' = 0
    /\ inFrame' = FALSE
    /\ Return
    /\ UNCHANGED <<fifo, batch, gpu, memory, efb, copySide, display, lingering, core, failed, closed, broken, stamp>>

\* close(): an open frame is dropped; if VideoOut does not close, or a frame has
\* failed, everything is kept.
Close ==
    /\ Ready
    /\ inFrame' = FALSE
    /\ fifo' = IF inFrame THEN <<>> ELSE fifo
    /\ \/ UNCHANGED call
       \/ ~failed /\ call' = [Idle EXCEPT !.op = "close", !.at = "blits"]
    /\ UNCHANGED <<batch, gpu, gpuSide, copySide, display, lingering, core, failed, closed, broken, stamp, output>>

\* close(): everything is released.
Release ==
    /\ call.at = "release"
    /\ closed' = TRUE
    /\ pool' = {} /\ latest' = None
    /\ Return
    /\ UNCHANGED <<fifo, batch, gpu, gpuSide, copySide, lingering, core, inFrame, failed, broken, stamp, output>>

-----------------------------------------------------------------------------
(* Joins and failures.                                                      *)

AfterDraws == [display |-> "pool", begin |-> "core", end |-> "present", close |-> "release"]
AfterBlits == [display |-> "take", end |-> "flip", read |-> "encode", close |-> "joining"]

JoinDraws ==
    /\ call.at = "draws" /\ "draws" \notin broken /\ ~Unfinished(Draws)
    /\ call' = [call EXCEPT !.at = AfterDraws[call.op]]
    /\ UNCHANGED <<fifo, batch, gpu, gpuSide, copySide, display, lingering, status, stamp, output>>

\* Slip: the blits are taken as joined once they are submitted.
BlitsJoinedBlindly == "blits" \notin broken

\* AgcBlit::finish() returns.
BlitsJoined == "blits" \notin broken /\ ~Unfinished(Blits)

JoinBlits ==
    /\ call.at = "blits" /\ BlitsJoined
    /\ lingering' = {}
    /\ call' = [call EXCEPT !.at = AfterBlits[call.op]]
    /\ UNCHANGED <<fifo, batch, gpu, gpuSide, copySide, display, status, stamp, output>>

\* A wait that times out breaks its queue for good.
Timeout ==
    \/ /\ \/ call.at = "draws" /\ Unfinished(Draws)
          \/ call.at = "blits" /\ Unfinished(Blits)
       /\ broken' = broken \union {call.at}
    \/ UNCHANGED broken

\* A wait times out or is interrupted, an allocation, the presenter or VideoOut
\* fails: the call throws, and a frame or a close that it ends has failed.
CallFails ==
    /\ call.at \in {"draws", "blits", "core", "fill", "take", "present", "flip", "encode"}
    /\ Timeout
    /\ failed' = (failed \/ call.op \in {"begin", "end", "close"})
    /\ inFrame' = (inFrame /\ call.op # "end")
    /\ Return
    /\ UNCHANGED <<fifo, batch, gpu, gpuSide, copySide, display, lingering, core, closed, stamp, output>>

\* The GPU ends its oldest work.  It may hang.
GpuEnd ==
    /\ gpu # <<>>
    /\ gpu' = Tail(gpu)
    /\ LET job == Head(gpu)
       IN  /\ efb' = IF job.to = Efb THEN job.stamp ELSE efb
           /\ memory' = IF job.kind = "copy" THEN [memory EXCEPT ![job.to] = efb] ELSE memory
           /\ back' = IF job.kind # "present" THEN back
                      ELSE IF job.from = Efb THEN efb ELSE memory[job.from]
           /\ lingering' = IF job.kind \in Blits
                           THEN lingering \union ({job.from, job.to} \intersect (Texture \union Display))
                           ELSE lingering
    /\ UNCHANGED <<fifo, batch, copySide, display, status, stamp, call, output>>

Next ==
    \/ \E tex \in Dest \union {None} : Draw(tex)
    \/ Drain \/ SubmitBatch
    \/ \E d \in Dest, clear \in BOOLEAN : CopyTexture(d, clear)
    \/ CopyTextureFails
    \/ \E clear \in BOOLEAN : CopyDisplay(clear)
    \/ CheckPool \/ TakeDisplay \/ TakeDisplayFails
    \/ \E d \in Dest : ReadCopy(d)
    \/ Encode
    \/ \E fresh \in BOOLEAN : Begin(fresh)
    \/ NewCore \/ Fill \/ End \/ Present \/ Flip
    \/ Close \/ FinishDraws \/ Release
    \/ JoinDraws \/ JoinBlits \/ CallFails
    \/ GpuEnd

Spec == Init /\ [][Next]_vars

-----------------------------------------------------------------------------
(* Properties.                                                              *)

\* Every variable keeps its type; the display pool keeps its size, and the frame's
\* display copy is one of its targets.
TypeOK ==
    /\ fifo \in Seq([stamp : Image, tex : Dest \union {None}])
    /\ batch \in Seq(Job) /\ gpu \in Seq(Job)
    /\ memory \in [Texture \union Display -> Image] /\ efb \in Image /\ back \in Image
    /\ copies \in [Dest -> Held \union {None}]
    /\ due \subseteq Dest
    /\ pool \subseteq Display /\ Cardinality(pool) <= Displays
    /\ latest \in Held \union {None} /\ (latest # None => latest.target \in pool)
    /\ lingering \subseteq Texture \union Display
    /\ core \in Nat /\ inFrame \in BOOLEAN /\ failed \in BOOLEAN /\ closed \in BOOLEAN
    /\ broken \subseteq {"draws", "blits"} /\ stamp \in Image
    /\ call.dest \in Dest \union {None} /\ call.clear \in BOOLEAN
    /\ output \in Image

\* GXCopyDisp never ends in "presenter has not retired previous buffers", and the
\* display copy of a frame stays one of the pool's targets.
DisplayServed == TypeOK /\ (call.at = "take" => FreeDisplays # {} \/ ~PoolFull)

\* close() and a change of extent release a renderer only when the GPU has ended
\* its draws, and close() only when it has ended everything.
ReleasedIdle ==
    /\ closed => gpu = <<>>
    /\ \A i \in DOMAIN gpu : gpu[i].kind = "draw" => gpu[i].core = core

\* A draw that runs samples the image its texture had when it was decoded: no later
\* copy has been given the target it reads.
SamplesKept ==
    gpu # <<>> /\ Head(gpu).kind = "draw" /\ Head(gpu).from # None
        => memory[Head(gpu).from] = Head(gpu).image

\* What unfinished draws need is there: their renderer and the images they sample.
WorkSupported == ReleasedIdle /\ SamplesKept

\* The game's view: FIFO, batches, asynchronous copies and pools act as if every
\* command had run when it was issued.
Immediate == INSTANCE GxImmediate WITH
    issued  <- stamp,
    ahead   <- ~inFrame /\ fifo # <<>>,
    left    <- ~inFrame /\ batch # <<>>,
    efb     <- Due,
    texture <- [d \in Dest |-> IF copies[d] = None THEN 0 ELSE copies[d].image],
    latest  <- IF inFrame /\ latest # None THEN latest.image ELSE None

ImplementsImmediate == Immediate!Spec
=============================================================================
