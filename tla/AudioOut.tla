------------------------------ MODULE AudioOut ------------------------------
(***************************************************************************)
(* The SDL playback driver over the console's audio output (audio_ps5.c):  *)
(* two buffers in turn, a native call that waits for its place in the      *)
(* queue, and a close that keeps memory the device may still read.  SDL    *)
(* asks for a buffer, fills it and plays it on a thread it joins before it *)
(* closes; a call that fails disconnects the device, which SDL then        *)
(* closes, an open that fails included.                                    *)
(*                                                                         *)
(* A block is its number.  The device reads the block it holds until it    *)
(* has taken the next one, and plays it then.  Statistics, the format and  *)
(* the check of block sizes are left out.                                  *)
(***************************************************************************)
EXTENDS Integers, Sequences

CONSTANTS MaxOpens,  \* bound: times the device is opened
          MaxBlocks  \* bound: blocks of one opening

ASSUME AudioAssumption == MaxOpens \in Nat /\ MaxBlocks \in Nat

VARIABLES
    opened,    \* openings so far: the last is device->hidden's
    device,    \* "closed", "ready", "filling", "filled" or "broken"
    port,      \* hidden->port is open
    next,      \* next_buffer
    memory,    \* openings whose buffers are allocated
    content,   \* what each buffer holds; 0 is silence, -1 half a block
    block,     \* blocks SDL has mixed for this opening
    taken,     \* history: blocks the device took
    holds,     \* the block each opened port is reading, and where
    played     \* history: what was heard

audioVars == <<opened, device, port, next, memory, content, block, taken, holds, played>>

Opening == 1..MaxOpens
Buffers == {0, 1}
Nothing == [buffer |-> 0, block |-> 0]

AudioInit ==
    /\ opened = 0 /\ device = "closed" /\ port = FALSE /\ next = 0 /\ memory = {}
    /\ content = [o \in Opening |-> [b \in Buffers |-> 0]]
    /\ block = 0 /\ taken = <<>> /\ played = <<>>
    /\ holds = [o \in Opening |-> Nothing]

\* OpenDevice(): the buffers may be refused, then the port, then the volume.
OpenDevice ==
    /\ device = "closed" /\ opened < MaxOpens
    /\ opened' = opened + 1 /\ next' = 0
    /\ block' = 0 /\ taken' = <<>> /\ played' = <<>>
    /\ \/ device' = "broken" /\ port' = FALSE /\ UNCHANGED memory
       \/ /\ memory' = memory \cup {opened + 1}
          /\ \/ device' = "broken" /\ port' \in BOOLEAN
             \/ device' = "ready" /\ port' = TRUE
    /\ UNCHANGED <<content, holds>>

\* GetDeviceBuf(), and SDL begins to mix into the buffer.
GetDeviceBuf ==
    /\ device = "ready" /\ block < MaxBlocks
    /\ device' = "filling"
    /\ content' = [content EXCEPT ![opened][next] = -1]
    /\ next' = 1 - next
    /\ UNCHANGED <<opened, port, memory, block, taken, holds, played>>

Mixed ==
    /\ device = "filling" /\ device' = "filled"
    /\ block' = block + 1
    /\ content' = [content EXCEPT ![opened][1 - next] = block + 1]
    /\ UNCHANGED <<opened, port, next, memory, taken, holds, played>>

\* The device is done with the block it holds and takes another.
Take(b, number) ==
    /\ holds' = [holds EXCEPT ![opened] = [buffer |-> b, block |-> number]]
    /\ played' = IF holds[opened] = Nothing THEN played
                 ELSE Append(played, content[opened][holds[opened].buffer])

\* PlayDevice() returns once the block has a place; an error leaves it open
\* whether the device took it.
PlayDevice ==
    /\ device = "filled"
    /\ \/ /\ device' \in {"ready", "broken"}
          /\ Take(1 - next, block) /\ taken' = Append(taken, block)
       \/ device' = "broken" /\ UNCHANGED <<holds, played, taken>>
    /\ UNCHANGED <<opened, port, next, memory, content, block>>

\* Slip: a close that succeeds is enough.
FreeClosed(drained, closed) == memory' = IF closed THEN memory \ {opened} ELSE memory

\* Memory is given back only when the device has drained and closed.
FreeBuffers(drained, closed) ==
    memory' = IF drained /\ closed THEN memory \ {opened} ELSE memory

\* CloseDevice(), once SDL has joined its thread: Output(NULL) waits until the
\* queue is empty.  After an error of either call the device may still read.
CloseDevice ==
    /\ device \in {"ready", "broken"} /\ device' = "closed" /\ port' = FALSE
    /\ IF port
       THEN \E drained, closed \in BOOLEAN :
               /\ FreeBuffers(drained, closed)
               /\ \/ Take(0, 0)
                  \/ ~drained /\ UNCHANGED <<holds, played>>
       ELSE memory' = memory \ {opened} /\ UNCHANGED <<holds, played>>
    /\ UNCHANGED <<opened, next, content, block, taken>>

\* A port that missed its drain ends its block at last.
LateEnd(o) ==
    /\ holds[o] # Nothing
    /\ o # opened \/ device = "closed"
    /\ holds' = [holds EXCEPT ![o] = Nothing]
    /\ UNCHANGED <<opened, device, port, next, memory, content, block, taken, played>>

AudioNext ==
    \/ OpenDevice \/ GetDeviceBuf \/ Mixed \/ PlayDevice \/ CloseDevice
    \/ \E o \in Opening : LateEnd(o)

AudioSpec == AudioInit /\ [][AudioNext]_audioVars

-----------------------------------------------------------------------------
\* What the device reads is the block it took, in memory that is still there,
\* also after an error or a close that failed; and what is heard are the blocks
\* SDL mixed, each whole, once and in order.
SoundIntact ==
    /\ \A o \in Opening : holds[o] # Nothing =>
         /\ o \in memory
         /\ content[o][holds[o].buffer] = holds[o].block
    /\ played = SubSeq(taken, 1, Len(played))
    /\ \A k \in 1..Len(taken) : taken[k] = k
=============================================================================
