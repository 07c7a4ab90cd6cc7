------------------------------ MODULE AsyncLog ------------------------------
(***************************************************************************)
(* mkw_log(): callers append lines to a bounded queue under its mutex, one *)
(* detached thread swaps the queue out and writes it (async_log.cpp).  A   *)
(* step is what happens under the mutex, a notification, or one write().   *)
(*                                                                         *)
(* A line is a number; its bytes are pairs of that number and a position.  *)
(* Spurious wake-ups happen.  The slowest write is left out.               *)
(***************************************************************************)
EXTENDS Integers, SequencesExt

CONSTANTS Caller,     \* threads that log
          LineSizes,  \* bytes of a line
          QueueLimit, \* kQueueLimit
          MaxLines    \* bound: lines logged in a behaviour

\* A line that formats to nothing is not pushed.
ASSUME LogAssumption == LineSizes \subseteq Nat \ {0} /\ QueueLimit \in Nat /\ MaxLines \in Nat

VARIABLES
    queued,     \* bytes waiting for the writer (pending)
    dropped,    \* lines refused by a full queue
    writing,    \* the writer's batch
    done,       \* bytes of it written
    writer,     \* "check", "asleep", "delay", "write" or "report"
    notifying,  \* callers between the mutex and notify_one()
    file,       \* bytes that reached stderr
    lines,      \* history: lines pushed
    accepted,   \* history: bytes the queue took
    lost        \* history: bytes a failing write gave up

logVars == <<queued, dropped, writing, done, writer, notifying, file, lines, accepted, lost>>

LogInit ==
    /\ queued = <<>> /\ dropped = 0 /\ writing = <<>> /\ done = 0 /\ writer = "check"
    /\ notifying = {} /\ file = <<>> /\ lines = 0 /\ accepted = {} /\ lost = {}

Fits(size) == Len(queued) + size <= QueueLimit

\* push(), under the mutex.
Push(size) ==
    LET bytes == [k \in 1..size |-> <<lines + 1, k>>]
    IN  /\ lines < MaxLines /\ lines' = lines + 1
        /\ IF Fits(size)
           THEN /\ queued' = queued \o bytes /\ accepted' = accepted \cup ToSet(bytes)
                /\ UNCHANGED dropped
           ELSE dropped' = dropped + 1 /\ UNCHANGED <<queued, accepted>>

LogCall(t, size) ==
    /\ t \notin notifying
    /\ Push(size)
    /\ notifying' = IF Fits(size) THEN notifying \cup {t} ELSE notifying
    /\ UNCHANGED <<writing, done, writer, file, lost>>

NotifyOne(t) ==
    /\ t \in notifying
    /\ notifying' = notifying \ {t}
    /\ writer' = IF writer = "asleep" THEN "check" ELSE writer
    /\ UNCHANGED <<queued, dropped, writing, done, file, lines, accepted, lost>>

\* wake.wait(): the predicate is read with the mutex held, which is given up in
\* the step that falls asleep.
CheckQueue ==
    /\ writer = "check"
    /\ writer' = IF queued = <<>> THEN "asleep" ELSE "delay"
    /\ UNCHANGED <<queued, dropped, writing, done, notifying, file, lines, accepted, lost>>

WakeSpuriously ==
    /\ writer = "asleep" /\ writer' = "check"
    /\ UNCHANGED <<queued, dropped, writing, done, notifying, file, lines, accepted, lost>>

\* The end of the delay.
SwapQueue ==
    /\ writer = "delay"
    /\ writing' = queued /\ queued' = writing /\ done' = 0 /\ writer' = "write"
    /\ UNCHANGED <<dropped, notifying, file, lines, accepted, lost>>

Unwritten == IF writer = "write" THEN SubSeq(writing, done + 1, Len(writing)) ELSE <<>>

\* write() takes some of the rest.
WriteSome(n) ==
    /\ writer = "write" /\ n \in 1..Len(Unwritten)
    /\ file' = file \o SubSeq(Unwritten, 1, n)
    /\ done' = done + n
    /\ UNCHANGED <<queued, dropped, writing, writer, notifying, lines, accepted, lost>>

\* Everything is written, or a write fails: then the rest is given up.
WriteEnds ==
    /\ writer = "write"
    /\ writer' = "report"
    /\ lost' = lost \cup ToSet(Unwritten)
    /\ UNCHANGED <<queued, dropped, writing, done, notifying, file, lines, accepted>>

\* Slip: the batch keeps its bytes, and the next swap queues them again.
KeepBatch == writing' = writing

ClearBatch == writing' = <<>>

\* A slow write is reported by the writer itself, through its own queue.
Report(size) ==
    /\ writer = "report" /\ writer' = "check"
    /\ \/ UNCHANGED <<queued, dropped, lines, accepted>>
       \/ Push(size)
    /\ ClearBatch
    /\ UNCHANGED <<done, notifying, file, lost>>

LogNext ==
    \/ \E t \in Caller : NotifyOne(t) \/ \E size \in LineSizes : LogCall(t, size)
    \/ CheckQueue \/ WakeSpuriously \/ SwapQueue \/ WriteEnds
    \/ \E n \in 1..QueueLimit : WriteSome(n)
    \/ \E size \in LineSizes : Report(size)

LogSpec == LogInit /\ [][LogNext]_logVars

-----------------------------------------------------------------------------
Kept == file \o Unwritten \o queued

\* The order of the pushes, and of the bytes of a line.
Before(b, c) == b[1] < c[1] \/ (b[1] = c[1] /\ b[2] < c[2])

LinesOf(bytes) == {b[1] : b \in bytes}

InOrder(bytes) == \A j, k \in DOMAIN bytes : j < k => Before(bytes[j], bytes[k])

\* Every line is dropped and counted, or its bytes reach the file once, in the
\* order of the pushes, unless a failing write gives them up; and the writer
\* sleeps through no queued line: a caller is about to wake it
\* (async_log.cpp:33-77).
LinesKept ==
    /\ InOrder(Kept) /\ ToSet(Kept) = accepted \ lost
    /\ lines = dropped + Cardinality(LinesOf(accepted))
    /\ writer = "asleep" /\ queued # <<>> => notifying # {}
=============================================================================
