---------------------------- MODULE PadAutopilot ----------------------------
(***************************************************************************)
(* The diagnostic script of timed presses for the first pad                *)
(* (pad_autopilot.cpp): a script of lines becomes presses sorted by start, *)
(* and apply() merges those held at a time into a sample.  Times are       *)
(* milliseconds; the text of a line is abstracted to what it says.         *)
(***************************************************************************)
EXTENDS Integers, Sequences, SequencesExt

CONSTANTS MaxPresses, MaxStart \* kMaxPresses, kMaxSeconds

\* Lines: [op, start, stop, period, buttons, hold]; a press has neither stop
\* nor period.
RepeatStarts(line) == {t \in line.start..(line.stop - 1) : (t - line.start) % line.period = 0}

Starts(line) ==
    CASE line.op = "press" -> {line.start}
      [] line.op = "repeat" -> RepeatStarts(line)
      [] OTHER -> {}

LineAccepted(line) ==
    CASE line.op = "press" -> line.hold > 0 /\ line.start <= MaxStart /\ line.buttons # {}
      [] line.op = "repeat" -> /\ line.stop > line.start /\ line.period > 0 /\ line.buttons # {}
                               /\ 0 < line.hold /\ line.hold < line.period
      [] OTHER -> line.op = "blank"

PressesOf(line) ==
    LET starts == SetToSortSeq(Starts(line), LAMBDA a, b : a < b)
    IN  [i \in DOMAIN starts |-> [start |-> starts[i], end |-> starts[i] + line.hold, buttons |-> line.buttons]]

\* A script with a line that is refused, or with too many presses, has none.
Parsed(script) ==
    LET presses == FlattenSeq([i \in DOMAIN script |-> PressesOf(script[i])])
    IN  IF (\E i \in DOMAIN script : ~LineAccepted(script[i])) \/ Len(presses) > MaxPresses THEN <<>>
        ELSE SortSeq(presses, LAMBDA p, q : p.start < q.start)

Loaded(script) == [presses |-> Parsed(script), started |-> FALSE, origin |-> 0, cursor |-> 1]

Enabled(pilot) == pilot.presses # <<>>

\* Started with the first call, at the time of that call.
StartedAt(pilot, now) ==
    IF pilot.started THEN pilot ELSE [pilot EXCEPT !.started = TRUE, !.origin = now, !.cursor = 1]

Elapsed(pilot, now) == IF now >= pilot.origin THEN now - pilot.origin ELSE 0

\* Past the presses that have begun.
AdvancedPastStarts(pilot, elapsed) ==
    [pilot EXCEPT !.cursor = CHOOSE c \in @..(Len(pilot.presses) + 1) :
        /\ \A i \in @..(c - 1) : pilot.presses[i].start < elapsed
        /\ c <= Len(pilot.presses) => pilot.presses[c].start >= elapsed]

\* Past the presses that are over, up to the first that is not.
Advanced(pilot, elapsed) ==
    [pilot EXCEPT !.cursor = CHOOSE c \in @..(Len(pilot.presses) + 1) :
        /\ \A i \in @..(c - 1) : pilot.presses[i].end <= elapsed
        /\ c <= Len(pilot.presses) => pilot.presses[c].end > elapsed]

HeldFrom(pilot, cursor, elapsed) ==
    UNION {pilot.presses[i].buttons :
             i \in {j \in cursor..Len(pilot.presses) : pilot.presses[j].start <= elapsed /\ elapsed < pilot.presses[j].end}}

ButtonsAt(pilot, elapsed) == HeldFrom(pilot, 1, elapsed)

\* The pilot after apply() at a time.
Applied(pilot, now) ==
    LET started == StartedAt(pilot, now) IN Advanced(started, Elapsed(started, now))

\* The sample after it: connected whatever the pad is.
Merged(sample, pilot, now) ==
    LET applied == Applied(pilot, now)
    IN  [connected |-> TRUE, intercepted |-> FALSE,
         buttons |-> sample.buttons \cup HeldFrom(applied, applied.cursor, Elapsed(applied, now))]

=============================================================================
