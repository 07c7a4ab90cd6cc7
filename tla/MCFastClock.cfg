\* Two ticks make five nanoseconds, so scale() rounds; the run ends at MaxTick.
\* A queue of three bytes refuses lines, and four lines need several batches.
SPECIFICATION MCSpec
CONSTANTS
    Thread = {t1, t2}
    Frequency = 2
    Second = 5
    ResyncTicks = 2
    MaxCall = 2
    Skew = 1
    MaxTick = 4
    Caller = {t1, t2}
    LineSizes = {1, 2}
    QueueLimit = 3
    MaxLines = 4
INVARIANTS LeadBounded LinesKept
PROPERTIES AnchorWhole NeverBackwards
SYMMETRY Symmetry
CHECK_DEADLOCK FALSE
