\* Four commands give two frames with a draw each, or one frame with copies
\* between draws; five give the same answers in more time.
SPECIFICATION Spec
CONSTANTS
    Dest = {d1, d2}
    Texture = {t1, t2, t3}
    Display = {p1, p2, p3}
    Displays = 2
    MaxFifo = 2
    MaxStamp = 4
    MaxCores = 2
    Efb = Efb
    None = None
INVARIANTS DisplayServed WorkSupported
PROPERTY ImplementsImmediate
SYMMETRY Symmetry
CHECK_DEADLOCK FALSE
