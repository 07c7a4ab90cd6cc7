SPECIFICATION Spec
CONSTANTS
    NumSlots = 2
    Users = {1, 2}
    InitialUser = 2
    Handles = {h1, h2}
    h1 = h1
    h2 = h2
    Buttons = {"cross"}
    Scripts <- MCScripts
    MaxTime = 2
    MaxPresses = 4
    MaxStart = 8
SYMMETRY Symmetry
INVARIANTS MotorsAccounted ShownIsCurrent
PROPERTIES RumbleOwnPad
CHECK_DEADLOCK FALSE
