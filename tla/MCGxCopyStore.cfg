SPECIFICATION MCSpec
CONSTANT Cells = 3
CONSTANT MaxStamp = 4
CONSTANT Space = 64
CONSTANT BlockSize = 4
CONSTANT CoarseSize = 16
CONSTANT Scalar = 4
CONSTANT MarkLimit = 4
CONSTANT Windows <- MCWindows
CONSTANT Banks <- MCBanks
CONSTANT Plain <- MCPlain
CONSTANT Given <- MCGiven
CONSTANT Handles = {1, 2, 3}
INVARIANT StoreAgrees
INVARIANT PagesAgree
PROPERTY ImplementsRam
CHECK_DEADLOCK FALSE
