\* Five frames: each buffer is copied to at least twice after its first use.
SPECIFICATION Spec
CONSTANTS
    MaxSerial = 5
    Rect = {wide, tall}
    Full = Full
    Torn = Torn
    None = None
INVARIANT DisplaySound
PROPERTY ImplementsScreen
\* The presenter may be closed or fail.
CHECK_DEADLOCK FALSE
