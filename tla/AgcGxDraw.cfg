\* A ring of two, batches of two draws, five serials: three batches can be
\* recorded, so each slot is reused while the other is in flight.
SPECIFICATION FairSpec
CONSTANTS
    InFlightSlots = 2
    BatchDraws = 2
    MaxSerial = 5
    Resource = {tex, efb}
    None = None
INVARIANTS InFlightIntact FreedOnlyIdle
PROPERTIES CallsEndWell ImplementsStream
\* The queue may be destroyed or run out of serials.
CHECK_DEADLOCK FALSE
