\* Two arenas and three serials: claim() allocates, reuses and waits.  Three
\* fill targets: one per arena and a new one.
SPECIFICATION FairSpec
CONSTANTS
    InFlight = 2
    MaxSerial = 3
    Target = {efb, copy}
    Constant = {c1, c2, c3}
    Colour = {black, white}
    None = None
INVARIANTS InFlightIntact
PROPERTIES CallsEndWell
\* The blitter may be destroyed or fail.
CHECK_DEADLOCK FALSE
