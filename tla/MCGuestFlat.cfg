SPECIFICATION MCSpec
CONSTANT Backings = {1, 2}
CONSTANT Aliases = {1, 2, 3}
CONSTANT Space = 32
CONSTANT Pool = 36
CONSTANT Mem1Span = 8
CONSTANT Mem2Span = 16
CONSTANT Layouts <- MCLayouts
CONSTANT Calls <- MCCalls
CONSTANT Spots <- MCSpots
\* Two host threads and three fibers; four blocks use each buffer twice.
CONSTANT HostThread = {t1, t2}
CONSTANT Fiber = {f1, f2, f3}
CONSTANT Mode = {nearest, zero}
CONSTANT Scheduler = Scheduler
CONSTANT Nobody = Nobody
CONSTANT MaxOpens = 2
CONSTANT MaxBlocks = 4
INVARIANT MemorySound
INVARIANT RamServed
INVARIANT ContextsSound
INVARIANT SoundIntact
CHECK_DEADLOCK FALSE
