SPECIFICATION Spec
CONSTANT Foci <- MCFoci
CONSTANT EpochBound = 3
INVARIANT XfCacheVouches
INVARIANT DropLosesOnlyShared
PROPERTY PipelineStamped
