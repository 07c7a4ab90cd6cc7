SPECIFICATION MCSpec
CONSTANT Formats <- MCFormats
CONSTANT ArrayStride = 3
CONSTANT ArraySize = 12
CONSTANT ArrayIndices = 4
CONSTANT Streams <- MCStreams
CONSTANT RawDraws <- MCRaw
CONSTANT Versions = 3
CONSTANT MergeBytes = 12
CONSTANT MergeVertices = 10
INVARIANT DrawsAsIssued
INVARIANT GroupContinues
INVARIANT SnapshotCovers
INVARIANT LoadsProvided
INVARIANT CombinerAgrees
