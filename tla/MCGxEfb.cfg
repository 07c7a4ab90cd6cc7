SPECIFICATION Spec
CONSTANT Topics <- MCTopics
CONSTANT Arguments <- MCArguments
CONSTANT Modes <- MCModes
CONSTANT Scales <- MCScales
CONSTANT Policies <- MCPolicies
CONSTANT Surface <- MCSurface
CONSTANT QueueBound = 6
INVARIANT CopyAsAsked
INVARIANT ClearFollowsCopy
INVARIANT RenderCurrent
INVARIANT LinesFit
