SPECIFICATION FairSpec
CONSTANTS
    Names <- MCNames
    Specs <- MCSpecs
    SizeOf <- MCSizeOf
    Limit <- MCLimit
    Builds <- MCBuilds
    Compiles <- MCCompiles
    Undefined <- MCUndefined
    Pods <- MCPods
    Build <- MCBuild
    Pruned <- MCPruned
    Worlds <- MCWorlds
PROPERTIES FallbackKept ServesItsAuthor StatusAgrees RoomIsMade WriterConverges
CHECK_DEADLOCK FALSE
