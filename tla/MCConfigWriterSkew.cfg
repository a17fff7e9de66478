SPECIFICATION FairSpec
CONSTANTS
    Names <- MCNames
    Specs <- MCSpecs
    SizeOf <- MCSizeOf
    Limit <- MCLimit
    Builds <- MCBuilds
    Compiles <- MCCompiles
    Undefined <- MCUndefined
    Pods <- MCPods
    Build <- MCBuild
    Pruned <- MCPruned
    Worlds <- MCSkewed
PROPERTY GuessNotServed
CHECK_DEADLOCK FALSE
