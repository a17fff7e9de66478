SPECIFICATION ASpec
CONSTANTS
    Callers = {p, q}
    IdemKeys = {k}
    Commands <- MCCommands
    Enforced <- MCEnforced
    Lowering <- MCLowering
    LateCalls = TRUE
    MaxFaults = 2
INVARIANTS ActsOnPinned
PROPERTIES ResetOnce RetryReplays
SYMMETRY MCSymmetry
VIEW MCView
