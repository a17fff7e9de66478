SPECIFICATION ASpec
CONSTANTS
    Callers = {p, q}
    IdemKeys = {k}
    Commands <- MCCommands
    Enforced <- MCEnforced
    Lowering <- MCLowering
    LateCalls = TRUE
    MaxFaults = 0
PROPERTY ReplaysAnswer
SYMMETRY MCSymmetry
VIEW MCView
