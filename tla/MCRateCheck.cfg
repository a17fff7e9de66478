SPECIFICATION CSpec
CONSTANTS
    MicrosPerSecond = 1
    MaxPeriodMicros = 8
    ExactEmissionFloor = 2
    MaxTauMicros = 16
    Keys <- MCKeys
    AlgorithmOf <- MCAlgorithmOf
    PeriodOf <- MCPeriodOf
    Limits <- MCLimits
    Costs <- MCCosts
    Calls <- MCCalls
    StartTime = 2
    MaxTime = 5
    Matches <- MCMatches
    KeyRank <- MCKeyRank
    MaxDecisionBuckets = 2
    Callers = {c1, c2}
    Requests <- MCRequests
    MaxDescriptorsPerCheck = 3
    MaxHitsAddend = 3
INVARIANTS RefusalStands ChargeBounded
SYMMETRY MCSymmetry
VIEW MCView
