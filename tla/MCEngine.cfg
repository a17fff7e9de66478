SPECIFICATION LSpec
CONSTANTS
    MicrosPerSecond = 1
    MaxPeriodMicros = 8
    ExactEmissionFloor = 2
    MaxTauMicros = 16
    Keys <- MCKeys
    AlgorithmOf <- MCAlgorithmOf
    PeriodOf <- MCPeriodOf
    Limits <- MCLimits
    Costs <- MCCosts
    Calls <- MCCalls
    StartTime = 2
    MaxTime = 8
    Matches <- MCMatches
    KeyRank <- MCKeyRank
    MaxDecisionBuckets = 3
INVARIANTS RateHeld QuotaHeld HintsExact DecisionExact EffectiveExact
VIEW MCView
