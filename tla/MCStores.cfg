SPECIFICATION SSpec
CONSTANTS
    MicrosPerSecond = 1
    MaxPeriodMicros = 8
    ExactEmissionFloor = 2
    MaxTauMicros = 16
    Keys <- MCKeys
    AlgorithmOf <- MCAlgorithmOf
    PeriodOf <- MCPeriodOf
    Limits <- MCLimits
    Costs <- MCCosts
    Calls <- MCCalls
    StartTime = 2
    MaxTime = 8
    MicrosPerMilli = 3
VIEW MCView
PROPERTIES ImplementsContract MemoryImplements
