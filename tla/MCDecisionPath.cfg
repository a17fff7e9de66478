CONSTANTS
    Unset = Unset
    Foreign = Foreign
    MicrosPerSecond = 4
    MaxPeriodMicros = 100
    ExactEmissionFloor = 1
    MaxTauMicros = 100
    Placeholders <- MCPlaceholders
    Braced = {"{"}
    BadNames = {"", "Bad!"}
    HttpMethods = {"GET", "POST"}
    MaxCost = 4
    MaxDomainDecisionBuckets = 4
    StartsWith <- MCStartsWith
    Decodes <- MCDecodes
    NumberOf <- MCNumberOf
    Lowered <- MCLowered
    TooLongValues = {"long"}
    MaxArrayItems = 3
    EntryOverhead = 1
    MapOverhead = 1
    KeyOverhead = 1
    ValueOverhead = 1
    SkipOverhead = 1
    MaxCachedEntryBytes = 6
    LongTokens = {"oversized"}
    Worlds <- MCWorlds
    c1 = c1
    c2 = c2
SPECIFICATION DSpec
INVARIANTS DecidesAsAuthored StoreAccepts CacheKeeps VersionTells AnnotationsHold
CHECK_DEADLOCK FALSE
VIEW MCView
