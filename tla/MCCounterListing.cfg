SPECIFICATION GFairSpec
CONSTANTS
    Namespace <- MCNamespace
    Domain <- MCDomain
    Periods = {"6"}
    Counters <- MCCounters
    Foreign <- MCForeign
    Order <- MCOrder
    Placed <- MCPlaced
    ScanBudget = 3
    MaxScanSteps = 3
    Selections <- MCSelections
    RuleSets <- MCRuleSets
    Worlds <- MCWorlds
INVARIANTS CompleteListing PageBounded KeysTell
PROPERTIES ListingEnds
