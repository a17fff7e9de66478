SPECIFICATION PSpec
CONSTANTS
    Domains = {"x", "y"}
    Manifests <- MCManifests
    Compiles = {"s1", "s2"}
    MaxSwaps = 4
    MaxFaults = 2
INVARIANTS ReportTells NoTornSet
PROPERTIES LastGoodKept Converges
