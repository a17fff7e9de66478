SPECIFICATION PSpec
CONSTANTS
    Domains = {"x", "y"}
    Manifests <- MCDocs
    Compiles = {"s1", "s2"}
    MaxSwaps = 4
    MaxFaults = 2
INVARIANTS RefusalReported AppliedWhole
