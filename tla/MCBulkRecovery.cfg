SPECIFICATION BFairSpec
CONSTANTS
    IdemKeys = {"k1", "k2"}
    Counters = {a}
    Selections = {"all", "one", "few"}
    Versions = {1, 2, 3}
    MaxFencings = 5
    Callers = {p, q}
    Selected <- MCSelected
    Admits <- MCAdmits
    Limited = {"all", "few"}
    SweepBatch = 2
    Worlds <- MCRecovery
PROPERTY Recovered
