SPECIFICATION BSpec
CONSTANTS
    IdemKeys = {"k1", "k2", "k3"}
    Counters = {a, b}
    Selections = {"all", "one", "few"}
    Versions = {1, 2, 3}
    MaxFencings = 5
    Callers = {p, q}
    Selected <- MCSelected
    Admits <- MCAdmits
    Limited = {"all", "few"}
    SweepBatch = 2
    Worlds <- MCLateToken
INVARIANT SingleUse
SYMMETRY MCSymmetry
VIEW MCView
