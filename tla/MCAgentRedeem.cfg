CONSTANTS
    r1 = r1
    r2 = r2
    r3 = r3
    r4 = r4
    v1 = v1
    v2 = v2
    Ids = {r1, r2, r3, r4}
    Vaults = {v1, v2}
SPECIFICATION Spec
INVARIANTS TypeOK OneInFlight SettledTruthfully
SYMMETRY MCSymmetry
CHECK_DEADLOCK FALSE
