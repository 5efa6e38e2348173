CONSTANTS
    r1 = r1
    r2 = r2
    s1 = s1
    s2 = s2
    Runs = {r1, r2}
    Sids = {s1, s2}
    MaxConnects = 2
    MaxRetries = 2
    None = none
SPECIFICATION Spec
SYMMETRY Symmetries
INVARIANTS DeliveriesPaid RetriesAreVain LossExplained
CHECK_DEADLOCK FALSE
