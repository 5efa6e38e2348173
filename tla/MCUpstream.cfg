CONSTANTS
    s1 = s1
    s2 = s2
    r1 = r1
    r2 = r2
    sepolia = sepolia
    other = other
    Tasks = {s1, s2}
    Origins = {o}
    RelayServices = {r1, r2}
    ChainOf <- MCChainOf
    Chains = {sepolia, other}
    Wired = {sepolia}
    Amounts <- MCAmounts
    MaxPayment = 1
    Ttl = 3
    ProbeTimeout = 2
    OriginTimeout = 3
    MaxTime = 5
    MaxCalls = 1
    None = none
    Garbage = garbage
SPECIFICATION UpstreamSpec
SYMMETRY Symmetries
INVARIANTS HealthyRecently RelayerLossBounded
CHECK_DEADLOCK FALSE
