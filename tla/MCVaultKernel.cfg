CONSTANTS
    w1 = w1
    w2 = w2
    zero = zero
    vault = vault
    x = x
    y = y
    Wallets <- MCWallets
    ZeroAddress = zero
    Self = vault
    Salts = {salt}
    Secrets = {x, y}
    Seeds = {seed}
    Prices <- MCPrices
    Amounts <- MCAmounts
    MaxUint64 = 2
    MaxMints = 2
    Funds <- MCFunds
SPECIFICATION Spec
INVARIANTS CreditConserved NothingStranded HandedOver
PROPERTY ImplementsLedger
CHECK_DEADLOCK FALSE
