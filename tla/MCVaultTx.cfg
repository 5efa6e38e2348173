CONSTANTS
    w1 = w1
    w2 = w2
    zero = zero
    x = x
    y = y
    none = none
    Wallets <- MCWallets
    ZeroAddress = zero
    Salts = {salt}
    Secrets = {x, y}
    Seeds = {seed}
    Prices <- MCPrices
    Amounts <- MCAmounts
    MaxUint64 = 3
    MaxMints = 2
    Funds <- MCFunds
    NoTx = none
SPECIFICATION TxSpec
INVARIANTS TxTypeOK Backed RevenueAccounted NoncesFresh RegistrationBinds
PROPERTIES LedgerGrows AtomicCircuits OneOfTwoPaymentsFails
CHECK_DEADLOCK FALSE
