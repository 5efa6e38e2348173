\* Two payments for two services.
CONSTANTS
    s1 = s1
    s2 = s2
    k1 = k1
    k2 = k2
    Services = {s1, s2}
    Secrets = {k1, k2}
    none = none
    NoSecret = none
    MaxRetries = 1
    Fresh = {TRUE, FALSE}
SPECIFICATION FairSpec
INVARIANTS TypeOK SecretDurable PaysOnce StatusTruthful
PROPERTY EveryPaymentRedeemed
CHECK_DEADLOCK FALSE
