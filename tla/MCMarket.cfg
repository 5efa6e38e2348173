CONSTANTS
    Clicks = {c1}
    Accounts = {a, b}
    Entered <- MCEntered
    MaxRetries = 1
    Spellings = {lower, upper}
    Canonical = lower
    None = none
SPECIFICATION Spec
INVARIANTS RowsAreRegistered VerifiedPricesTrue PublishedIsListed
PROPERTIES ShownAsEntered EveryPublishEnds
CHECK_DEADLOCK FALSE
