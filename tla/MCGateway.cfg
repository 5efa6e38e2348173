\* Two concurrent requests with one secret.
SPECIFICATION FairSpec
CONSTANTS
    Slots = {s1, s2}
    weather = weather
    quotes = quotes
    Secrets = {alice}
    ServiceIds <- MCServiceIds
    Relays <- MCRelays
INVARIANTS TypeOK ConsumedIsGranted GrantsBounded WrongServiceSound
PROPERTY EveryRequestAnswered
