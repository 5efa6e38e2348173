\* Two concurrent requests with the same secret.
SPECIFICATION Spec
CONSTANTS
    Slots = {s1, s2}
    weather = weather
    quotes = quotes
    Secrets = {alice}
    ServiceIds <- MCServiceIds
    Relays <- MCRelays
INVARIANTS RedeemsOnce
