\* One key, a client that sends tag and date, one reseed, fills that take time.
SPECIFICATION Spec
CONSTANTS
    c1 = c1
    c2 = c2
    Clients = {c1, c2}
    Keys = {k1}
    MaxEntries = 1
    TTL = 2
    Second = 2
    MaxLatency = 1
    MaxVersion = 1
    MaxTime = 5
    Validators <- BothHeaders
    NoEntry = NoEntry
    NoCopy = NoCopy
INVARIANTS
    ConsistentValidators
