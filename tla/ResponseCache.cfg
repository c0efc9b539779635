\* Three keys in a store of two, one reseed, a clock that lets two generations
\* of entries compete for the store and a copy outlive its entry.
SPECIFICATION Spec
SYMMETRY Symmetry
CONSTANTS
    c1 = c1
    c2 = c2
    Clients = {c1, c2}
    Keys = {k1, k2, k3}
    MaxEntries = 2
    TTL = 2
    Second = 2
    MaxLatency = 0
    MaxVersion = 1
    MaxTime = 4
    Validators <- DateOrNone
    NoEntry = NoEntry
    NoCopy = NoCopy
INVARIANTS
    TypeOK
    BoundedStaleness
    BodiesAreRecent
    CapacityBound
PROPERTIES
    EvictsOldestOnly
