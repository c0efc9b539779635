\* Fewer requests than connections, one reseed, failures at any point.
SPECIFICATION FairSpec
CONSTANTS
    Requests = {r1, r2}
    Conns = {c1, c2, c3}
    NoConn = NoConn
    Offerings = 2
    Sections = 1
    MaxReviews = 1
    MaxEra = 1
INVARIANTS
    NoConnectionLost
    NeverWedged
    PartialOnlyIfReplaced
    ListedAreCounted
PROPERTIES
    EveryRequestAnswered
