\* As many requests as connections.
SPECIFICATION FairSpec
CONSTANTS
    Requests = {r1, r2}
    Conns = {c1, c2}
    NoConn = NoConn
    Offerings = 1
    Sections = 1
    MaxReviews = 1
    MaxEra = 0
PROPERTIES
    EveryRequestAnswered
