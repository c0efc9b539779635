\* One request per window, two clients; the clock spans four windows and
\* reaches the second cleanup after every window opened in its first ticks.
SPECIFICATION FairSpec
CONSTANTS
    Clients = {ip1, ip2}
    Limit = 1
    Window = 1
    MaxTime = 6
    NoVisitor = NoVisitor
    Nobody = Nobody
INVARIANTS
    TypeOK
    BurstBound
    RejectionJustified
PROPERTIES
    ImplementsFixedWindow
    IdleVisitorsForgotten
