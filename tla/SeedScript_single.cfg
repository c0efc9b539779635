\* One machine with its own disk, as the migrate service of docker-compose:
\* two regenerations and three crashes at any statement.
SPECIFICATION FairSpec
CONSTANTS
    Runners = {r1}
    MaxFile = 2
    Broken = {}
    Exclusive = FALSE
    Ephemeral = FALSE
    Misreads = FALSE
    MaxCrashes = 3
    MaxReviews = 1
    NoFile = NoFile
    NoSum = NoSum
INVARIANTS
    TypeOK
    SkipIsSafe
    NeverDuplicated
PROPERTIES
    SeededMeansLoaded
    EventuallySeeded
CHECK_DEADLOCK FALSE
