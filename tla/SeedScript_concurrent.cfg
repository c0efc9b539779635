\* Three scripts at once: lock queues, deadlocks, duplicate keys.
SPECIFICATION FairSpec
CONSTANTS
    Runners = {r1, r2, r3}
    MaxFile = 1
    Broken = {}
    Exclusive = FALSE
    Ephemeral = FALSE
    Misreads = FALSE
    MaxCrashes = 0
    MaxReviews = 1
    NoFile = NoFile
    NoSum = NoSum
PROPERTIES
    ReviewsKept
    EveryScriptEnds
CHECK_DEADLOCK FALSE
