\* One script, one statement of its seed.sql fails.
SPECIFICATION Spec
CONSTANTS
    Runners = {r1}
    MaxFile = 1
    Broken = {1}
    Exclusive = FALSE
    Ephemeral = FALSE
    Misreads = FALSE
    MaxCrashes = 0
    MaxReviews = 0
    NoFile = NoFile
    NoSum = NoSum
PROPERTIES
    SeededMeansLoaded
CHECK_DEADLOCK FALSE
