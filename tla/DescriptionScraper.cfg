\* Two threads, two subjects with three courses, two attempts, and a second run
\* over the file of the first.
SPECIFICATION FairSpec
CONSTANTS
    Workers = {w1, w2}
    Subjects <- TwoSubjects
    Links <- SampleLinks
    RetryCount = 2
    Nobody = Nobody
    MaxRuns = 2
INVARIANTS
    NoLostUpdate
    OncePerRun
    BrowsersClosed
    Accounted
PROPERTIES
    RunEnds
CHECK_DEADLOCK FALSE
