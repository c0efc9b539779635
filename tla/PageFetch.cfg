\* One page, any file to begin with, three runs whose --term may name the term twice; row
\* counts on both sides of every threshold.
SPECIFICATION Spec
CONSTANTS
    Stems = {s1}
    Downloads <- SampleDownloads
    NoPage = NoPage
    Ratio = 55
    MinPrior = 70
    MaxTimes = 2
    MaxRuns = 3
INVARIANTS
    StillGuarded
    ExitTruthful
PROPERTIES
    NeverEmptied
CHECK_DEADLOCK FALSE
