\* Two faculties, two requests, a change of each timetable and a restart.
SPECIFICATION FairSpec
CONSTANTS
    Faculties = {f1, f2}
    Folders = {{f1, f2}}
    MaxRuns = 2
    MaxVersion = 2
    MaxRestarts = 1
INVARIANTS
    OneChild
PROPERTIES
    FinishedIsCurrent
    NeverBackwards
    MutexReleased
CHECK_DEADLOCK FALSE
