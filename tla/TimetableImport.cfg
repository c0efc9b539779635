\* Two pages: a header and up to three more rows, and a header with up to one.
SPECIFICATION ImportSpec
CONSTANTS
    Dirs = {"fall", "summer", "empty"}
    Listing <- SampleListing
    Files = {"p1", "p2"}
    Requests <- SampleRequests
    Departments = {"CORE"}
    Terms = {"F", "W"}
    Types = {"LECT", "TUTR", "STDO"}
    Letters = {"A", "B", "C"}
    Ids = {"1000", "2000"}
    Names = {"Ann", "Bob"}
    Pages <- TwoPages
    Documents <- SampleDocuments
    OldFiles <- SampleOldFiles
INVARIANTS
    TypeOK
    RightCourse
    RightSection
    EveryRowOnce
    ForeignKeys
    AsOnThePage
CHECK_DEADLOCK FALSE
