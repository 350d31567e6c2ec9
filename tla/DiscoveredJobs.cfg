\* Three events of one job that its sources list in different ways, two
\* dispatchers that crash and get messages again.
SPECIFICATION Spec
CONSTANTS
    Sources = {"s1", "s2"}
    ExternalIds = {"x"}
    NoId = NoId
    NoUrl = NoUrl
    Links <- MCLinks
    Written <- MCWritten
    Canonical <- MCCanonical
    Postings <- MCPostings
    Dispatchers = {d1, d2}
    MaxEvents = 3
SYMMETRY Symmetry
INVARIANTS
    TypeOK
    SavesNeverConflict
    BlankJobsAreRequested
PROPERTIES
    JobsMoveByUrl
    ImplementsSavedJobs
\* The sources may have nothing new to show and everything may be processed.
CHECK_DEADLOCK FALSE
