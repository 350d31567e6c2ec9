\* A saved event delivered again after another posting took its job over.
SPECIFICATION Spec
CONSTANTS
    Sources = {"s1", "s2"}
    ExternalIds = {"x"}
    NoId = NoId
    NoUrl = NoUrl
    Links <- MCLinks
    Written <- MCWritten
    Canonical <- MCCanonical
    Postings <- MCPostings
    Dispatchers = {d1}
    MaxEvents = 3

INVARIANTS
    RedeliveriesAreRecognised
\* The sources may have nothing new to show and everything may be processed.
CHECK_DEADLOCK FALSE
