\* Two workers on deliveries of one request, while resume, cover letter and
\* answers are redrafted, reviewed and selected and the user acts on the run.
SPECIFICATION Spec
CONSTANTS
    Applications = {a1}
    Workers = {w1, w2}
    MaxMaterials = 2
    MaxRuns = 1
    MaxCopies = 1
SYMMETRY Symmetry
INVARIANTS
    RunsNameApprovedMaterials
    PacketsOfApprovedRows
    ReviewIsAudited
    RequestsAreKept
PROPERTIES
    RunProgress
