\* One application, a first run and a second one (a retry or a new approval):
\* what the history of runs may be.
SPECIFICATION Spec
CONSTANTS
    Applications = {a1}
    Workers = {w1}
    MaxMaterials = 1
    MaxRuns = 2
    MaxCopies = 1
INVARIANTS
    TypeOK
    RunsHaveSelection
    OneActiveRunPerApproval
    SubmissionHasARun
