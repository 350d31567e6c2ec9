\* Liveness of one requested run under crashes, retries of steps and a racing user.
SPECIFICATION FairSpec
CONSTANTS
    Applications = {a1}
    Workers = {w1}
    MaxMaterials = 1
    MaxRuns = 1
    MaxCopies = 1
PROPERTIES
    RequestedRunsGetAnOutcome
