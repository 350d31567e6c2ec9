\* An application submitted, matched again and approved again.
SPECIFICATION Spec
CONSTANTS
    Applications = {a1}
    Workers = {w1}
    MaxMaterials = 1
    MaxRuns = 2
    MaxCopies = 1
PROPERTIES
    NoHandoffAfterSubmission
