\* A material reviewed again between the approval of the handoff and its packet.
SPECIFICATION Spec
CONSTANTS
    Applications = {a1}
    Workers = {w1}
    MaxMaterials = 2
    MaxRuns = 1
    MaxCopies = 1
INVARIANTS
    PacketsAreApproved
