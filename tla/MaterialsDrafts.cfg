\* Two tuners on the same announcement, crashing and starting again with other
\* contents, beside a reviewer who approves what they write or sends it back.
SPECIFICATION Spec
CONSTANTS
    Applications = {a1}
    Tuners = {t1, t2}
    Contents = {c1, c2}
    Verdicts = {"approved", "regeneration_requested"}
    NoContent = NoContent
    MaxEvents = 1
SYMMETRY Symmetry
INVARIANTS
    TypeOK
    OneMaterialPerKind
    AcknowledgedMeansDrafted
PROPERTIES
    ImplementsReviewedMaterials
    ApprovedContentIsFixed
