\* Liveness of one announcement under crashes and requests to regenerate.
SPECIFICATION FairSpec
CONSTANTS
    Applications = {a1}
    Tuners = {t1}
    Contents = {c1}
    Verdicts = {"regeneration_requested"}
    NoContent = NoContent
    MaxEvents = 1
PROPERTIES
    AnnouncedIsDrafted
