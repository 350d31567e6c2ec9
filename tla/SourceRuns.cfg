\* Two sources, a scheduler that stops and starts again with other configurations.
SPECIFICATION FairSpec
CONSTANTS
    Sources = {"hourly", "often"}
    Interval <- MCInterval
    Listings = {2}
    Configs <- MCConfigs
    Schedulers = {c1}
    MaxTime = 2
    MaxRuns = 3
INVARIANTS
    TypeOK
    RunsKeepTheInterval
    RowsAccountForEvents
    LastSuccessIsTheLast
PROPERTIES
    EndedRunsAreFinal
    DueSourcesAreRun
