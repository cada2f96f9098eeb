\* The watch and the `alert` command at the same findings, two sinks.
SPECIFICATION FairSpec
CONSTANTS
    watch = watch
    command = command
    Verdicts <- MCVerdicts
    Confidence <- MCConfidence
    Runners <- MCRunners
    Watch = watch
    Sinks <- MCSinks
    Limit = 2
    MaxErrors = 2
    MaxSlips = 1
INVARIANTS
    TypeOK
    MarkedWasReceived
    OnlyFindingsLeave
    RepeatsExplained
PROPERTIES
    FindingsAnnounced
