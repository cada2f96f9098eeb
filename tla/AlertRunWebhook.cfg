\* A webhook that fails while the alert file accepts the finding.
SPECIFICATION Spec
CONSTANTS
    watch = watch
    command = command
    Verdicts <- MCVerdicts
    Confidence <- MCConfidence
    Runners <- MCRunners
    Watch = watch
    Sinks <- MCSinks
    Limit = 2
    MaxErrors = 1
    MaxSlips = 0
INVARIANTS
    RefusedIsRetried
