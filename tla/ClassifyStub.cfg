\* The stub backend, whose model is NULL in the table.
SPECIFICATION Spec
CONSTANTS
    watch = watch
    command = command
    NoModel = NoModel
    Captures <- MCCaptures
    CapturedAt <- MCCapturedAt
    Reached <- MCReached
    Runners <- MCRunners
    Watch = watch
    Models <- MCModels
    ModelOf <- MCStub
    Limit <- MCLimit
    MaxRetries = 2
    MaxSlips = 0
    MaxClears = 0
INVARIANTS
    OneVerdictPerModel
