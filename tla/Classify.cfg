\* The watch and the `classify` command with the same model.
SPECIFICATION FairSpec
CONSTANTS
    watch = watch
    command = command
    NoModel = NoModel
    Captures <- MCCaptures
    CapturedAt <- MCCapturedAt
    Reached <- MCReached
    Runners <- MCRunners
    Watch = watch
    Models <- MCModels
    ModelOf <- MCSameModel
    Limit <- MCLimit
    MaxRetries = 2
    MaxSlips = 1
    MaxClears = 1
INVARIANTS
    TypeOK
    VerdictsFit
    CallsBounded
PROPERTIES
    EveryCaptureJudged
