\* The measuring commands beside the writers of what they measure.
SPECIFICATION Spec
CONSTANTS
    Sites <- MCSites
    Domain <- MCDomain
    Shared = {"hosted"}
    Brands <- MCBrands
    HostScore <- MCHostScore
    Floor = 5
    Threshold = 8
    Labelled <- MCLabelled
    Captured <- MCCaptured
    Labels = {"phishing", "legitimate", "unknown"}
    Verdicts = {"phishing", "error"}
    Models <- MCModels
    Vantages = {"cloud", "home"}
    MaxGap = 0
    MaxTime = 1
    MaxWrites = 3
INVARIANTS
    SameEvidence
PROPERTIES
    LaterReportsAgree
CHECK_DEADLOCK TRUE
