\* The watch service keeps the promise of SiteLife, with failures and stops.
SPECIFICATION FairSpec
CONSTANTS
    lookalike = lookalike
    listing = listing
    Sites <- MCSites
    Scored <- MCSites
    Alerts <- MCAlerts
    Feed <- MCSites
    Numbers = {1, 2}
    CaptureLimit = 1
    FeedLimit = 1
    ClassifyLimit = 1
    AlertLimit = 1
    MaxFaults = 2
    MaxStops = 1
INVARIANTS
    TypeOK
PROPERTIES
    ImplementsSiteLife
    AlertsSettled
CHECK_DEADLOCK TRUE
