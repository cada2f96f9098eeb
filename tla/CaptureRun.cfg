\* Safety and liveness of the capture stage with any two of: a failure, a crash, a forged
\* write, a capture or a feed entry that grows old.
SPECIFICATION FairSpec
CONSTANTS
    high = high
    low = low
    listing = listing
    Sites <- MCSites
    Alerts <- MCAlerts
    Feed <- MCFeed
    Priority <- MCPriority
    BatchLimit = 2
    FeedLimit = 1
    MaxTroubles = 2
INVARIANTS
    TypeOK
    OneRowPerVisit
    OnlyTargetsRecorded
    FailedRunLeavesSitesPending
    
PROPERTIES
    ImplementsSiteLife
    
    
    EverySiteCaptured
CHECK_DEADLOCK TRUE
