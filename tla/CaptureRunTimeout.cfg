\* An honest container that overruns its deadline.
SPECIFICATION Spec
CONSTANTS
    high = high
    low = low
    listing = listing
    Sites <- MCSites
    Alerts <- MCAlerts
    Feed <- MCFeed
    Priority <- MCPriority
    BatchLimit = 2
    FeedLimit = 1
    MaxTroubles = 1
INVARIANTS
    UntriedStayPending
