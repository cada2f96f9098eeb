SPECIFICATION Spec
CONSTANTS
    d1 = d1
    d2 = d2
    tracked = tracked
    feed = feed
    phishing = phishing
    legitimate = legitimate
    Sessions = {d1, d2}
    NoSite = NoSite
    Null = Null
    Sites <- MCSites
    Labels <- MCLabels
    Tracked <- MCTracked
    FeedText <- MCFeedText
    AgentLabel <- MCAgentLabel
    FeedLimit = 1
    MaxWork = 3
    MaxKills = 1
INVARIANTS
    TypeOK
    LabelsKept
    OneLinePerSite
    FeedSitesStayLocal
    MeasuredOnce
PROPERTY
    ListedSitesVisited
