SPECIFICATION Spec
CONSTANTS
    r1 = r1
    r2 = r2
    shop = shop
    mail = mail
    acme = acme
    bank = bank
    own = own
    other = other
    free = free
    paid = paid
    oldConfig = oldConfig
    newConfig = newConfig
    Commands = {r1, r2}
    Hosts <- MCHosts
    Brands <- MCBrands
    Facts <- MCFacts
    Certs <- MCCerts
    NamedBy <- MCNamedBy
    IssuerOf <- MCIssuerOf
    Configs = {oldConfig, newConfig}
    Config <- MCConfig
    StartConfig = oldConfig
    OldRows <- MCOldRows
    MaxAttempts = 2
    MaxEdits = 1
    MaxRuns = 2
INVARIANTS
    TypeOK
    UpToDate
    FreeFlagKept
    ScoreHasSignal
PROPERTIES
    RowsSurvive
    DatabaseReleased
