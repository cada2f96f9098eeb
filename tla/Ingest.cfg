\* Safety and liveness of ingestion with any number of failures and restarts.
SPECIFICATION FairSpec
CONSTANTS
    NoCert = NoCert
    Certs <- MCCerts
    Hosts <- MCHosts
    Keys <- MCKeys
    Names <- MCNames
    Matches <- MCMatches
    FlushMaxRows = 3
    SeenCapacity = 1
INVARIANTS
    TypeOK
    FirstSightingWins
    NothingBufferedLost
    SeenIsHeld
PROPERTIES
    SightedIsStored
