SPECIFICATION ManagerFairSpec
CONSTANTS
    h1 = h1
    h2 = h2
    k2 = k2
    i1 = i1
    i2 = i2
    c1 = c1
    Nobody = Nobody
    CreateFails = TRUE
    Hosts <- MCHosts
    Secrets <- MCSecrets
    Instances <- MCInstances
    Watched <- MCWatched
    Creators <- MCCreators
INVARIANTS
    NoHubIsLost
    RequestsAreAnswered
    WatchedTimersConsistent
PROPERTIES
    WellKeyedHubsStay
    HubsAreSetUp
    StoppedHubsRest
    WatchedTimersAreJobs
