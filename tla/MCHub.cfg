SPECIFICATION HubFairSpec
CONSTANTS
    h1 = h1
    s1 = s1
    r1 = r1
    NoResults = NoResults
    NoAnswer = NoAnswer
    HubFails = TRUE
    Verdicts = {"Success"}
    MaxUpdates = 1
    Hubs <- MCHubs
    Shas <- MCOneSha
    Reports <- MCReports
    SummarySets <- MCSummarySets
    RemoteInits <- MCRemoteInits
INVARIANTS
    StageMatchesResults
    TimersFollowLogin
PROPERTIES
    ScansAreKept
    VerdictIsFound
    UnknownIsResolved
