SPECIFICATION FairSpec
CONSTANTS
    h1 = h1
    h2 = h2
    s1 = s1
    s2 = s2
    r1 = r1
    NoResults = NoResults
    NoAnswer = NoAnswer
    Hubs <- MCTwoHubs
    Shas <- MCOneSha
    Reports <- MCReports
    SummarySets <- MCSummarySets
    RemoteInits <- MCScanned
    Verdicts = {"Success"}
    HubFails = FALSE
    MaxUpdates = 1
    PodNames = {}
    Priorities <- MCPriorities
    ImageLists = {}
    PodLists = {}
    Limit <- MCOnePerHub
    Posted <- MCPosted
    ClientFails = TRUE
    HubsFirst = TRUE
    Prompt = TRUE
    MaxRestarts = 0
    MaxJobs = 2
INVARIANTS
    NoDoubleHandOut
PROPERTIES
    EveryImageReported
    OldScansRecognised
