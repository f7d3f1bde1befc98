SPECIFICATION Spec
CONSTANTS
    h1 = h1
    h2 = h2
    s1 = s1
    s2 = s2
    r1 = r1
    NoResults = NoResults
    NoAnswer = NoAnswer
    Hubs <- MCOneHub
    Shas <- MCOneSha
    Reports <- MCReports
    SummarySets <- MCSummarySets
    RemoteInits <- MCSome
    Verdicts = {"Success", "Failure"}
    HubFails = FALSE
    MaxUpdates = 2
    PodNames = {}
    Priorities <- MCPriorities
    ImageLists = {}
    PodLists = {}
    Limit <- MCOnePerHub
    Posted <- MCPosted
    ClientFails = FALSE
    HubsFirst = FALSE
    Prompt = TRUE
    MaxRestarts = 0
    MaxJobs = 2
PROPERTIES
    OldScansRecognised
