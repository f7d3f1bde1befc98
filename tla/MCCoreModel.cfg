SPECIFICATION CoreSpec
CONSTANTS
    s1 = s1
    s2 = s2
    p1 = p1
    p2 = p2
    r1 = r1
    r2 = r2
    NoResults = NoResults
    Shas <- MCShas
    PodNames <- MCPodNames
    Reports <- MCReports
    Priorities <- MCPriorities
    SummarySets <- MCSummarySets
    ImageLists <- MCImageLists
    PodLists <- MCPodLists
    Orders <- MCOrders
    PolicyStatus <- MCPolicyStatus
    RiskProfile <- MCRiskProfile
    MaxContainers = 3
INVARIANTS
    QueueMatchesStatus
    QueuePrioritySound
    ResultsSound
    PodImagesKnown
    ClosedFormIsTheLoop
    PodReportComplete
    PodTotalsSound
    MetricsAgree
PROPERTIES
    CompleteIsFinal
    DemotionIsPermanent
    ImplementsLifecycle
