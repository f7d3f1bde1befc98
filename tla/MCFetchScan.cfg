SPECIFICATION FetchFairSpec
CONSTANTS
    f1 = f1
    q1 = q1
    Nil = Nil
    Undisturbed = TRUE
    LinksMiss = TRUE
    Second = 1
    MaxBackoff = 3
    Word = 16
    MaxFailures = 4
    Requesters <- MCRequesters
    Fetchers <- MCFetchers
INVARIANTS
    FieldsAgree
    NothingMeansAbsent
    VerdictIsNewest
PROPERTIES
    BacksOff
    HubIsUsedAgain
