SPECIFICATION FetchSpec
CONSTANTS
    f1 = f1
    q1 = q1
    Nil = Nil
    Undisturbed = FALSE
    LinksMiss = TRUE
    Second = 1
    MaxBackoff = 3
    Word = 16
    MaxFailures = 4
    Requesters <- MCRequesters
    Fetchers <- MCFetchers
INVARIANTS
    ResetReenables
