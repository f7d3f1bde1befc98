------------------------------ MODULE FetchScan ------------------------------
(***************************************************************************)
(* fetchScan of a hub client: five requests to the Black Duck, one after   *)
(* the other, each through the circuit breaker that it shares with the     *)
(* client's other requests, from the code location to what is known of its *)
(* scan.  The Black Duck gets on with the scan between the requests.       *)
(***************************************************************************)
EXTENDS CircuitBreaker

CONSTANTS Fetchers,    \* the requesters that fetch scans
          LinksMiss    \* may an answer lack the link to the next one?

VARIABLES remote,      \* how far the Black Duck is with the scan
          reads,       \* fetcher -> how far it was at each request of the fetch
          answer,      \* fetcher -> what the fetch returned
          began        \* history: fetcher -> remote when the fetch began

fetchVars == <<remote, reads, answer, began>>
clientVars == <<breakerVars, fetchVars>>

ASSUME FetchersAssumption == Fetchers \subseteq Requesters /\ LinksMiss \in BOOLEAN

\* A code location appears, then its scan summaries, and the scan gets done.
Absent == 0
Empty == 1
InProgress == 2
Done == 3
RemoteStages == Absent .. Done

\* The requests, in their order.
Chain == <<"codeLocations", "projectVersion", "projectVersionRiskProfile",
           "projectVersionPolicyStatus", "scanSummaries">>

\* What fetchScan returns: an error, nil, or the parts of the results that
\* change while a scan gets done.
Error == [is |-> "Error"]
Nothing == [is |-> "Nothing"]
Fetching == [is |-> "Fetching"]

\* Mutant of Results: what was asked for first is taken for the last.
ResultsSwapped(read) ==
    [is |-> "Results", profile |-> read[4], policy |-> read[5], summaries |-> read[3]]

Results(read) ==
    [is |-> "Results", profile |-> read[3], policy |-> read[4], summaries |-> read[5]]

FetchInit ==
    /\ NewCircuitBreaker
    /\ remote = Absent
    /\ reads = [p \in Fetchers |-> <<>>]
    /\ answer = [p \in Fetchers |-> Fetching]
    /\ began = [p \in Fetchers |-> Absent]

-----------------------------------------------------------------------------
\* A fetch begins with its first request.
Request(p) ==
    /\ IssueRequest(p)
    /\ answer' = [answer EXCEPT ![p] = Fetching]
    /\ began' = [began EXCEPT ![p] = IF reads[p] = <<>> THEN remote ELSE @]
    /\ UNCHANGED <<remote, reads>>

Response(p) ==
    /\ Answered(p)
    /\ reads' = [reads EXCEPT ![p] = IF hubUp THEN Append(@, remote) ELSE @]
    /\ UNCHANGED <<remote, answer, began>>

\* Mutant of Broken: what was not let through is taken for nothing found.
BrokenAsNothing == Nothing

\* What the fetch returns when a request fails or is refused.
Broken == Error

\* Nothing, if there is no code location or it has no summaries.
Outcome(read) ==
    CASE Len(read) = 1 /\ read[1] = Absent -> Nothing
      [] Len(read) = Len(Chain) /\ read[5] <= Empty -> Nothing
      [] Len(read) = Len(Chain) /\ read[5] > Empty -> Results(read)
      [] OTHER -> Fetching

FetchOn(p) ==
    /\ Return(p)
    /\ \/ pc[p] = "Failed" /\ answer' = [answer EXCEPT ![p] = Broken]
       \/ pc[p] = "Succeeded" /\ answer' = [answer EXCEPT ![p] = Outcome(reads[p])]
       \/ LinksMiss /\ pc[p] = "Succeeded" /\ answer' = [answer EXCEPT ![p] = Error]
    /\ reads' = [reads EXCEPT ![p] = IF answer'[p] = Fetching THEN @ ELSE <<>>]
    /\ UNCHANGED <<remote, began>>

RemoteProceeds ==
    /\ remote < Done
    /\ remote' = remote + 1
    /\ UNCHANGED <<breakerVars, reads, answer, began>>

FetcherStep(p) ==
    Request(p) \/ Response(p) \/ FetchOn(p) \/ (MethodStep(p) /\ UNCHANGED fetchVars)

OtherStep(p) == (BreakerStep(p) \/ Return(p)) /\ UNCHANGED fetchVars

FetchNext ==
    \/ \E p \in Fetchers : FetcherStep(p)
    \/ \E p \in Requesters \ Fetchers : OtherStep(p)
    \/ (Elapse \/ HubChanges) /\ UNCHANGED fetchVars
    \/ RemoteProceeds

FetchSpec == FetchInit /\ [][FetchNext]_clientVars

\* Time passes, and a goroutine that is in a request, or a fetch, gets on with
\* it: the timers fetch again and again, and the hub answers in some way.
FetchFairness ==
    /\ WF_clientVars(Elapse /\ UNCHANGED fetchVars)
    /\ \A p \in Fetchers : SF_clientVars(FetcherStep(p))
    /\ \A p \in Requesters \ Fetchers :
          SF_clientVars((MethodStep(p) \/ Answered(p)) /\ UNCHANGED fetchVars)

FetchFairSpec == FetchSpec /\ FetchFairness

-----------------------------------------------------------------------------
(* Properties.                                                             *)

ResultsSet == [is : {"Results"}, profile : RemoteStages, policy : RemoteStages,
               summaries : RemoteStages]

\* Every variable has its type; there is at most one read for each request.
FetchTypeOK ==
    /\ BreakerTypeOK
    /\ remote \in RemoteStages
    /\ \A p \in Fetchers :
          /\ Len(reads[p]) <= Len(Chain)
          /\ \A i \in DOMAIN reads[p] : reads[p][i] \in RemoteStages
          /\ answer[p] \in {Fetching, Nothing, Error} \cup ResultsSet
    /\ began \in [Fetchers -> RemoteStages]

\* A scan whose summaries were there before the fetch began is never reported
\* missing: an outage, a refusal of the breaker or a lost link is an error.
NothingMeansAbsent ==
    \A p \in Fetchers : answer[p] = Nothing => began[p] <= Empty

\* The summaries, whose verdict the hub model goes by, are the newest part of
\* the results.  So results of a scan in progress are in progress throughout,
\* and those of a fetch that began after the scan was done are final; but a
\* verdict may come with a risk profile from before the end of the scan.
VerdictIsNewest ==
    \A p \in Fetchers :
        answer[p].is = "Results" =>
            /\ began[p] <= answer[p].profile
            /\ answer[p].profile <= answer[p].policy
            /\ answer[p].policy <= answer[p].summaries
            /\ answer[p].summaries <= remote
=============================================================================
