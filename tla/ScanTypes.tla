----------------------------- MODULE ScanTypes -----------------------------
(***************************************************************************)
(* The vocabulary that the core model, the model of a Black Duck hub and   *)
(* their composition share: the scan status of an image, the summary       *)
(* status of a scan and the results of a scan, with the pure functions the *)
(* code computes on them.                                                  *)
(***************************************************************************)
EXTENDS Integers, FiniteSets

CONSTANTS Shas,          \* image shas; a sha is also the name of its scan
          Reports,       \* what the hub reports of a scan (risk, policy, links)
          SummarySets,   \* the sets of summary statuses a scan may have
          NoResults      \* a nil *ScanResults

SummaryStatuses == {"Success", "InProgress", "Failure"}

(***************************************************************************)
(* fetchScan returns nil for a code location without scan summaries, so    *)
(* every *ScanResults of the program has at least one.                     *)
(***************************************************************************)
ASSUME SummariesAssumption == SummarySets \subseteq (SUBSET SummaryStatuses) \ {{}}

(***************************************************************************)
(* hub.ScanResults: its scan summaries as the set of their statuses, the   *)
(* rest of the record as one opaque report.                                *)
(***************************************************************************)
ScanResults == [summaries : SummarySets, report : Reports]

ASSUME NoResultsAssumption == NoResults \notin ScanResults

(***************************************************************************)
(* One success makes the scan a success; without one, a scan that still    *)
(* runs makes it in progress; every other scan is a failure.               *)
(***************************************************************************)
ScanSummaryStatus(r) ==
    CASE "Success" \in r.summaries -> "Success"
      [] "Success" \notin r.summaries /\ "InProgress" \in r.summaries -> "InProgress"
      [] OTHER -> "Failure"

ScanStatuses ==
    {"Unknown", "InQueue", "RunningScanClient", "RunningHubScan", "Complete"}

\* Mutants of legalTransitions: an image may be scanned again after it is
\* complete; one whose scan client failed may not be queued again.
legalRescans ==
    ({"Unknown", "InQueue", "RunningScanClient", "RunningHubScan"} \X ScanStatuses)
      \cup ( {"Complete"} \X {"InQueue"} )

legalWithoutRetry ==
    ( {"Unknown"} \X {"InQueue", "RunningHubScan", "Complete"} )
      \cup ( {"InQueue"} \X {"RunningScanClient", "RunningHubScan"} )
      \cup ( {"RunningScanClient"} \X {"RunningHubScan"} )
      \cup ( {"RunningHubScan"} \X {"InQueue", "Complete"} )

\* The status changes the core model permits, as pairs <<from, to>>.
legalTransitions ==
    ( {"Unknown"} \X {"InQueue", "RunningHubScan", "Complete"} )
      \cup ( {"InQueue"} \X {"RunningScanClient", "RunningHubScan"} )
      \cup ( {"RunningScanClient"} \X {"InQueue", "RunningHubScan"} )
      \cup ( {"RunningHubScan"} \X {"InQueue", "Complete"} )

IsLegalTransition(from, to) == <<from, to>> \in legalTransitions

ScanStages == {"Unknown", "ScanClient", "HubScan", "Complete", "Failure"}
=============================================================================
