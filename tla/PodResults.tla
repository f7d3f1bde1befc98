----------------------------- MODULE PodResults -----------------------------
(***************************************************************************)
(* What perceptor publishes of its core model: the results of images, the  *)
(* results of pods, aggregated over their containers, and the metrics of   *)
(* both.  Nothing here changes the model.                                  *)
(*                                                                         *)
(* A pod of CoreModel is the set of the images of its containers; the code *)
(* walks through a list of them, in which an image may occur twice.  What  *)
(* is said of a pod is said of every list that its set may stand for.      *)
(***************************************************************************)
EXTENDS CoreModel, FiniteSetsExt

CONSTANTS PolicyStatus,   \* report -> overall status, and components by status
          RiskProfile,    \* report -> category -> risks by status
          MaxContainers   \* bound on the containers of a pod

Lists == INSTANCE SequencesExt

PolicyStatuses == {"NOT_IN_VIOLATION", "IN_VIOLATION", "IN_VIOLATION_OVERRIDDEN"}

\* A map from some of the keys in K to numbers: the others are missing.
IsCounts(map, K) == DOMAIN map \subseteq K /\ \A k \in DOMAIN map : map[k] \in Nat

ASSUME PolicyStatusAssumption ==
    \A r \in Reports : /\ PolicyStatus[r].overall \in PolicyStatuses
                       /\ IsCounts(PolicyStatus[r].counts, PolicyStatuses)

ASSUME MaxContainersAssumption == MaxContainers \in Nat

\* A client posts lists that end.
ASSUME FiniteListsAssumption ==
    /\ \A list \in ImageLists : IsFiniteSet(list)
    /\ \A list \in PodLists : /\ IsFiniteSet(list)
                              /\ \A pod \in list : IsFiniteSet(pod.images)

ASSUME RiskProfileAssumption ==
    \A r \in Reports : \A category \in DOMAIN RiskProfile[r] :
        IsCounts(RiskProfile[r][category], {"CRITICAL", "HIGH", "LOW"})

Get(map, key) == IF key \in DOMAIN map THEN map[key] ELSE 0

ViolationCount(r) == Get(PolicyStatus[r.report].counts, "IN_VIOLATION")

VulnerabilityCount(r) ==
    LET categories == RiskProfile[r.report]
    IN  IF "VULNERABILITY" \in DOMAIN categories
        THEN Get(categories["VULNERABILITY"], "CRITICAL")
               + Get(categories["VULNERABILITY"], "HIGH")
        ELSE 0

-----------------------------------------------------------------------------
(* Results of images and pods.                                             *)

\* A scan, or why there is none.
Missing == [at |-> "Error"]
NotYet == [at |-> "Nil"]
PodScan(st, violations, vulnerabilities) ==
    [at |-> "Scan", overallStatus |-> st,
     policyViolations |-> violations, vulnerabilities |-> vulnerabilities]

scanResultsForImage(s) ==
    CASE s \notin Known -> Missing
      [] s \in Known /\ images[s].status # "Complete" -> NotYet
      [] s \in InStatus("Complete") /\ images[s].results = NoResults -> Missing
      [] OTHER -> LET r == images[s].results
                  IN  PodScan(PolicyStatus[r.report].overall, ViolationCount(r),
                              VulnerabilityCount(r))

\* Mutants of AddContainer: an image that is not scanned yet is passed over; the
\* last container decides alone.
AddContainerScanned(pod, s) ==
    LET scan == scanResultsForImage(s)
    IN  IF pod.at # "Scan" \/ scan.at # "Scan" THEN pod
        ELSE PodScan(IF scan.overallStatus = "NOT_IN_VIOLATION" THEN pod.overallStatus
                                                                ELSE scan.overallStatus,
                     pod.policyViolations + scan.policyViolations,
                     pod.vulnerabilities + scan.vulnerabilities)

AddContainerLast(pod, s) ==
    LET scan == scanResultsForImage(s)
    IN  IF pod.at # "Scan" THEN pod
        ELSE IF scan.at # "Scan" THEN scan
        ELSE PodScan(scan.overallStatus, pod.policyViolations + scan.policyViolations,
                     pod.vulnerabilities + scan.vulnerabilities)

\* The first container without a scan ends the loop.
AddContainer(pod, s) ==
    LET scan == scanResultsForImage(s)
    IN  IF pod.at # "Scan" THEN pod
        ELSE IF scan.at # "Scan" THEN scan
        ELSE PodScan(IF scan.overallStatus = "NOT_IN_VIOLATION" THEN pod.overallStatus
                                                                ELSE scan.overallStatus,
                     pod.policyViolations + scan.policyViolations,
                     pod.vulnerabilities + scan.vulnerabilities)

scanResultsForPod(containers) ==
    Lists!FoldLeft(AddContainer, PodScan("NOT_IN_VIOLATION", 0, 0), containers)

\* The lists of containers that a set of images may stand for.
Containers(shas) == {cs \in Lists!SeqOf(shas, MaxContainers) : Lists!ToSet(cs) = shas}

\* What GetScanResults publishes when pod n has the containers lists[n].
scanResultsPods(lists) == {n \in DOMAIN lists : scanResultsForPod(lists[n]).at = "Scan"}
scanResultsImages == {s \in InStatus("Complete") : images[s].results # NoResults}

-----------------------------------------------------------------------------
(* Metrics.                                                                *)

\* Mutant of PodStatus: a pod without a scan is not counted.
PodStatusScanned(lists) ==
    [st \in PolicyStatuses \cup {"Unknown"} |->
        Cardinality({n \in scanResultsPods(lists) :
                        scanResultsForPod(lists[n]).overallStatus = st})]

\* How many pods have which status.  A pod with an error is left out.
PodStatus(lists) ==
    [st \in PolicyStatuses \cup {"Unknown"} |->
        Cardinality({n \in DOMAIN lists :
                        LET scan == scanResultsForPod(lists[n])
                        IN  IF scan.at = "Scan" THEN scan.overallStatus = st
                                                ELSE scan.at = "Nil" /\ st = "Unknown"})]

ImageStatus ==
    [st \in PolicyStatuses \cup {"Unknown"} |->
        Cardinality({s \in Known :
                        LET scan == scanResultsForImage(s)
                        IN  IF scan.at = "Scan" THEN scan.overallStatus = st
                                                ELSE scan.at = "Nil" /\ st = "Unknown"})]

statusCounts == [st \in ScanStatuses |-> Cardinality(InStatus(st))]

-----------------------------------------------------------------------------
(* Properties.                                                             *)

Total(counts) == MapThenSumSet(LAMBDA k : counts[k], DOMAIN counts)

\* "all pods for which all their images have a scan status of complete", says
\* GetScanResults (perceptor.go): a pod is published exactly then, whatever the
\* order of its containers, and no error hides one.
PodReportComplete ==
    \A n \in DOMAIN pods : \A containers \in Containers(pods[n]) :
        LET scan == scanResultsForPod(containers)
        IN  /\ scan.at # "Error"
            /\ scan.at = "Scan" <=> pods[n] \subseteq InStatus("Complete")

\* The loop adds up what its containers have, and finds the pod without a
\* violation only if every container is; otherwise its status is that of one
\* of its containers (which one depends on their order).
PodTotalsSound ==
    \A n \in DOMAIN pods : \A containers \in Containers(pods[n]) :
        LET scan == scanResultsForPod(containers)
            of(i) == scanResultsForImage(containers[i])
            all == DOMAIN containers
        IN  scan.at = "Scan" =>
              /\ scan.policyViolations = Total([i \in all |-> of(i).policyViolations])
              /\ scan.vulnerabilities = Total([i \in all |-> of(i).vulnerabilities])
              /\ IF \A i \in all : of(i).overallStatus = "NOT_IN_VIOLATION"
                 THEN scan.overallStatus = "NOT_IN_VIOLATION"
                 ELSE \E i \in all : /\ scan.overallStatus = of(i).overallStatus
                                     /\ of(i).overallStatus # "NOT_IN_VIOLATION"

\* The metrics of pods, the metrics of images, the counts of the statuses and
\* what is published are computed one by one and agree: every pod and every
\* image is counted once, as unknown exactly when it is not published.
MetricsAgree ==
    LET lists == [n \in DOMAIN pods |-> Lists!SetToSeq(pods[n])]
    IN  /\ Total(PodStatus(lists)) = Cardinality(DOMAIN pods)
        /\ PodStatus(lists)["Unknown"] = Cardinality(DOMAIN pods \ scanResultsPods(lists))
        /\ Total(ImageStatus) = Cardinality(Known)
        /\ ImageStatus["Unknown"] = Cardinality(Known \ scanResultsImages)
        /\ statusCounts["Complete"] = Cardinality(scanResultsImages)
        /\ Total(statusCounts) = Cardinality(Known)
=============================================================================
