--------------------------- MODULE PerceptorProofs ---------------------------
(***************************************************************************)
(* Theorems about Perceptor.                                               *)
(*                                                                         *)
(* First about its parts and what they do together, for any hubs, images   *)
(* and limits, and however often perceptor is restarted; then about what   *)
(* becomes of one image, while perceptor is not restarted.                 *)
(***************************************************************************)
EXTENDS Perceptor, FiniteSetTheorems, TLAPS, Sequences

CP == INSTANCE CoreModelProofs
HP == INSTANCE HubProofs

-----------------------------------------------------------------------------
(***************************************************************************)
(* The proofs about the parts are about the parts that Perceptor has.      *)
(***************************************************************************)

\* The handlers of the core model are those that CoreModelProofs is about.
LEMMA CoreHandlers ==
    /\ \A s : Core!startScanClient(s) => CP!startScanClient(s)
    /\ \A s, failed : Core!finishRunningScanClient(s, failed) => CP!finishRunningScanClient(s, failed)
    /\ \A s, r : Core!scanDidFinish(s, r) => CP!scanDidFinish(s, r)
    /\ \A image : Core!addImage(image) => CP!createImages({image})
<1>1. \A imgs, s, to : Core!setImageScanStatus(imgs, s, to) => CP!setImageScanStatus(imgs, s, to)
  BY DEF Core!setImageScanStatus, CP!setImageScanStatus, Core!leaveState, CP!leaveState,
         Core!CanLeave, CP!CanLeave, Core!CanEnter, CP!CanEnter, Core!enterState, CP!enterState,
         Core!IsLegalTransition, CP!IsLegalTransition,
         Core!legalTransitions, CP!legalTransitions, Core!HasKey, CP!HasKey,
         Core!Remove, CP!Remove, Core!Add, CP!Add
<1>2. Core!Known = CP!Known /\ \A st : Core!InStatus(st) = CP!InStatus(st)
  BY DEF Core!Known, CP!Known, Core!InStatus, CP!InStatus
<1>3. \A s : Core!startScanClient(s) => CP!startScanClient(s)
  BY <1>1, <1>2 DEF Core!startScanClient, CP!startScanClient
<1>4. \A s, failed : Core!finishRunningScanClient(s, failed) => CP!finishRunningScanClient(s, failed)
  BY <1>1, <1>2 DEF Core!finishRunningScanClient, CP!finishRunningScanClient
<1>5. \A s, r : Core!scanDidFinish(s, r) => CP!scanDidFinish(s, r)
  <2>1. \A r : Core!Outcome(r) = CP!Outcome(r)
    BY DEF Core!Outcome, CP!Outcome, Core!ScanSummaryStatus, CP!ScanSummaryStatus
  <2>2. Core!finishTransitions = CP!finishTransitions /\ Core!ScanStatuses = CP!ScanStatuses
    BY DEF Core!finishTransitions, CP!finishTransitions, Core!ScanStatuses, CP!ScanStatuses
  <2> QED
    BY <1>1, <1>2, <2>1, <2>2, Zenon DEF Core!scanDidFinish, CP!scanDidFinish
<1>6. \A image : Core!addImage(image) => CP!createImages({image})
  BY Zenon DEF Core!addImage, Core!allImages,
         Core!createImages, CP!createImages, Core!FirstPriorities, CP!FirstPriorities,
         Core!ShasOf, CP!ShasOf, Core!Known, CP!Known, Core!Offered, CP!Offered,
         Core!Adopted, CP!Adopted, Core!Raised, CP!Raised, Core!Highest, CP!Highest,
         Core!NewImageInfo, CP!NewImageInfo, Core!Requeued, CP!Requeued,
         Core!InStatus, CP!InStatus
<1> QED
  BY <1>3, <1>4, <1>5, <1>6

\* So are the hub clients those that HubProofs is about.
LEMMA HubRequests ==
    /\ \A h \in Hubs : Hub!HubInternal(h) => HP!HubInternal(h)
    /\ \A h, n : Hub!StartScanClient(h, n) => HP!StartScanClient(h, n)
    /\ \A h, n, failed : Hub!FinishScanClient(h, n, failed) => HP!FinishScanClient(h, n, failed)
    /\ \A h, n : Hub!Upload(h, n) => HP!Upload(h, n)
    /\ \A u : Hub!Deliver(u) => HP!Deliver(u)
<1>1. \A h \in Hubs : Hub!LoginFails(h) => HP!LoginFails(h)
  BY DEF Hub!LoginFails, HP!LoginFails, Hub!Timers, HP!Timers, Hub!Running, HP!Running
<1>2. \A h \in Hubs : Hub!LoginSucceeds(h) => HP!LoginSucceeds(h)
  BY DEF Hub!LoginSucceeds, HP!LoginSucceeds, Hub!Timers, HP!Timers,
         Hub!StartState, HP!StartState
<1>3. \A h \in Hubs : Hub!fetchAllScans(h) \/ Hub!didFetchScans(h) => HP!fetchAllScans(h) \/ HP!didFetchScans(h)
  BY DEF Hub!fetchAllScans, HP!fetchAllScans, Hub!didFetchScans, HP!didFetchScans,
         Hub!Located, HP!Located, Hub!Rested, HP!Rested, Hub!Listed, HP!Listed,
         Hub!Names, HP!Names, Hub!UnknownScan, HP!UnknownScan
<1>4. \A h, t, n : Hub!fetchScan(h, t, n) => HP!fetchScan(h, t, n)
  BY DEF Hub!fetchScan, HP!fetchScan, Hub!FetchesNext, HP!FetchesNext, Hub!Ticking, HP!Ticking,
         Hub!PassOver, HP!PassOver, Hub!TakeAnswer, HP!TakeAnswer, Hub!Answers, HP!Answers,
         Hub!Answer, HP!Answer, Hub!ScanResults, HP!ScanResults, Hub!Summaries, HP!Summaries,
         Hub!Located, HP!Located, Hub!Reportable, HP!Reportable,
         Hub!ScanSummaryStatus, HP!ScanSummaryStatus
<1>5. \A h, t : Hub!Report(h, t) => HP!Report(h, t)
  <2>1. \A u : Hub!publish(u) => HP!publish(u)
    <3>1. \A u : Hub!BagAdd(updates, u) = HP!BagAdd(updates, u)
      BY DEF Hub!BagAdd, HP!BagAdd
    <3> QED
      BY <3>1 DEF Hub!publish, HP!publish, Hub!BagCardinality, HP!BagCardinality
  <2>2. \A h, n, scan : Hub!SetScan(h, n, scan) => HP!SetScan(h, n, scan)
    BY DEF Hub!SetScan, HP!SetScan, Hub!Names, HP!Names
  <2>3. \A r : Hub!StageFor(r) = HP!StageFor(r)
    BY DEF Hub!StageFor, HP!StageFor, Hub!ScanSummaryStatus, HP!ScanSummaryStatus
  <2>4. \A h, st : Hub!InStage(h, st) = HP!InStage(h, st)
    BY DEF Hub!InStage, HP!InStage, Hub!Names, HP!Names
  <2>5. \A h, u : /\ Hub!didFetchScanResults(h, u) => HP!didFetchScanResults(h, u)
                  /\ Hub!scanDidFinish(h, u) => HP!scanDidFinish(h, u)
    BY <2>1, <2>2, <2>3, <2>4
       DEF Hub!didFetchScanResults, HP!didFetchScanResults, Hub!scanDidFinish, HP!scanDidFinish
  <2> QED
    BY <2>5 DEF Hub!Report, HP!Report, Hub!Ticking, HP!Ticking
<1>6. \A h, t : Hub!Tick(h, t) \/ Hub!Return(h, t) \/ Hub!Ask(h, t) => HP!Tick(h, t) \/ HP!Return(h, t) \/ HP!Ask(h, t)
  BY DEF Hub!Tick, HP!Tick, Hub!Return, HP!Return, Hub!Ask, HP!Ask, Hub!Ticking, HP!Ticking,
         Hub!StartState, HP!StartState, Hub!Rested, HP!Rested, Hub!InStage, HP!InStage,
         Hub!Names, HP!Names, Hub!StagesOf, HP!StagesOf
<1>7. \A h, n, v : Hub!RemoteFinish(h, n, v) => HP!RemoteFinish(h, n, v)
  BY DEF Hub!RemoteFinish, HP!RemoteFinish, Hub!Summaries, HP!Summaries,
         Hub!Located, HP!Located, Hub!timerVars, HP!timerVars
<1>8. \A h \in Hubs : Hub!HubInternal(h) => HP!HubInternal(h)
  BY <1>1, <1>2, <1>3, <1>4, <1>5, <1>6, <1>7
     DEF Hub!HubInternal, HP!HubInternal, Hub!JobStep, HP!JobStep, Hub!Ticking, HP!Ticking
<1>9. /\ \A h, n : Hub!StartScanClient(h, n) => HP!StartScanClient(h, n)
      /\ \A h, n, failed : Hub!FinishScanClient(h, n, failed) => HP!FinishScanClient(h, n, failed)
  BY DEF Hub!StartScanClient, HP!StartScanClient, Hub!FinishScanClient, HP!FinishScanClient,
         Hub!SetScan, HP!SetScan, Hub!InStage, HP!InStage, Hub!Names, HP!Names,
         Hub!timerVars, HP!timerVars
<1>10. /\ \A h, n : Hub!Upload(h, n) => HP!Upload(h, n)
       /\ \A u : Hub!Deliver(u) => HP!Deliver(u)
  BY DEF Hub!Upload, HP!Upload, Hub!Deliver, HP!Deliver, Hub!Located, HP!Located,
         Hub!Summaries, HP!Summaries, Hub!timerVars, HP!timerVars, Hub!BagRemove, HP!BagRemove
<1> QED
  BY <1>8, <1>9, <1>10

\* And what the parts assume of their constants holds.
LEMMA HubAssumptions ==
    /\ MaxUpdates \in Nat \ {0}
    /\ \A r \in RemoteInits : DOMAIN r = Hubs /\ \A h \in Hubs : DOMAIN r[h] \subseteq Shas
    /\ Verdicts \subseteq {"Success", "Failure"}
    /\ NoAnswer \notin HP!Answer
    /\ NoResults \notin HP!ScanResults
    /\ SummarySets \subseteq (SUBSET HP!SummaryStatuses) \ {{}}
BY PartsAssumption, NoResultsAssumption, SummariesAssumption
   DEF Hub!Answer, HP!Answer, Hub!ScanResults, HP!ScanResults, ScanResults,
       SummaryStatuses, HP!SummaryStatuses

\* Those of the core model, too.
LEMMA CoreAssumptions ==
    /\ ImageLists \subseteq SUBSET CP!Image /\ PodLists \subseteq SUBSET CP!Pod
    /\ Priorities \subseteq Int /\ -1 \in Priorities
    /\ \A P \in (SUBSET Priorities) \ {{}} : \E p \in P : \A x \in P : x <= p
    /\ NoResults \notin CP!ScanResults
    /\ SummarySets \subseteq (SUBSET CP!SummaryStatuses) \ {{}}
BY PartsAssumption, NoResultsAssumption, SummariesAssumption
   DEF Core!Image, CP!Image, Core!Pod, CP!Pod, CP!ScanResults, ScanResults,
       SummaryStatuses, CP!SummaryStatuses

-----------------------------------------------------------------------------
(* The types of what Perceptor adds to the parts.                          *)

NextStates ==
    {Idle} \cup [at : {"Assign"}, sha : Shas, left : SUBSET Hubs]
           \cup [at : {"Reply", "StartCore", "StartHub"}, sha : Shas, hub : Hubs]

Found == UNION {[N -> HP!Scan] : N \in SUBSET Shas}

CheckStates ==
    {Idle} \cup [at : {"Collect"}, shas : SUBSET Shas, left : SUBSET Hubs, found : Found]
           \cup [at : {"Apply"}, shas : SUBSET Shas, found : Found]

PTypes ==
    /\ clients \subseteq Hubs
    /\ next \in NextStates
    /\ check \in CheckStates
    /\ DOMAIN jobs \subseteq Job

Parts == CP!ImagesInv /\ HP!HInv

\* What the hands of a bag are after an addition or a removal.
LEMMA JobBags ==
    ASSUME NEW B, NEW x
    PROVE  /\ DOMAIN BagAdd(B, x) = DOMAIN B \cup {x}
           /\ DOMAIN BagRemove(B, x) \subseteq DOMAIN B
           /\ DOMAIN B \ {x} \subseteq DOMAIN BagRemove(B, x)
BY DEF BagAdd, BagRemove

\* The jobs after one of them moved on.
LEMMA MovedJobs ==
    ASSUME NEW j, NEW to, Move(j, to)
    PROVE  /\ DOMAIN jobs' \subseteq DOMAIN jobs \cup {to}
           /\ (DOMAIN jobs \ {j}) \cup {to} \subseteq DOMAIN jobs'
<1>1. jobs' = BagAdd(BagRemove(jobs, j), to)
  BY DEF Move
<1>2. PICK rest : rest = BagRemove(jobs, j)
  OBVIOUS
<1>3. /\ DOMAIN BagAdd(rest, to) = DOMAIN rest \cup {to}
      /\ DOMAIN rest \subseteq DOMAIN jobs /\ DOMAIN jobs \ {j} \subseteq DOMAIN rest
  BY <1>2, JobBags, Zenon
<1> QED
  BY <1>1, <1>2, <1>3

\* A hub client that is made after a restart is in order.
LEMMA FreshHubAfter ==
    /\ HP!NewHub(status, timer, pauseQueued, todo, answer, scans, hasFetched, updates)'
    /\ HP!RemoteInv'
    => HP!HInv'
<1>1. /\ HP!NewHub(status, timer, pauseQueued, todo, answer, scans, hasFetched, updates)
      /\ HP!RemoteInv
      => HP!HInv
  BY HubAssumptions, HP!FreshHub
<1> QED
  BY <1>1, PTL

\* Every step keeps the hub clients in order, only StartHub gives a scan a
\* client, and only a restart forgets a scan.
LEMMA HubPart ==
    ASSUME Parts, PTypes, [Next]_vars
    PROVE  /\ HP!HInv'
           /\ HP!FewerClients \/ StartHub
           /\ HP!KeepsScans \/ Restart
<1>1. CASE StartHub
  <2>1. next.hub \in Hubs /\ next.sha \in Shas
    BY <1>1 DEF StartHub, PTypes, NextStates, Idle
  <2>2. HP!StartScanClient(next.hub, next.sha)
    BY <1>1, HubRequests DEF StartHub
  <2>3. HP!HubMoves
    BY <2>1, <2>2 DEF HP!HubMoves, HP!HubNext
  <2> QED
    BY <1>1, <2>3, HubAssumptions, HP!HubStepInv DEF Parts
<1>2. ASSUME NEW j \in Job, TellHub(j)
      PROVE  HP!HInv' /\ HP!FewerClients /\ HP!KeepsScans
  <2>1. j.hub \in Hubs /\ j.sha \in Shas /\ j.failed \in BOOLEAN
    BY DEF Job
  <2>2. CASE Hub!FinishScanClient(j.hub, j.sha, j.failed)
    <3>1. HP!FinishScanClient(j.hub, j.sha, j.failed)
      BY <2>2, HubRequests
    <3>2. HP!HubMoves
      BY <2>1, <3>1 DEF HP!HubMoves, HP!HubNext
    <3>3. HP!FewerClients
      BY <2>1, <3>1, HubAssumptions, HP!FinishStep DEF Parts, HP!HInv
    <3> QED
      BY <3>2, <3>3, HubAssumptions, HP!HubStepInv DEF Parts
  <2>3. CASE UNCHANGED hubVars
    BY <2>3, HubAssumptions, HP!HubStepInv, HP!NoScansStep DEF Parts, HP!HInv, hubVars, HP!hubVars
  <2> QED
    BY <1>2, <2>2, <2>3 DEF TellHub
<1>3. ASSUME HP!HubChores
      PROVE  HP!HInv' /\ HP!FewerClients /\ HP!KeepsScans
  <2>1. HP!HubMoves
    BY <1>3 DEF HP!HubMoves, HP!HubNext, HP!HubChores
  <2> QED
    BY <1>3, <2>1, HubAssumptions, HP!HubStepInv, HP!ChoresStep DEF Parts, HP!HInv
<1>4. ASSUME NEW h \in Hubs, HubStep(h)
      PROVE  HP!HubChores
  BY <1>4, HubRequests DEF HubStep, HP!HubChores
<1>5. ASSUME NEW j \in Job, ClientUploads(j)
      PROVE  HP!HubChores
  BY <1>5, HubRequests DEF ClientUploads, HP!HubChores, Job
<1>6. ASSUME NEW u \in DOMAIN updates, PassUpdateOn(u)
      PROVE  HP!HubChores
  BY <1>6, HubRequests DEF PassUpdateOn, HP!HubChores, Parts, HP!HInv, HP!UpdatesInv
<1>7. CASE Restart
  <2>1. HP!HInv'
    <3>1. HP!RemoteInv'
      BY <1>7 DEF Restart, Parts, HP!HInv, HP!RemoteInv, HP!Located
    <3> QED
      BY <1>7, <3>1, FreshHubAfter DEF Restart, HP!NewHub, Hub!NewHub, HP!Timers, Hub!Timers
  <2>2. \A h \in Hubs : HP!Clients(h)' = {}
    BY <1>7 DEF Restart, Hub!NewHub, HP!Clients, HP!InStage, HP!Names
  <2> QED
    BY <1>7, <2>1, <2>2 DEF HP!FewerClients
<1>8. CASE UNCHANGED hubVars
  BY <1>8, HubAssumptions, HP!HubStepInv, HP!NoScansStep DEF Parts, HP!HInv, hubVars, HP!hubVars
<1> QED
  BY <1>1, <1>2, <1>3, <1>4, <1>5, <1>6, <1>7, <1>8, Zenon
     DEF Next, HandOut, CheckStep, FinishJob, vars, PeekNext, NoHubAvailable, Reply, StartCore,
         AssignImage, CheckUnknown, Collected, CollectFrom, ApplyTo, ClientPosts, TellCore,
         CreateHub, AddImage

\* The images are in order after a restart.
LEMMA FreshImagesAfter == CP!CoreInit' => CP!ImagesInv'
<1>1. CP!CoreInit => CP!ImagesInv
  BY CoreAssumptions, CP!InitInvariant DEF CP!IInv
<1> QED
  BY <1>1, PTL

\* The handlers that never make an image a running one.
LEMMA DidFinishStep ==
    ASSUME Parts, NEW s \in Shas, NEW r \in CP!ScanResults \cup {NoResults},
           Core!scanDidFinish(s, r)
    PROVE  CP!ImagesInv' /\ CP!Running' \subseteq CP!Running /\ CP!StepOfImages
<1>1. CP!scanDidFinish(s, r)
  BY CoreHandlers
<1>2. /\ CP!ImagesInv' /\ CP!ImageStep(s)
      /\ s \in CP!Known /\ images'[s].status = "RunningScanClient"
           => images[s].status = "RunningScanClient"
  BY <1>1, CoreAssumptions, CP!ScanDidFinishStep DEF Parts
<1>3. /\ CP!Running' \subseteq CP!Running \cup {s}
      /\ ~(s \in CP!Known /\ images'[s].status = "RunningScanClient")
            => CP!Running' \subseteq CP!Running \ {s}
  BY <1>2, CoreAssumptions, CP!RunningAfterStep
<1> QED
  BY <1>2, <1>3 DEF CP!Running, CP!InStatus, CP!StepOfImages

\* Adding an image makes it no running one, either.
LEMMA AddImageStep ==
    ASSUME Parts, NEW image \in Posted, AddImage(image)
    PROVE  CP!ImagesInv' /\ CP!Running' \subseteq CP!Running /\ CP!StepOfImages
<1>1. CP!createImages({image})
  BY CoreHandlers DEF AddImage
<1>2. {image} \in SUBSET CP!Image
  BY PostedAssumption DEF Core!Image, CP!Image
<1>3. /\ CP!ImagesInv'
      /\ CP!Known' = CP!Known \cup CP!ShasOf({image})
      /\ \A s \in CP!Known : /\ images'[s].status = images[s].status
                             /\ images'[s].results = images[s].results
                             /\ images[s].priority < 0 => images'[s].priority < 0
      /\ \A s \in CP!Known' \ CP!Known : /\ images'[s].status = "Unknown"
                                         /\ images'[s].results = NoResults
  BY <1>1, <1>2, CoreAssumptions, CP!CreateImagesStep, Zenon DEF Parts
<1>4. CP!StepOfImages
  <2>1. CP!ImagesStep({image})
    BY <1>3, Zenon DEF CP!ImagesStep
  <2> QED
    BY <1>2, <2>1, Zenon DEF CP!StepOfImages
<1>5. CP!Running' \subseteq CP!Running
  BY <1>3, Zenon DEF CP!Running, CP!InStatus
<1> QED
  BY <1>3, <1>4, <1>5

\* Starting a scan client makes its image the only new running one.
LEMMA StartCoreStep ==
    ASSUME Parts, PTypes, StartCore
    PROVE  /\ CP!ImagesInv' /\ CP!StepOfImages
           /\ CP!Running' \subseteq CP!Running \cup {next.sha}
<1>1. next.sha \in Shas
  BY DEF StartCore, PTypes, NextStates, Idle
<1>2. CP!startScanClient(next.sha)
  BY CoreHandlers DEF StartCore
<1>3. CP!ImagesInv' /\ CP!ImageStep(next.sha)
  BY <1>1, <1>2, CoreAssumptions, CP!StartScanClientStep DEF Parts
<1> QED
  BY <1>1, <1>3, CoreAssumptions, CP!RunningAfterStep DEF CP!StepOfImages

\* Once the core is told that a scan client finished, its image is no running one.
LEMMA TellCoreStep ==
    ASSUME Parts, NEW j \in Job, TellCore(j)
    PROVE  /\ CP!ImagesInv' /\ CP!StepOfImages
           /\ CP!Running' \subseteq CP!Running \ {j.sha}
<1>1. j.sha \in Shas /\ j.failed \in BOOLEAN
  BY DEF Job
<1>2. CP!finishRunningScanClient(j.sha, j.failed)
  BY CoreHandlers DEF TellCore
<1>3. /\ CP!ImagesInv' /\ CP!ImageStep(j.sha)
      /\ j.sha \in CP!Known => images'[j.sha].status # "RunningScanClient"
  BY <1>1, <1>2, CoreAssumptions, CP!FinishRunningScanClientStep DEF Parts
<1>4. CP!StepOfImages
  BY <1>1, <1>3 DEF CP!StepOfImages
<1> QED
  BY <1>3, <1>4, CoreAssumptions, CP!RunningAfterStep, Zenon

\* Every step keeps the images in order, only StartCore makes one a running one,
\* and what a step does to the images the core model may do on its own, or
\* perceptor restarts.
LEMMA CorePart ==
    ASSUME Parts, PTypes, [Next]_vars
    PROVE  /\ CP!ImagesInv'
           /\ CP!Running' \subseteq CP!Running \/ StartCore
           /\ CP!StepOfImages \/ Restart
<1>1. CASE StartCore
  BY <1>1, StartCoreStep
<1>2. ASSUME NEW j \in Job, TellCore(j)
      PROVE  CP!ImagesInv' /\ CP!Running' \subseteq CP!Running /\ CP!StepOfImages
  BY <1>2, TellCoreStep
<1>3. ASSUME NEW u \in DOMAIN updates, PassUpdateOn(u)
      PROVE  CP!ImagesInv' /\ CP!Running' \subseteq CP!Running /\ CP!StepOfImages
  <2>1. u.name \in Shas /\ u.results \in CP!ScanResults
    BY DEF Parts, HP!HInv, HP!UpdatesInv, HP!Answer, HP!ScanResults, CP!ScanResults
  <2> QED
    BY <1>3, <2>1, DidFinishStep DEF PassUpdateOn
<1>4. ASSUME NEW image \in Posted, AddImage(image)
      PROVE  CP!ImagesInv' /\ CP!Running' \subseteq CP!Running /\ CP!StepOfImages
  BY <1>4, AddImageStep
<1>5. ASSUME UNCHANGED coreVars
      PROVE  CP!ImagesInv' /\ CP!Running' \subseteq CP!Running /\ CP!StepOfImages
  BY <1>5, CoreAssumptions, CP!NothingPrepared, CP!PreparedStep
     DEF Parts, coreVars, CP!Running, CP!InStatus, CP!Known, CP!StepOfImages
<1>6. ASSUME NEW s \in Shas, ApplyTo(s)
      PROVE  CP!ImagesInv' /\ CP!Running' \subseteq CP!Running /\ CP!StepOfImages
  <2>1. check \in [at : {"Apply"}, shas : SUBSET Shas, found : Found]
    BY <1>6 DEF ApplyTo, PTypes, CheckStates, Idle
  <2>2. s \in DOMAIN check.found => check.found[s].results \in CP!ScanResults \cup {NoResults}
    <3>1. PICK N \in SUBSET Shas : check.found \in [N -> HP!Scan]
      BY <2>1 DEF Found
    <3>2. \A scan \in HP!Scan : scan.results \in HP!ScanResults \cup {NoResults}
      BY DEF HP!Scan
    <3>3. HP!ScanResults = CP!ScanResults
      BY DEF HP!ScanResults, CP!ScanResults
    <3>4. s \in DOMAIN check.found => check.found[s] \in HP!Scan
      BY <3>1
    <3> QED
      BY <3>2, <3>3, <3>4
  <2>3. Resolve(s)
    BY <1>6 DEF ApplyTo
  <2>4. CASE s \notin DOMAIN check.found \/ check.found[s].stage = "Failure"
    <3>1. Core!scanDidFinish(s, NoResults)
      BY <2>3, <2>4 DEF Resolve
    <3> QED
      BY <3>1, DidFinishStep
  <2>5. CASE s \in DOMAIN check.found /\ check.found[s].stage = "Complete"
    <3>1. Core!scanDidFinish(s, check.found[s].results)
      BY <2>3, <2>5 DEF Resolve
    <3> QED
      BY <2>2, <2>5, <3>1, DidFinishStep
  <2>6. CASE /\ s \in DOMAIN check.found
             /\ check.found[s].stage # "Failure" /\ check.found[s].stage # "Complete"
    <3>1. UNCHANGED coreVars
      BY <2>3, <2>6 DEF Resolve
    <3> QED
      BY <1>5, <3>1
  <2> QED
    BY <2>4, <2>5, <2>6
<1>7. CASE Restart
  <2>1. CP!ImagesInv'
    BY <1>7, FreshImagesAfter DEF Restart, CP!CoreInit, Core!EmptyQueue, CP!EmptyQueue
  <2>2. CP!Running' = {}
    BY <1>7 DEF Restart, CP!Running, CP!InStatus, CP!Known
  <2> QED
    BY <1>7, <2>1, <2>2
<1> QED
  BY <1>1, <1>2, <1>3, <1>4, <1>5, <1>6, <1>7, Zenon
     DEF Next, HandOut, CheckStep, FinishJob, vars, PeekNext, NoHubAvailable, Reply, StartHub,
         AssignImage, CheckUnknown, Collected, CollectFrom, ClientUploads, ClientPosts, TellHub,
         CreateHub, HubStep

\* Every step keeps the types of what Perceptor adds.
LEMMA TypesPart ==
    ASSUME Parts, PTypes, [Next]_vars
    PROVE  PTypes'
<1>1. clients' \subseteq Hubs
  BY Zenon DEF PTypes, Next, HandOut, CheckStep, FinishJob, vars, PeekNext, NoHubAvailable, Reply,
         StartCore, StartHub, AssignImage, CheckUnknown, Collected, CollectFrom, ApplyTo,
         ClientUploads, ClientPosts, TellHub, TellCore, CreateHub, AddImage, HubStep,
         PassUpdateOn, Restart
<1>2. next' \in NextStates
  <2>1. ASSUME PeekNext
        PROVE  next' \in NextStates
    <3>1. PICK s \in Core!GetNextImage : next' = [at |-> "Assign", sha |-> s, left |-> clients]
      BY <2>1 DEF PeekNext
    <3>2. s \in Shas
      BY <3>1 DEF Core!GetNextImage, Core!Peek, Parts, CP!ImagesInv, CP!ImagesTypeOK
    <3> QED
      BY <3>1, <3>2 DEF NextStates, PTypes
  <2>2. ASSUME NEW h \in Hubs, AssignImage(h)
        PROVE  next' \in NextStates
    BY <2>2 DEF AssignImage, NextStates, PTypes, Idle
  <2>3. ASSUME Reply \/ StartCore
        PROVE  next' \in NextStates
    BY <2>3 DEF Reply, StartCore, NextStates, PTypes, Idle
  <2>4. ASSUME next' = Idle \/ UNCHANGED next
        PROVE  next' \in NextStates
    BY <2>4 DEF NextStates, PTypes
  <2> QED
    BY <2>1, <2>2, <2>3, <2>4, Zenon
       DEF Next, HandOut, CheckStep, FinishJob, vars, NoHubAvailable, StartHub, CheckUnknown,
           Collected, CollectFrom, ApplyTo, ClientUploads, ClientPosts, TellHub, TellCore,
           CreateHub, AddImage, HubStep, PassUpdateOn, Restart
<1>3. check' \in CheckStates
  <2>1. ASSUME CheckUnknown
        PROVE  check' \in CheckStates
    <3>1. PICK F \in SUBSET Shas : F = Core!InStatus("Unknown")
      BY Zenon DEF Core!InStatus, Core!Known, Parts, CP!ImagesInv, CP!ImagesTypeOK, CP!Known
    <3>2. [n \in {} |-> NoAnswer] \in Found
      <4>1. [n \in {} |-> NoAnswer] \in [{} -> HP!Scan] /\ {} \in SUBSET Shas
        OBVIOUS
      <4> QED
        BY <4>1, Zenon DEF Found
    <3> QED
      BY <2>1, <3>1, <3>2 DEF CheckUnknown, CheckStates, PTypes
  <2>2. ASSUME NEW h \in Hubs, CollectFrom(h)
        PROVE  check' \in CheckStates
    <3>1. check \in [at : {"Collect"}, shas : SUBSET Shas, left : SUBSET Hubs, found : Found]
      BY <2>2 DEF CollectFrom, CheckStates, PTypes, Idle
    <3>2. PICK F : F = [n \in DOMAIN check.found \cup Hub!Names(h) |->
                          IF n \in Hub!Names(h) THEN scans[h][n] ELSE check.found[n]]
      BY Zenon
    <3>3. PICK N \in SUBSET Shas : check.found \in [N -> HP!Scan]
      BY <3>1 DEF Found
    <3>4. Hub!Names(h) \in SUBSET Shas /\ \A n \in Hub!Names(h) : scans[h][n] \in HP!Scan
      BY DEF Hub!Names, HP!Names, Parts, HP!HInv, HP!ScansInv, HP!ScansTyped
    <3>5. F \in [N \cup Hub!Names(h) -> HP!Scan]
      BY <3>2, <3>3, <3>4
    <3>6. F \in Found
      BY <3>3, <3>4, <3>5 DEF Found
    <3>7. check' = Idle \/ check' = [check EXCEPT !.left = @ \ {h}, !.found = F]
      BY <2>2, <3>2 DEF CollectFrom
    <3> QED
      BY <3>1, <3>6, <3>7, Zenon DEF CheckStates
  <2>3. ASSUME Collected
        PROVE  check' \in CheckStates
    BY <2>3 DEF Collected, CheckStates, PTypes, Idle
  <2>4. ASSUME NEW s \in Shas, ApplyTo(s)
        PROVE  check' \in CheckStates
    BY <2>4 DEF ApplyTo, CheckStates, PTypes, Idle
  <2>5. ASSUME check' = Idle \/ UNCHANGED check
        PROVE  check' \in CheckStates
    BY <2>5 DEF CheckStates, PTypes
  <2> QED
    BY <2>1, <2>2, <2>3, <2>4, <2>5, Zenon
       DEF Next, HandOut, CheckStep, FinishJob, vars, PeekNext, NoHubAvailable, Reply,
           StartCore, StartHub, AssignImage, ClientUploads, ClientPosts, TellHub, TellCore,
           CreateHub, AddImage, HubStep, PassUpdateOn, Restart
<1>4. DOMAIN jobs' \subseteq Job
  <2>1. ASSUME Reply
        PROVE  DOMAIN jobs' \subseteq Job
    <3>1. next.sha \in Shas /\ next.hub \in Hubs
      BY <2>1 DEF Reply, PTypes, NextStates, Idle
    <3>2. PICK x : x = [sha |-> next.sha, hub |-> next.hub, failed |-> FALSE, at |-> "Started"]
      BY Zenon
    <3>3. x \in Job
      BY <3>1, <3>2 DEF Job
    <3>4. jobs' = BagAdd(jobs, x)
      BY <2>1, <3>2 DEF Reply
    <3>5. DOMAIN BagAdd(jobs, x) = DOMAIN jobs \cup {x}
      BY JobBags, Zenon
    <3> QED
      BY <3>3, <3>4, <3>5 DEF PTypes
  <2>2. ASSUME NEW j \in Job, FinishJob(j)
        PROVE  DOMAIN jobs' \subseteq Job
    <3>1. ASSUME NEW to \in Job, Move(j, to)
          PROVE  DOMAIN jobs' \subseteq Job
      BY <3>1, MovedJobs DEF PTypes
    <3>2. /\ [j EXCEPT !.at = "Uploaded"] \in Job
          /\ [j EXCEPT !.at = "HubTold"] \in Job
          /\ [j EXCEPT !.at = "Posted", !.failed = (j.at = "Started")] \in Job
      BY Zenon DEF Job
    <3>3. ASSUME TellCore(j)
          PROVE  DOMAIN jobs' \subseteq Job
      BY <3>3, JobBags, Zenon DEF TellCore, PTypes
    <3> QED
      BY <2>2, <3>1, <3>2, <3>3 DEF FinishJob, ClientUploads, ClientPosts, TellHub
  <2>3. ASSUME Restart \/ UNCHANGED jobs
        PROVE  DOMAIN jobs' \subseteq Job
    BY <2>3 DEF Restart, PTypes
  <2> QED
    BY <2>1, <2>2, <2>3, Zenon
       DEF Next, HandOut, CheckStep, vars, PeekNext, NoHubAvailable, StartCore, StartHub,
           AssignImage, CheckUnknown, Collected, CollectFrom, ApplyTo, CreateHub, AddImage,
           HubStep, PassUpdateOn
<1> QED
  BY <1>1, <1>2, <1>3, <1>4 DEF PTypes

\* Parts and types hold in every state.
LEMMA PartsStep == Parts /\ PTypes /\ [Next]_vars => (Parts /\ PTypes)'
<1>1. ASSUME Parts, PTypes, [Next]_vars
      PROVE  Parts' /\ PTypes'
  BY <1>1, HubPart, CorePart, TypesPart DEF Parts
<1> QED
  BY <1>1

\* They do at the start.
LEMMA PartsAtStart == Init => Parts /\ PTypes
<1> SUFFICES ASSUME Init
             PROVE  Parts /\ PTypes
  OBVIOUS
<1>1. CP!CoreInit => CP!ImagesInv
  BY CoreAssumptions, CP!InitInvariant DEF CP!IInv
<1>2. HP!HubInit => HP!HInv
  BY HubAssumptions, HP!HubAtStart
<1>3. CP!CoreInit
  BY DEF Init, Core!CoreInit, CP!CoreInit, Core!EmptyQueue, CP!EmptyQueue
<1>4. HP!HubInit
  BY DEF Init, Hub!HubInit, HP!HubInit, Hub!NewHub, HP!NewHub, Hub!Timers, HP!Timers
<1>5. PTypes
  BY DEF Init, PTypes, NextStates, CheckStates
<1> QED
  BY <1>1, <1>2, <1>3, <1>4, <1>5 DEF Parts

\* What is true of the core model and of the hub clients on their own stays true
\* of them at work together, and when perceptor, which keeps all of it in memory
\* only, is restarted among hubs that go on: the queue holds what is InQueue,
\* and results and stages agree.
THEOREM PartsCorrect ==
    Spec => [](/\ Core!QueueMatchesStatus
               /\ Core!QueuePrioritySound
               /\ Core!ResultsSound
               /\ Hub!StageMatchesResults
               /\ Hub!TimersFollowLogin)
<1>1. CP!ImagesInv => Core!QueueMatchesStatus /\ Core!QueuePrioritySound
  BY DEF CP!ImagesInv, CP!QueueMatchesStatus, CP!QueuePrioritySound, CP!InStatus, CP!Known,
         Core!QueueMatchesStatus, Core!QueuePrioritySound, Core!InStatus, Core!Known
<1>2. CP!ImagesInv => Core!ResultsSound
  BY DEF CP!ImagesInv, CP!ResultsSound, CP!Known, CP!ScanSummaryStatus,
         Core!ResultsSound, Core!Known, Core!ScanSummaryStatus
<1>3. HP!HInv => Hub!StageMatchesResults
  BY DEF HP!HInv, HP!ScansInv, HP!ScansTyped, HP!Scan, HP!ScanStages, HP!Matches, HP!VerdictOf,
         HP!Names, HP!ScanSummaryStatus, Hub!StageMatchesResults, Hub!Names, Hub!ScanSummaryStatus
<1>4. HP!HInv => Hub!TimersFollowLogin
  BY DEF HP!HInv, HP!TimerInv, HP!Follows, HP!Timers, HP!Running,
         Hub!TimersFollowLogin, Hub!Timers, Hub!Running
<1> QED
  BY <1>1, <1>2, <1>3, <1>4, PartsAtStart, PartsStep, PTL DEF Spec, Parts

\* The life of an image is the same for any two instances of the core model.
LEMMA SameLifecycle ==
    /\ CP!Lifecycle!Next <=> Core!Lifecycle!Next
    /\ CP!Lifecycle!lifecycleVars = Core!Lifecycle!lifecycleVars
    /\ Core!Lifecycle!lifecycleVars' = CP!Lifecycle!lifecycleVars'
<1>1. CP!ScanResults = Core!ScanResults
  BY DEF CP!ScanResults, Core!ScanResults
<1>2. \A r : CP!ScanSummaryStatus(r) = Core!ScanSummaryStatus(r)
  BY DEF CP!ScanSummaryStatus, Core!ScanSummaryStatus
<1>3. /\ \A s : CP!stageOf(s) = Core!stageOf(s) /\ CP!reportOf(s) = Core!reportOf(s)
      /\ (\A s : CP!stageOf(s) = Core!stageOf(s) /\ CP!reportOf(s) = Core!reportOf(s))'
  BY DEF CP!stageOf, Core!stageOf, CP!reportOf, Core!reportOf, CP!Stage, Core!Stage,
         CP!InStatus, Core!InStatus, CP!Known, Core!Known
<1>4. /\ CP!Lifecycle!lifecycleVars = Core!Lifecycle!lifecycleVars
      /\ CP!Lifecycle!lifecycleVars' = Core!Lifecycle!lifecycleVars'
  BY <1>3 DEF CP!Lifecycle!lifecycleVars, Core!Lifecycle!lifecycleVars
<1>5. \A S : CP!Lifecycle!Learn(S) <=> Core!Lifecycle!Learn(S)
  BY <1>3 DEF CP!Lifecycle!Learn, Core!Lifecycle!Learn
<1>6. \A s : /\ CP!Lifecycle!Begin(s) <=> Core!Lifecycle!Begin(s)
             /\ CP!Lifecycle!GiveUp(s) <=> Core!Lifecycle!GiveUp(s)
  BY <1>3 DEF CP!Lifecycle!Begin, Core!Lifecycle!Begin, CP!Lifecycle!GiveUp, Core!Lifecycle!GiveUp
<1>7. \A s, r : /\ CP!Lifecycle!Finish(s, r) <=> Core!Lifecycle!Finish(s, r)
                /\ CP!Lifecycle!Refresh(s, r) <=> Core!Lifecycle!Refresh(s, r)
  BY <1>3 DEF CP!Lifecycle!Finish, Core!Lifecycle!Finish, CP!Lifecycle!Refresh, Core!Lifecycle!Refresh
<1> QED
  BY <1>1, <1>2, <1>4, <1>5, <1>6, <1>7 DEF CP!Lifecycle!Next, Core!Lifecycle!Next

\* Whatever scanners, hubs and the goroutines of perceptor do to each other, an
\* image is learned of once, done once, and reported on exactly when it is done,
\* until perceptor restarts and forgets it.
THEOREM LifecycleUntilRestart ==
    Spec => /\ Core!Lifecycle!Init
            /\ [][Core!Lifecycle!Next \/ Restart]_(Core!Lifecycle!lifecycleVars)
<1>1. Init => Core!Lifecycle!Init
  BY DEF Init, Core!CoreInit, Core!Lifecycle!Init, Core!stageOf, Core!reportOf, Core!InStatus, Core!Known
<1>2. Parts /\ PTypes /\ [Next]_vars
        => [Core!Lifecycle!Next \/ Restart]_(Core!Lifecycle!lifecycleVars)
  BY CorePart, CoreAssumptions, CP!StepsLive, SameLifecycle DEF Parts
<1> QED
  BY <1>1, <1>2, PartsAtStart, PartsStep, PTL DEF Spec

\* A hub client forgets no scan, and takes none for unknown that a client or the
\* hub works on, until perceptor restarts.
THEOREM ScansKeptUntilRestart ==
    Spec => [][\/ \A h \in Hubs : \A n \in Hub!Names(h) :
                    /\ n \in Hub!Names(h)'
                    /\ scans[h][n].stage # "Unknown" => scans'[h][n].stage # "Unknown"
               \/ Restart]_vars
<1> DEFINE kept == \A h \in Hubs : \A n \in Hub!Names(h) :
                    /\ n \in Hub!Names(h)'
                    /\ scans[h][n].stage # "Unknown" => scans'[h][n].stage # "Unknown"
<1>1. HP!KeepsScans => kept
  BY DEF HP!KeepsScans, HP!KeepsKnown, HP!Names, Hub!Names
<1>2. Parts /\ PTypes /\ [Next]_vars => [kept \/ Restart]_vars
  BY <1>1, HubPart
<1> QED
  BY <1>2, PartsAtStart, PartsStep, PTL DEF Spec

-----------------------------------------------------------------------------
(***************************************************************************)
(* The limits.  An image that was assigned is started before the next one  *)
(* is looked at, so the room that was found for it is still there: of the  *)
(* other steps none gives a client to a scan.                              *)
(***************************************************************************)
Handing == next.at \in {"Reply", "StartCore", "StartHub"}

Within(h) == Cardinality(HP!Clients(h)) <= Limit[h]
Room(h) == Cardinality(HP!Clients(h)) < Limit[h]

LimitInv ==
    /\ \A h \in Hubs : Within(h)
    /\ Handing => Room(next.hub)

\* A subset of a finite set, or one with one more member, has at most as many
\* members, or one more.
LEMMA SubsetSizes ==
    ASSUME NEW C, IsFiniteSet(C), NEW D
    PROVE  /\ Cardinality(C) \in Nat
           /\ D \subseteq C => Cardinality(D) \in Nat /\ Cardinality(D) <= Cardinality(C)
           /\ \A x : D \subseteq C \cup {x} => /\ Cardinality(D) \in Nat
                                            /\ Cardinality(D) <= Cardinality(C) + 1
<1>1. Cardinality(C) \in Nat
  BY FS_CardinalityType
<1>2. ASSUME D \subseteq C
      PROVE  Cardinality(D) \in Nat /\ Cardinality(D) <= Cardinality(C)
  BY <1>2, FS_Subset, FS_CardinalityType
<1>3. ASSUME NEW x, D \subseteq C \cup {x}
      PROVE  Cardinality(D) \in Nat /\ Cardinality(D) <= Cardinality(C) + 1
  <2>1. PICK E : E = C \cup {x}
    BY Zenon
  <2>2. /\ IsFiniteSet(E)
        /\ Cardinality(E) = IF x \in C THEN Cardinality(C) ELSE Cardinality(C) + 1
    BY <2>1, FS_AddElement
  <2>3. Cardinality(D) \in Nat /\ Cardinality(D) <= Cardinality(E) /\ Cardinality(E) \in Nat
    BY <1>3, <2>1, <2>2, FS_Subset, FS_CardinalityType
  <2> QED
    BY <1>1, <2>2, <2>3
<1> QED
  BY <1>1, <1>2, <1>3

\* The scans of a hub that have a client are finitely many, and among those in
\* progress.
LEMMA ClientsFinite ==
    ASSUME IsFiniteSet(Shas), Parts, NEW h \in Hubs
    PROVE  /\ IsFiniteSet(HP!Clients(h))
           /\ HasRoom(h) => Room(h)
<1>1. HP!InProgressScans(h) \subseteq Shas /\ HP!Clients(h) \subseteq HP!InProgressScans(h)
  BY DEF Parts, HP!HInv, HP!ScansInv, HP!ScansTyped, HP!Clients, HP!InProgressScans, HP!InStage
<1>2. IsFiniteSet(HP!InProgressScans(h)) /\ IsFiniteSet(HP!Clients(h))
  BY <1>1, FS_Subset
<1>3. /\ Cardinality(HP!InProgressScans(h)) \in Nat
      /\ Cardinality(HP!Clients(h)) \in Nat
      /\ Cardinality(HP!Clients(h)) <= Cardinality(HP!InProgressScans(h))
  BY <1>1, <1>2, SubsetSizes
<1>4. HP!InProgressScans(h) = Hub!InProgressScans(h)
  BY DEF Hub!InProgressScans, HP!InProgressScans, Hub!InStage, HP!InStage, Hub!Names, HP!Names
<1> QED
  BY <1>2, <1>3, <1>4, LimitAssumption DEF HasRoom, Room

\* What a step that gives a hub no client, or one, does to its room.
LEMMA RoomStep ==
    ASSUME IsFiniteSet(Shas), Parts, NEW h \in Hubs
    PROVE  /\ HP!Clients(h)' \subseteq HP!Clients(h) =>
                (Within(h) => Within(h)') /\ (Room(h) => Room(h)')
           /\ \A n : HP!Clients(h)' \subseteq HP!Clients(h) \cup {n} => (Room(h) => Within(h)')
<1>1. PICK C : C = HP!Clients(h)
  OBVIOUS
<1>2. PICK D : D = HP!Clients(h)'
  OBVIOUS
<1>3. IsFiniteSet(C) /\ Limit[h] \in Nat
  BY <1>1, ClientsFinite, LimitAssumption
<1>4. /\ Within(h) <=> Cardinality(C) <= Limit[h]
      /\ Room(h) <=> Cardinality(C) < Limit[h]
      /\ Within(h)' <=> Cardinality(D) <= Limit[h]
      /\ Room(h)' <=> Cardinality(D) < Limit[h]
  BY <1>1, <1>2 DEF Within, Room
<1>5. ASSUME D \subseteq C
      PROVE  (Within(h) => Within(h)') /\ (Room(h) => Room(h)')
  BY <1>3, <1>4, <1>5, SubsetSizes
<1>6. ASSUME NEW n, D \subseteq C \cup {n}
      PROVE  Room(h) => Within(h)'
  <2>1. /\ Cardinality(C) \in Nat /\ Cardinality(D) \in Nat
        /\ Cardinality(D) <= Cardinality(C) + 1
    BY <1>3, <1>6, SubsetSizes
  <2> QED
    BY <1>3, <1>4, <2>1
<1> QED
  BY <1>1, <1>2, <1>5, <1>6

\* Where the hand-out stands after a step of another goroutine, or its own.
LEMMA HandingStep ==
    ASSUME PTypes, [Next]_vars
    PROVE  \/ ~Handing'
           \/ Handing /\ next'.hub = next.hub /\ next'.sha = next.sha
           \/ \E h \in Hubs : AssignImage(h) /\ HasRoom(h) /\ next'.hub = h
<1>1. ASSUME UNCHANGED next
      PROVE  Handing' => Handing /\ next'.hub = next.hub /\ next'.sha = next.sha
  BY <1>1 DEF Handing
<1>2. ASSUME next' = Idle
      PROVE  ~Handing'
  BY <1>2 DEF Handing, Idle
<1>3. ASSUME PeekNext
      PROVE  ~Handing'
  BY <1>3 DEF PeekNext, Handing
<1>4. ASSUME NEW h \in Hubs, AssignImage(h)
      PROVE  ~Handing' \/ (HasRoom(h) /\ next'.hub = h)
  BY <1>4 DEF AssignImage, Handing, PTypes, NextStates, Idle
<1>5. ASSUME Reply \/ StartCore
      PROVE  Handing /\ next'.hub = next.hub /\ next'.sha = next.sha
  BY <1>5 DEF Reply, StartCore, Handing, PTypes, NextStates, Idle
<1> QED
  BY <1>1, <1>2, <1>3, <1>4, <1>5, Zenon
     DEF Next, HandOut, CheckStep, FinishJob, vars, NoHubAvailable, StartHub, CheckUnknown,
         Collected, CollectFrom, ApplyTo, ClientUploads, ClientPosts, TellHub, TellCore,
         CreateHub, AddImage, HubStep, PassUpdateOn, Restart

\* Every step keeps the hubs within their limits.
LEMMA LimitStep ==
    ASSUME IsFiniteSet(Shas), Parts, PTypes, LimitInv, [Next]_vars
    PROVE  LimitInv'
<1>1. CASE HP!FewerClients
  <2>1. \A h \in Hubs : (Within(h) => Within(h)') /\ (Room(h) => Room(h)')
    BY <1>1, RoomStep DEF HP!FewerClients
  <2>2. \A h \in Hubs : Within(h)'
    BY <2>1 DEF LimitInv
  <2>3. ASSUME Handing'
        PROVE  \E h \in Hubs : h = next'.hub /\ Room(h)'
    <3>1. CASE Handing /\ next'.hub = next.hub
      <4>1. next.hub \in Hubs /\ Room(next.hub)
        BY <3>1 DEF Handing, LimitInv, PTypes, NextStates, Idle
      <4>2. PICK h \in Hubs : h = next.hub
        BY <4>1
      <4>3. Room(h)
        BY <4>1, <4>2
      <4> QED
        BY <2>1, <3>1, <4>2, <4>3
    <3>2. ASSUME NEW h \in Hubs, HasRoom(h), next'.hub = h
          PROVE  Room(h)'
      BY <2>1, <3>2, ClientsFinite
    <3> QED
      BY <2>3, <3>1, <3>2, HandingStep
  <2>4. Handing' => Room(next.hub)'
    BY <2>3, Zenon DEF Room, HP!Clients, HP!InStage, HP!Names
  <2> QED
    BY <2>2, <2>4 DEF LimitInv
<1>2. CASE StartHub
  <2>1. next.hub \in Hubs /\ next.sha \in Shas /\ Handing
    BY <1>2 DEF StartHub, Handing, PTypes, NextStates, Idle
  <2>2. PICK h \in Hubs, n \in Shas : h = next.hub /\ n = next.sha
    BY <2>1
  <2>3. HP!StartScanClient(h, n)
    BY <1>2, <2>2, HubRequests DEF StartHub
  <2>4. /\ HP!Clients(h)' \subseteq HP!Clients(h) \cup {n}
        /\ \A g \in Hubs \ {h} : HP!Clients(g)' \subseteq HP!Clients(g)
    BY <2>3, HubAssumptions, HP!StartStep DEF Parts, HP!HInv
  <2>5. Room(h) /\ \A g \in Hubs : Within(g)
    BY <2>1, <2>2 DEF LimitInv
  <2>6. \A g \in Hubs : Within(g)'
    BY <2>4, <2>5, RoomStep
  <2>7. ~Handing'
    BY <1>2 DEF StartHub, Handing, Idle
  <2> QED
    BY <2>6, <2>7 DEF LimitInv
<1> QED
  BY <1>1, <1>2, HubPart

\* They are at the start.
LEMMA LimitAtStart == Init => LimitInv
<1> SUFFICES ASSUME Init
             PROVE  LimitInv
  OBVIOUS
<1>1. \A h \in Hubs : HP!Clients(h) = {}
  BY DEF Init, Hub!HubInit, Hub!NewHub, HP!Clients, HP!InStage, HP!Names
<1>2. \A h \in Hubs : Within(h)
  BY <1>1, FS_EmptySet, LimitAssumption DEF Within
<1> QED
  BY <1>2 DEF LimitInv, Init, Handing, Idle

\* No hub has more scan clients than it takes at a time, whatever the scanners
\* and the hubs do, and however often perceptor restarts (AssignImage and
\* StartScanClient of the hub manager, getNextImage of perceptor).
THEOREM ClientsWithinLimitCorrect ==
    ASSUME IsFiniteSet(Shas)
    PROVE  Spec => []ClientsWithinLimit
<1>1. Init => LimitInv
  BY LimitAtStart
<1>2. Parts /\ PTypes /\ LimitInv /\ [Next]_vars => LimitInv'
  BY LimitStep
<1>3. LimitInv => ClientsWithinLimit
  BY DEF LimitInv, Within, ClientsWithinLimit, HP!Clients, HP!InStage, HP!Names, Hub!InStage,
         Hub!Names
<1> QED
  BY <1>1, <1>2, <1>3, PartsAtStart, PartsStep, PTL DEF Spec

-----------------------------------------------------------------------------
(***************************************************************************)
(* Slots.  With prompt steps, the client of an image that is being started *)
(* is there until the start is recorded, and it tells its hub and the core *)
(* later.  Only a hub that was created is asked to start clients, and such *)
(* a hub can be told that they finished.                                   *)
(***************************************************************************)
Starting == next.at \in {"StartCore", "StartHub"}
StartedJob == [sha |-> next.sha, hub |-> next.hub, failed |-> FALSE, at |-> "Started"]

HubsInv ==
    /\ \A h \in Hubs \ clients : HP!Clients(h) = {}
    /\ next.at = "Assign" => next.left \subseteq clients
    /\ Handing => next.hub \in clients

\* Somebody will tell the core, and the hub, of the client of an image.
HasJob(s) == \E j \in DOMAIN jobs : j.sha = s
HoldsSlot(h, n) == \E j \in DOMAIN jobs : j.sha = n /\ j.hub = h /\ j.at # "HubTold"

SlotInv ==
    /\ \A s \in CP!Running : HasJob(s)
    /\ \A h \in Hubs : \A n \in HP!Clients(h) : HoldsSlot(h, n)
    /\ Starting => StartedJob \in DOMAIN jobs

\* Every step keeps to the hubs that were created.
LEMMA HubsStep ==
    ASSUME Parts, PTypes, HubsInv, [Next]_vars
    PROVE  HubsInv'
<1>1. CASE Restart
  <2>1. \A h \in Hubs : HP!Clients(h)' = {}
    BY <1>1 DEF Restart, Hub!NewHub, HP!Clients, HP!InStage, HP!Names
  <2> QED
    BY <1>1, <2>1 DEF Restart, HubsInv, Handing, Idle
<1>2. CASE ~Restart
  <2>1. clients \subseteq clients'
    BY <1>2, Zenon DEF Next, HandOut, CheckStep, FinishJob, vars, PeekNext, NoHubAvailable, Reply,
           StartCore, StartHub, AssignImage, CheckUnknown, Collected, CollectFrom, ApplyTo,
           ClientUploads, ClientPosts, TellHub, TellCore, CreateHub, AddImage, HubStep,
           PassUpdateOn
  <2>2. \A h \in Hubs \ clients : HP!Clients(h)' = {}
    <3>1. CASE HP!FewerClients
      BY <3>1 DEF HubsInv, HP!FewerClients
    <3>2. CASE StartHub
      <4>1. next.hub \in clients /\ next.hub \in Hubs /\ next.sha \in Shas
        BY <3>2 DEF StartHub, HubsInv, Handing, PTypes, NextStates, Idle
      <4>2. HP!StartScanClient(next.hub, next.sha)
        BY <3>2, HubRequests DEF StartHub
      <4>3. \A g \in Hubs \ {next.hub} : HP!Clients(g)' \subseteq HP!Clients(g)
        BY <4>1, <4>2, HubAssumptions, HP!StartStep DEF Parts, HP!HInv
      <4> QED
        BY <4>1, <4>3 DEF HubsInv
    <3> QED
      BY <3>1, <3>2, HubPart
  <2>3. next'.at = "Assign" => next'.left \subseteq clients'
    <3>1. ASSUME PeekNext
          PROVE  next'.left \subseteq clients'
      BY <2>1, <3>1 DEF PeekNext
    <3>2. ASSUME NEW h \in Hubs, AssignImage(h)
          PROVE  next'.at = "Assign" => next'.left \subseteq clients'
      BY <2>1, <3>2 DEF AssignImage, HubsInv, PTypes, NextStates, Idle
    <3>3. ASSUME next' = Idle \/ Reply \/ StartCore
          PROVE  next'.at # "Assign"
      BY <3>3 DEF Reply, StartCore, Idle, PTypes, NextStates
    <3>4. ASSUME UNCHANGED next
          PROVE  next'.at = "Assign" => next'.left \subseteq clients'
      BY <2>1, <3>4 DEF HubsInv
    <3> QED
      BY <1>2, <3>1, <3>2, <3>3, <3>4, Zenon
         DEF Next, HandOut, CheckStep, FinishJob, vars, NoHubAvailable, StartHub, CheckUnknown,
             Collected, CollectFrom, ApplyTo, ClientUploads, ClientPosts, TellHub, TellCore,
             CreateHub, AddImage, HubStep, PassUpdateOn
  <2>4. Handing' => next'.hub \in clients'
    <3>1. ASSUME NEW h \in Hubs, AssignImage(h)
          PROVE  h \in clients'
      BY <2>1, <3>1 DEF AssignImage, HubsInv
    <3> QED
      BY <2>1, <3>1, HandingStep DEF HubsInv
  <2> QED
    BY <2>1, <2>2, <2>3, <2>4 DEF HubsInv, Handing
<1> QED
  BY <1>1, <1>2

\* A step of a job keeps the jobs of images and slots, but for its own.
LEMMA JobMoves ==
    ASSUME PTypes, NEW j \in Job, NEW to, to.sha = j.sha, to.hub = j.hub, Move(j, to)
    PROVE  /\ \A s : HasJob(s) => HasJob(s)'
           /\ \A h, n : /\ HoldsSlot(h, n)
                        /\ to.at # "HubTold" \/ h # j.hub \/ n # j.sha
                        => HoldsSlot(h, n)'
<1>1. (DOMAIN jobs \ {j}) \cup {to} \subseteq DOMAIN jobs'
  BY MovedJobs
<1>2. ASSUME NEW s, HasJob(s)
      PROVE  HasJob(s)'
  BY <1>1, <1>2 DEF HasJob
<1>3. ASSUME NEW h, NEW n, HoldsSlot(h, n), to.at # "HubTold" \/ h # j.hub \/ n # j.sha
      PROVE  HoldsSlot(h, n)'
  BY <1>1, <1>3 DEF HoldsSlot
<1> QED
  BY <1>2, <1>3

\* Every step keeps the jobs of the images and of the slots.
LEMMA SlotStep ==
    ASSUME Prompt, Parts, PTypes, HubsInv, SlotInv, [Next]_vars
    PROVE  SlotInv'
<1>1. CASE Restart
  <2>1. CP!Running' = {} /\ \A h \in Hubs : HP!Clients(h)' = {}
    BY <1>1 DEF Restart, CP!Running, CP!InStatus, CP!Known, Hub!NewHub, HP!Clients,
                HP!InStage, HP!Names
  <2> QED
    BY <1>1, <2>1 DEF Restart, SlotInv, Starting, Idle
<1>2. CASE StartHub
  <2>1. next.hub \in Hubs /\ next.sha \in Shas /\ Starting
    BY <1>2 DEF StartHub, Starting, PTypes, NextStates, Idle
  <2>2. PICK g \in Hubs, m \in Shas : g = next.hub /\ m = next.sha
    BY <2>1
  <2>3. HP!StartScanClient(g, m)
    BY <1>2, <2>2, HubRequests DEF StartHub
  <2>4. /\ HP!Clients(g)' \subseteq HP!Clients(g) \cup {m}
        /\ \A h \in Hubs \ {g} : HP!Clients(h)' \subseteq HP!Clients(h)
    BY <2>3, HubAssumptions, HP!StartStep DEF Parts, HP!HInv
  <2>5. UNCHANGED <<jobs, images>> /\ ~Starting'
    BY <1>2 DEF StartHub, coreVars, Starting, Idle
  <2>6. \A h \in Hubs : \A n \in HP!Clients(h)' : HoldsSlot(h, n)'
    <3>1. HoldsSlot(g, m)
      BY <2>1, <2>2 DEF SlotInv, StartedJob, HoldsSlot
    <3>2. \A h \in Hubs : \A n \in HP!Clients(h)' : HoldsSlot(h, n)
      BY <2>4, <3>1 DEF SlotInv
    <3> QED
      BY <2>5, <3>2 DEF HoldsSlot
  <2>7. \A s \in CP!Running' : HasJob(s)'
    BY <2>5 DEF SlotInv, HasJob, CP!Running, CP!InStatus, CP!Known
  <2> QED
    BY <2>5, <2>6, <2>7 DEF SlotInv, Starting
<1>3. CASE StartCore
  <2>1. CP!Running' \subseteq CP!Running \cup {next.sha}
    BY <1>3, StartCoreStep
  <2>2. HP!FewerClients
    BY <1>3, HubPart DEF StartCore, StartHub
  <2>3. /\ Starting /\ UNCHANGED jobs
        /\ next'.sha = next.sha /\ next'.hub = next.hub
    BY <1>3 DEF StartCore, Starting, PTypes, NextStates, Idle
  <2>4. HasJob(next.sha)
    BY <2>3 DEF SlotInv, StartedJob, HasJob
  <2>5. \A s \in CP!Running' : HasJob(s)'
    BY <2>1, <2>3, <2>4 DEF SlotInv, HasJob
  <2>6. \A h \in Hubs : \A n \in HP!Clients(h)' : HoldsSlot(h, n)'
    BY <2>2, <2>3 DEF SlotInv, HoldsSlot, HP!FewerClients
  <2>7. StartedJob' \in DOMAIN jobs'
    BY <2>3 DEF SlotInv, StartedJob
  <2> QED
    BY <2>5, <2>6, <2>7 DEF SlotInv
<1>4. CASE ~ (StartHub \/ StartCore \/ Restart)
  <2>1. CP!Running' \subseteq CP!Running /\ HP!FewerClients
    BY <1>4, CorePart, HubPart
  <2>2. CASE Reply
    <3>1. PICK x : x = StartedJob
      OBVIOUS
    <3>2. DOMAIN BagAdd(jobs, x) = DOMAIN jobs \cup {x}
      BY JobBags, Zenon
    <3>3. DOMAIN jobs' = DOMAIN jobs \cup {x}
      BY <2>2, <3>1, <3>2 DEF Reply, StartedJob
    <3>4. StartedJob' = x
      BY <2>2, <3>1 DEF Reply, StartedJob, PTypes, NextStates, Idle
    <3>5. \A s \in CP!Running' : HasJob(s)'
      BY <2>1, <3>3 DEF SlotInv, HasJob
    <3>6. \A h \in Hubs : \A n \in HP!Clients(h)' : HoldsSlot(h, n)'
      BY <2>1, <3>3 DEF SlotInv, HoldsSlot, HP!FewerClients
    <3> QED
      BY <3>3, <3>4, <3>5, <3>6 DEF SlotInv
  <2>3. ASSUME NEW j \in Job, FinishJob(j)
        PROVE  SlotInv'
    <3>0. UNCHANGED next
      BY <2>3 DEF FinishJob, ClientUploads, ClientPosts, TellHub, TellCore
    <3>1. ASSUME NEW to, to.sha = j.sha, to.hub = j.hub, to.at # "HubTold", Move(j, to),
                 HandedOut(j.sha)
          PROVE  SlotInv'
      <4>1. /\ \A s : HasJob(s) => HasJob(s)'
            /\ \A h, n : HoldsSlot(h, n) => HoldsSlot(h, n)'
        BY <3>1, JobMoves
      <4>2. Starting' => StartedJob' \in DOMAIN jobs'
        <5>1. DOMAIN jobs \ {j} \subseteq DOMAIN jobs'
          BY <3>1, MovedJobs
        <5>2. Starting' => Starting /\ StartedJob' = StartedJob /\ StartedJob # j
          BY <3>0, <3>1 DEF Starting, StartedJob, HandedOut
        <5> QED
          BY <5>1, <5>2 DEF SlotInv
      <4> QED
        BY <2>1, <4>1, <4>2 DEF SlotInv, HP!FewerClients
    <3>2. CASE ClientUploads(j)
      <4>1. PICK to : to = [j EXCEPT !.at = "Uploaded"]
        BY Zenon
      <4>2. to.sha = j.sha /\ to.hub = j.hub /\ to.at # "HubTold"
        BY <4>1 DEF Job
      <4>3. Move(j, to) /\ HandedOut(j.sha)
        BY <3>2, <4>1 DEF ClientUploads
      <4> QED
        BY <3>1, <4>2, <4>3
    <3>3. CASE ClientPosts(j)
      <4>1. PICK to : to = [j EXCEPT !.at = "Posted", !.failed = (j.at = "Started")]
        OBVIOUS
      <4>2. to.sha = j.sha /\ to.hub = j.hub /\ to.at # "HubTold"
        BY <4>1 DEF Job
      <4>3. Move(j, to) /\ HandedOut(j.sha)
        BY <3>3, <4>1 DEF ClientPosts
      <4> QED
        BY <3>1, <4>2, <4>3
    <3>4. CASE TellHub(j)
      <4>1. PICK to : to = [j EXCEPT !.at = "HubTold"]
        BY Zenon
      <4>2. to.sha = j.sha /\ to.hub = j.hub
        BY <4>1 DEF Job
      <4>3. Move(j, to)
        BY <3>4, <4>1 DEF TellHub
      <4>4. /\ \A s : HasJob(s) => HasJob(s)'
            /\ \A h, n : HoldsSlot(h, n) /\ (h # j.hub \/ n # j.sha) => HoldsSlot(h, n)'
        BY <4>2, <4>3, JobMoves
      <4>5. j.sha \notin HP!Clients(j.hub)'
        <5>0. j.hub \in Hubs /\ j.sha \in Shas /\ j.failed \in BOOLEAN
          BY DEF Job
        <5>1. CASE j.hub \notin clients
          BY <2>1, <5>0, <5>1 DEF HubsInv, HP!FewerClients
        <5>2. CASE j.hub \in clients
          <6>1. HP!FinishScanClient(j.hub, j.sha, j.failed)
            BY <3>4, <5>2, HubRequests DEF TellHub
          <6> QED
            BY <5>0, <6>1, HubAssumptions, HP!FinishStep DEF Parts, HP!HInv
        <5> QED
          BY <5>1, <5>2
      <4>6. \A h \in Hubs : \A n \in HP!Clients(h)' : HoldsSlot(h, n)'
        BY <2>1, <4>4, <4>5 DEF SlotInv, HP!FewerClients
      <4>7. Starting' => StartedJob' \in DOMAIN jobs'
        <5>1. DOMAIN jobs \ {j} \subseteq DOMAIN jobs'
          BY <4>3, MovedJobs
        <5>2. Starting' => Starting /\ StartedJob' = StartedJob /\ StartedJob # j
          BY <3>0, <3>4 DEF Starting, StartedJob, TellHub
        <5> QED
          BY <5>1, <5>2 DEF SlotInv
      <4> QED
        BY <2>1, <4>4, <4>6, <4>7 DEF SlotInv
    <3>5. CASE TellCore(j)
      <4>1. DOMAIN jobs \ {j} \subseteq DOMAIN jobs' /\ j.at = "HubTold"
        BY <3>5, JobBags, Zenon DEF TellCore
      <4>2. CP!Running' \subseteq CP!Running \ {j.sha}
        BY <3>5, TellCoreStep
      <4>3. \A s \in CP!Running' : HasJob(s)'
        BY <4>1, <4>2 DEF SlotInv, HasJob
      <4>4. \A h \in Hubs : \A n \in HP!Clients(h)' : HoldsSlot(h, n)'
        BY <2>1, <4>1 DEF SlotInv, HoldsSlot, HP!FewerClients
      <4>5. Starting' => Starting /\ StartedJob' = StartedJob /\ StartedJob # j
        BY <3>0, <4>1 DEF Starting, StartedJob
      <4> QED
        BY <4>1, <4>3, <4>4, <4>5 DEF SlotInv
    <3> QED
      BY <2>3, <3>2, <3>3, <3>4, <3>5 DEF FinishJob
  <2>4. ASSUME UNCHANGED jobs, ~Starting' \/ UNCHANGED next
        PROVE  SlotInv'
    <3>1. /\ \A s \in CP!Running' : HasJob(s)'
          /\ \A h \in Hubs : \A n \in HP!Clients(h)' : HoldsSlot(h, n)'
      BY <2>1, <2>4 DEF SlotInv, HasJob, HoldsSlot, HP!FewerClients
    <3>2. Starting' => StartedJob' \in DOMAIN jobs'
      BY <2>4, Zenon DEF SlotInv, Starting, StartedJob
    <3> QED
      BY <3>1, <3>2 DEF SlotInv
  <2>5. ASSUME NEW h \in Hubs, AssignImage(h)
        PROVE  UNCHANGED jobs /\ ~Starting'
    BY <2>5 DEF AssignImage, Starting, PTypes, NextStates, Idle
  <2>6. ASSUME PeekNext \/ NoHubAvailable
        PROVE  UNCHANGED jobs /\ ~Starting'
    BY <2>6 DEF PeekNext, NoHubAvailable, Starting, Idle
  <2> QED
    BY <1>4, <2>2, <2>3, <2>4, <2>5, <2>6, Zenon
       DEF Next, HandOut, CheckStep, vars, CheckUnknown, Collected, CollectFrom, ApplyTo,
           CreateHub, AddImage, HubStep, PassUpdateOn
<1> QED
  BY <1>1, <1>2, <1>3, <1>4

\* With prompt steps, the invariants of the slots hold in every state.
LEMMA SlotInvariance ==
    ASSUME Prompt
    PROVE  Spec => [](Parts /\ PTypes /\ HubsInv /\ SlotInv)
<1>1. Init => HubsInv /\ SlotInv
  <2> SUFFICES ASSUME Init
               PROVE  HubsInv /\ SlotInv
    OBVIOUS
  <2>1. \A h \in Hubs : HP!Clients(h) = {}
    BY DEF Init, Hub!HubInit, Hub!NewHub, HP!Clients, HP!InStage, HP!Names
  <2>2. CP!Running = {}
    BY DEF Init, Core!CoreInit, CP!Running, CP!InStatus, CP!Known
  <2> QED
    BY <2>1, <2>2 DEF HubsInv, SlotInv, Init, Handing, Starting, Idle
<1>2. /\ Parts /\ PTypes /\ HubsInv /\ SlotInv /\ [Next]_vars
      => (HubsInv /\ SlotInv)'
  <2>1. ASSUME Parts, PTypes, HubsInv, SlotInv, [Next]_vars
        PROVE  HubsInv' /\ SlotInv'
    BY <2>1, HubsStep, SlotStep
  <2> QED
    BY <2>1
<1> QED
  BY <1>1, <1>2, PartsAtStart, PartsStep, PTL DEF Spec

\* With prompt steps, no slot of a hub is taken by a client that nobody will
\* report finished (startScanClient, PostFinishScan and FinishScanClient).
THEOREM NoSlotLeakedCorrect ==
    ASSUME Prompt
    PROVE  Spec => []NoSlotLeaked
<1>1. SlotInv => NoSlotLeaked
  BY DEF SlotInv, NoSlotLeaked, HoldsSlot, HP!Clients, HP!InStage, HP!Names, Hub!InStage,
         Hub!Names
<1> QED
  BY <1>1, SlotInvariance, PTL

\* With prompt steps, no image waits for a client that is not there (StartScanClient
\* and FinishScan of the core model, PostFinishScan of perceptor).
THEOREM NoImageStrandedCorrect ==
    ASSUME Prompt
    PROVE  Spec => []NoImageStranded
<1>1. SlotInv => NoImageStranded
  BY DEF SlotInv, NoImageStranded, HasJob, CP!Running, CP!InStatus, CP!Known, Core!InStatus,
         Core!Known
<1> QED
  BY <1>1, SlotInvariance, PTL

-----------------------------------------------------------------------------
(***************************************************************************)
(* What becomes of one image, while perceptor is not restarted: who works  *)
(* on it, for any hubs, images and limits, any number of scan clients and  *)
(* updates, and whatever clients and hubs fail.                            *)
(*                                                                         *)
(* Jobs, updates, the stages of its scan in the hubs and the goroutine     *)
(* that hands images out are looked at together, one image at a time.      *)
(***************************************************************************)

(* What is going on about an image s.                                      *)

\* The elements of a bag that are in S, each with its number.
Part(B, S) == {<<e, B[e]>> : e \in DOMAIN B \cap S}

JobsOf(s) == {j \in Job : j.sha = s}
UpdatesOf(s) == {u \in HP!Answer : u.name = s}

Stat(s) == IF s \in DOMAIN images THEN images[s].status ELSE "None"
Jobs(s) == Part(jobs, JobsOf(s))
Updates(s) == Part(updates, UpdatesOf(s))
StageAt(h, s) == IF s \in HP!Names(h) THEN scans[h][s].stage ELSE "None"
Stages(s) == [h \in Hubs |-> StageAt(h, s)]
Hand(s) == IF next.at # "Idle" /\ next.sha = s THEN next ELSE Idle

\* The stages of a scan that nobody works on.
Settled == {"None", "Complete", "Failure"}

SettledBut(sg, h) == \A g \in Hubs : g # h => sg[g] \in Settled

\* At most one hub works on the scan, or it did, and an update tells of it.
PendingAt(h, us, sg) ==
    /\ SettledBut(sg, h)
    /\ \/ us = {} /\ sg[h] \in Settled \cup {"HubScan"}
       \/ (\E u \in HP!Answer : us = {<<u, 1>>}) /\ sg[h] \in Settled

Started(s, h) == [sha |-> s, hub |-> h, failed |-> FALSE, at |-> "Started"]

\* A client whose start is not recorded, that runs, or that its hub knows finished.
ClientRuns(s, j, us, sg, nx) ==
    IF nx.at = "StartHub"
    THEN j = Started(s, nx.hub) /\ us = {} /\ sg[j.hub] \in Settled
    ELSE IF j.at # "HubTold" THEN us = {} /\ sg[j.hub] = "ScanClient"
         ELSE IF j.failed THEN us = {} /\ sg[j.hub] \in Settled
              ELSE PendingAt(j.hub, us, sg)

(***************************************************************************)
(* The life of an image of which there was no scan before: which jobs js,  *)
(* updates us, stages sg and hand-out nx go with its status st.            *)
(***************************************************************************)
LifeOf(s, st, js, us, sg, nx) ==
    /\ nx.at \in {"Assign", "Reply", "StartCore"} => st = "InQueue"
    /\ nx.at = "StartHub" => st = "RunningScanClient"
    /\ st \in {"None", "Unknown"} => js = {} /\ us = {} /\ \A h \in Hubs : sg[h] = "None"
    /\ st = "InQueue" =>
         /\ js = IF nx.at = "StartCore" THEN {<<Started(s, nx.hub), 1>>} ELSE {}
         /\ us = {} /\ \A h \in Hubs : sg[h] \in Settled
    /\ st = "RunningScanClient" =>
         \E j \in JobsOf(s) : /\ js = {<<j, 1>>}
                              /\ SettledBut(sg, j.hub) /\ ClientRuns(s, j, us, sg, nx)
    /\ st = "RunningHubScan" => js = {} /\ \E h \in Hubs : PendingAt(h, us, sg)
    /\ st = "Complete" => js = {} /\ us = {} /\ \A h \in Hubs : sg[h] \in Settled

Life(s) == LifeOf(s, Stat(s), Jobs(s), Updates(s), Stages(s), Hand(s))

\* A hub that has the scan knows of it, and has no need to find out about it.
KnownAt(h, s) ==
    /\ StageAt(h, s) # "Unknown"
    /\ s \notin todo[h]["unknown"]
    /\ answer[h]["unknown"] \in HP!Answer => answer[h]["unknown"].name # s
    /\ s \in HP!Located(h) \cup todo[h]["allScans"] => StageAt(h, s) # "None"

Checked(s) == check.at # "Idle" /\ s \in check.shas

NotFound(s) == Checked(s) => Stat(s) = "Unknown" /\ s \notin DOMAIN check.found

Fresh(s) == Life(s) /\ NotFound(s) /\ \A h \in Hubs : KnownAt(h, s)

-----------------------------------------------------------------------------
(* An image of which there was a scan before, that did not fail.           *)

NoFailure(r) == r # NoResults => "Failure" \notin r.summaries

OldScan(scan) ==
    /\ scan.stage \in {"Unknown", "HubScan", "Complete"}
    /\ NoFailure(scan.results)

OldAt(h, s) ==
    /\ s \in HP!Names(h) => OldScan(scans[h][s])
    /\ "Failure" \notin HP!Summaries(h, s)
    /\ \A t \in HP!Ticking : answer[h][t] \in HP!Answer /\ answer[h][t].name = s
                               => NoFailure(answer[h][t].results)

\* The hub has the scan, lists it, and tells of it when it is asked.
ListedAt(h, s) ==
    /\ s \in HP!Located(h)
    /\ timer[h]["allScans"] = "Reporting" => s \in todo[h]["allScans"]
    /\ hasFetched[h] => s \in HP!Names(h)

ToldBy(h, s) ==
    Checked(s) => s \in DOMAIN check.found \/ (check.at = "Collect" /\ h \in check.left)

\* Nothing has to be done for it.
Rests(s) ==
    /\ Stat(s) \in {"None", "Unknown", "RunningHubScan", "Complete"}
    /\ Stat(s) # "None" => clients = Hubs
    /\ Jobs(s) = {} /\ Hand(s) = Idle
    /\ \A u \in DOMAIN updates : u.name = s => NoFailure(u.results)

FoundScan(s) ==
    check.at # "Idle" /\ s \in DOMAIN check.found =>
        /\ OldScan(check.found[s])
        /\ check.found[s].stage = "Complete" => check.found[s].results # NoResults

Old(s) ==
    /\ Rests(s) /\ FoundScan(s)
    /\ \A h \in Hubs : OldAt(h, s)
    /\ \E h \in Hubs : ListedAt(h, s) /\ ToldBy(h, s)

\* The hubs are set up before there are images, and no scan fails.
Settling == HubsFirst /\ Verdicts \subseteq {"Success"}

\* Only then does a Black Duck have scans at the start, none of which failed.
OldScansSucceed ==
    \A r \in RemoteInits : \A h \in Hubs : \A n \in DOMAIN r[h] :
        Settling /\ "Failure" \notin r[h][n]

(***************************************************************************)
(* The inductive invariant.                                                *)
(***************************************************************************)
DispatchInv ==
    /\ restarts = 0
    /\ \A s \in Shas : Fresh(s) \/ (Settling /\ Old(s))

\* What is known of every state by now.
Sound == Parts /\ PTypes /\ HubsInv

-----------------------------------------------------------------------------
(* Bags, part by part.                                                     *)

\* Adding to a bag, or removing from it, is seen in no part but its own.
LEMMA BagParts ==
    ASSUME NEW B, NEW x, NEW S
    PROVE  /\ x \notin S => /\ Part(BagAdd(B, x), S) = Part(B, S)
                            /\ Part(BagRemove(B, x), S) = Part(B, S)
           /\ x \in S /\ Part(B, S) = {} => Part(BagAdd(B, x), S) = {<<x, 1>>}
           /\ x \in S /\ Part(B, S) = {<<x, 1>>} => Part(BagRemove(B, x), S) = {}
<1>1. \A e \in DOMAIN B \cap S : <<e, B[e]>> \in Part(B, S)
  BY DEF Part
<1>2. ASSUME x \notin S
      PROVE  /\ Part(BagAdd(B, x), S) = Part(B, S)
             /\ Part(BagRemove(B, x), S) = Part(B, S)
  <2>1. PICK C, D : C = BagAdd(B, x) /\ D = BagRemove(B, x)
    OBVIOUS
  <2>2. DOMAIN C \cap S = DOMAIN B \cap S /\ \A e \in DOMAIN B \cap S : C[e] = B[e]
    BY <1>2, <2>1 DEF BagAdd
  <2>3. DOMAIN D \cap S = DOMAIN B \cap S /\ \A e \in DOMAIN B \cap S : D[e] = B[e]
    BY <1>2, <2>1 DEF BagRemove
  <2> QED
    BY <2>1, <2>2, <2>3 DEF Part
<1>3. ASSUME x \in S, Part(B, S) = {}
      PROVE  Part(BagAdd(B, x), S) = {<<x, 1>>}
  <2>1. DOMAIN B \cap S = {}
    BY <1>1, <1>3
  <2>2. PICK C : C = BagAdd(B, x)
    OBVIOUS
  <2>3. DOMAIN C = DOMAIN B \cup {x} /\ C[x] = 1
    BY <1>3, <2>1, <2>2 DEF BagAdd
  <2>4. DOMAIN C \cap S = {x}
    BY <1>3, <2>1, <2>3
  <2> QED
    BY <2>2, <2>3, <2>4 DEF Part
<1>4. ASSUME x \in S, Part(B, S) = {<<x, 1>>}
      PROVE  Part(BagRemove(B, x), S) = {}
  <2>1. \A e \in DOMAIN B \cap S : e = x /\ B[e] = 1
    BY <1>1, <1>4
  <2>2. x \in DOMAIN B
    <3>1. <<x, 1>> \in {<<e, B[e]>> : e \in DOMAIN B \cap S}
      BY <1>4, Zenon DEF Part
    <3>2. PICK e \in DOMAIN B \cap S : <<x, 1>> = <<e, B[e]>>
      BY <3>1
    <3> QED
      BY <3>2
  <2>3. DOMAIN BagRemove(B, x) = DOMAIN B \ {x}
    BY <1>4, <2>1, <2>2 DEF BagRemove
  <2>4. DOMAIN BagRemove(B, x) \cap S = {}
    BY <2>1, <2>3
  <2> QED
    BY <2>4 DEF Part
<1> QED
  BY <1>2, <1>3, <1>4

\* A job that is there is among the jobs of its image; of one there is one.
LEMMA JobThere ==
    ASSUME PTypes, NEW j \in DOMAIN jobs
    PROVE  j \in JobsOf(j.sha) /\ <<j, jobs[j]>> \in Jobs(j.sha)
BY DEF PTypes, JobsOf, Jobs, Part

\* A job that moves on changes nothing for other images.
LEMMA JobsMoved ==
    ASSUME NEW j \in Job, NEW to \in Job, to.sha = j.sha, Move(j, to)
    PROVE  /\ \A s : s # j.sha => Jobs(s)' = Jobs(s)
           /\ Jobs(j.sha) = {<<j, 1>>} => Jobs(j.sha)' = {<<to, 1>>}
<1>1. PICK rest : rest = BagRemove(jobs, j)
  OBVIOUS
<1>2. jobs' = BagAdd(rest, to)
  BY <1>1 DEF Move
<1>3. \A s : j \in JobsOf(s) <=> s = j.sha
  BY DEF JobsOf
<1>4. \A s : to \in JobsOf(s) <=> s = j.sha
  BY DEF JobsOf
<1>5. \A s : Jobs(s) = Part(jobs, JobsOf(s)) /\ Jobs(s)' = Part(jobs', JobsOf(s))
  BY DEF Jobs, JobsOf
<1>6. ASSUME NEW s, s # j.sha
      PROVE  Jobs(s)' = Jobs(s)
  <2>1. Part(BagRemove(jobs, j), JobsOf(s)) = Part(jobs, JobsOf(s))
    BY <1>3, <1>6, BagParts
  <2>2. Part(BagAdd(rest, to), JobsOf(s)) = Part(rest, JobsOf(s))
    BY <1>4, <1>6, BagParts
  <2> QED
    BY <1>1, <1>2, <1>5, <2>1, <2>2
<1>7. ASSUME Jobs(j.sha) = {<<j, 1>>}
      PROVE  Jobs(j.sha)' = {<<to, 1>>}
  <2>1. Part(BagRemove(jobs, j), JobsOf(j.sha)) = {}
    BY <1>3, <1>5, <1>7, BagParts
  <2>2. Part(BagAdd(rest, to), JobsOf(j.sha)) = {<<to, 1>>}
    BY <1>1, <1>4, <2>1, BagParts
  <2> QED
    BY <1>2, <1>5, <2>2
<1> QED
  BY <1>6, <1>7

\* An update that is published, or read, changes nothing for other images.
LEMMA UpdatesMoved ==
    ASSUME NEW u \in HP!Answer
    PROVE  /\ updates' = BagAdd(updates, u) =>
                /\ \A s : s # u.name => Updates(s)' = Updates(s)
                /\ Updates(u.name) = {} => Updates(u.name)' = {<<u, 1>>}
           /\ updates' = BagRemove(updates, u) =>
                /\ \A s : s # u.name => Updates(s)' = Updates(s)
                /\ Updates(u.name) = {<<u, 1>>} => Updates(u.name)' = {}
<1>1. \A s : u \in UpdatesOf(s) <=> s = u.name
  BY DEF UpdatesOf
<1>2. \A s : Updates(s) = Part(updates, UpdatesOf(s)) /\ Updates(s)' = Part(updates', UpdatesOf(s))
  BY DEF Updates, UpdatesOf, HP!Answer, HP!ScanResults
<1>3. ASSUME NEW s, s # u.name
      PROVE  /\ Part(BagAdd(updates, u), UpdatesOf(s)) = Part(updates, UpdatesOf(s))
             /\ Part(BagRemove(updates, u), UpdatesOf(s)) = Part(updates, UpdatesOf(s))
  BY <1>1, <1>3, BagParts
<1>4. ASSUME Updates(u.name) = {}
      PROVE  Part(BagAdd(updates, u), UpdatesOf(u.name)) = {<<u, 1>>}
  BY <1>1, <1>2, <1>4, BagParts
<1>5. ASSUME Updates(u.name) = {<<u, 1>>}
      PROVE  Part(BagRemove(updates, u), UpdatesOf(u.name)) = {}
  BY <1>1, <1>2, <1>5, BagParts
<1>6. ASSUME updates' = BagAdd(updates, u)
      PROVE  /\ \A s : s # u.name => Updates(s)' = Updates(s)
             /\ Updates(u.name) = {} => Updates(u.name)' = {<<u, 1>>}
  BY <1>2, <1>3, <1>4, <1>6
<1>7. ASSUME updates' = BagRemove(updates, u)
      PROVE  /\ \A s : s # u.name => Updates(s)' = Updates(s)
             /\ Updates(u.name) = {<<u, 1>>} => Updates(u.name)' = {}
  BY <1>2, <1>3, <1>5, <1>7
<1> QED
  BY <1>6, <1>7

\* So it is with an update that a hub publishes, and with one that is read.
LEMMA PublishedOrRead ==
    ASSUME NEW u
    PROVE  /\ HP!publish(u) => updates' = BagAdd(updates, u)
           /\ HP!Deliver(u) => updates' = BagRemove(updates, u)
<1>1. HP!BagAdd(updates, u) = BagAdd(updates, u)
  BY DEF HP!BagAdd, BagAdd
<1>2. HP!BagRemove(updates, u) = BagRemove(updates, u)
  BY DEF HP!BagRemove, BagRemove
<1> QED
  BY <1>1, <1>2 DEF HP!publish, HP!Deliver

\* What stays as it is, for one image.
LEMMA SameViews ==
    ASSUME NEW s
    PROVE  /\ UNCHANGED images => Stat(s)' = Stat(s)
           /\ UNCHANGED jobs => Jobs(s)' = Jobs(s)
           /\ UNCHANGED updates => Updates(s)' = Updates(s)
           /\ UNCHANGED scans => Stages(s)' = Stages(s) /\ \A h : StageAt(h, s)' = StageAt(h, s)
           /\ UNCHANGED next => Hand(s)' = Hand(s)
<1>1. UNCHANGED jobs => Jobs(s)' = Jobs(s)
  BY DEF Jobs, JobsOf, Part
<1>2. UNCHANGED updates => Updates(s)' = Updates(s)
  BY DEF Updates, UpdatesOf, Part, HP!Answer, HP!ScanResults
<1>3. UNCHANGED scans => Stages(s)' = Stages(s) /\ \A h : StageAt(h, s)' = StageAt(h, s)
  BY DEF Stages, StageAt, HP!Names
<1> QED
  BY <1>1, <1>2, <1>3 DEF Stat, Hand

-----------------------------------------------------------------------------
(* The status of an image.                                                 *)

\* It is one of five, if perceptor knows of the image.
LEMMA StatType ==
    ASSUME Sound, NEW s
    PROVE  /\ Stat(s) \in CP!ScanStatuses \cup {"None"}
           /\ s \in CP!Known <=> Stat(s) # "None"
           /\ s \in CP!Known => s \in Shas /\ images[s].status = Stat(s)
BY DEF Stat, Sound, Parts, CP!ImagesInv, CP!ImagesTypeOK, CP!ImageInfo, CP!Known, CP!ScanStatuses

\* A handler that is about one image changes the status of no other.
LEMMA OtherStat ==
    ASSUME NEW x, CP!ImageStep(x)
    PROVE  \A s : s # x => Stat(s)' = Stat(s)
BY DEF CP!ImageStep, CP!Known, Stat

\* StartScanClient of the core model.
LEMMA StartCoreStat ==
    ASSUME Sound, NEW x \in Shas, x = next.sha, StartCore
    PROVE  /\ \A s : s # x => Stat(s)' = Stat(s)
           /\ Stat(x) = "InQueue" => Stat(x)' = "RunningScanClient"
<1>1. CP!startScanClient(x)
  BY CoreHandlers DEF StartCore
<1>2. /\ CP!ImageStep(x)
      /\ x \in CP!Known => images'[x].status = IF images[x].status = "InQueue"
                                              THEN "RunningScanClient" ELSE images[x].status
  BY <1>1, CoreAssumptions, CP!StartScanClientStep DEF Sound, Parts
<1>3. Stat(x) = "InQueue" => Stat(x)' = "RunningScanClient"
  BY <1>2 DEF Stat, CP!ImageStep, CP!Known
<1>4. \A s : s # x => Stat(s)' = Stat(s)
  BY <1>2, OtherStat
<1> QED
  BY <1>3, <1>4

\* FinishScanClient of the core model.
LEMMA TellCoreStat ==
    ASSUME Sound, NEW j \in Job, TellCore(j)
    PROVE  /\ \A s : s # j.sha => Stat(s)' = Stat(s)
           /\ Stat(j.sha) = "RunningScanClient" =>
                Stat(j.sha)' = IF j.failed THEN "InQueue" ELSE "RunningHubScan"
<1>1. j.sha \in Shas /\ j.failed \in BOOLEAN
  BY DEF Job
<1>2. CP!finishRunningScanClient(j.sha, j.failed)
  BY CoreHandlers DEF TellCore
<1>3. /\ CP!ImageStep(j.sha)
      /\ j.sha \in CP!Known => images'[j.sha].status =
              CP!Changed(images[j.sha].status, IF j.failed THEN "InQueue" ELSE "RunningHubScan")
  BY <1>1, <1>2, CoreAssumptions, CP!FinishRunningScanClientStep DEF Sound, Parts
<1>4. \A to \in {"InQueue", "RunningHubScan"} : CP!Changed("RunningScanClient", to) = to
  BY DEF CP!Changed, CP!IsLegalTransition, CP!legalTransitions
<1>5. Stat(j.sha) = "RunningScanClient" =>
        Stat(j.sha)' = IF j.failed THEN "InQueue" ELSE "RunningHubScan"
  BY <1>3, <1>4 DEF Stat, CP!ImageStep, CP!Known
<1> QED
  BY <1>3, <1>5, OtherStat

\* ScanDidFinish of the core model.
LEMMA DidFinishStat ==
    ASSUME Sound, NEW x \in Shas, NEW r \in CP!ScanResults \cup {NoResults},
           Core!scanDidFinish(x, r)
    PROVE  /\ \A s : s # x => Stat(s)' = Stat(s)
           /\ Stat(x)' = CP!StatusAfter(CP!Outcome(r), Stat(x))
<1>1. CP!scanDidFinish(x, r)
  BY CoreHandlers
<1>2. /\ CP!ImageStep(x)
      /\ x \in CP!Known => images'[x].status = CP!StatusAfter(CP!Outcome(r), images[x].status)
  BY <1>1, CoreAssumptions, CP!ScanDidFinishStep DEF Sound, Parts
<1>3. CP!StatusAfter(CP!Outcome(r), "None") = "None"
  BY DEF CP!StatusAfter
<1>4. Stat(x)' = CP!StatusAfter(CP!Outcome(r), Stat(x))
  BY <1>2, <1>3 DEF Stat, CP!ImageStep, CP!Known
<1> QED
  BY <1>2, <1>4, OtherStat

\* AddImage of the core model.
LEMMA AddImageStat ==
    ASSUME Sound, NEW image \in Posted, AddImage(image), NEW s
    PROVE  Stat(s)' = IF s = image.sha /\ Stat(s) = "None" THEN "Unknown" ELSE Stat(s)
<1>1. CP!createImages({image})
  BY CoreHandlers DEF AddImage
<1>2. {image} \in SUBSET CP!Image
  BY PostedAssumption DEF Core!Image, CP!Image
<1>3. /\ CP!Known' = CP!Known \cup CP!ShasOf({image})
      /\ \A x \in CP!Known : images'[x].status = images[x].status
      /\ \A x \in CP!Known' \ CP!Known : images'[x].status = "Unknown"
  BY <1>1, <1>2, CoreAssumptions, CP!CreateImagesStep DEF Sound, Parts
<1>4. CP!ShasOf({image}) = {image.sha}
  BY DEF CP!ShasOf
<1> QED
  BY <1>3, <1>4, StatType DEF Stat, CP!Known

-----------------------------------------------------------------------------
(* The stages of a scan, and what a hub has still to find out.             *)

\* A scan that is set changes the stage of no other.
LEMMA StageAfterSet ==
    ASSUME Sound, NEW h \in Hubs, NEW n, NEW scan, HP!SetScan(h, n, scan)
    PROVE  /\ \A g \in Hubs : HP!Names(g)' = IF g = h THEN HP!Names(g) \cup {n} ELSE HP!Names(g)
           /\ \A g \in Hubs : \A m \in HP!Names(g)' :
                 scans'[g][m] = IF g = h /\ m = n THEN scan ELSE scans[g][m]
           /\ \A g \in Hubs : \A s : StageAt(g, s)' = IF g = h /\ s = n THEN scan.stage ELSE StageAt(g, s)
           /\ \A s : s # n => Stages(s)' = Stages(s)
           /\ Stages(n)' = [Stages(n) EXCEPT ![h] = scan.stage]
<1>1. /\ DOMAIN scans = Hubs
      /\ \A g \in Hubs \ {h} : scans'[g] = scans[g]
      /\ scans'[h] = [m \in HP!Names(h) \cup {n} |-> IF m = n THEN scan ELSE scans[h][m]]
  BY DEF HP!SetScan, Sound, Parts, HP!HInv, HP!ScansInv, HP!ScansTyped
<1>2. \A g \in Hubs : HP!Names(g)' = IF g = h THEN HP!Names(g) \cup {n} ELSE HP!Names(g)
  BY <1>1 DEF HP!Names
<1>3. \A g \in Hubs : \A m \in HP!Names(g)' :
         scans'[g][m] = IF g = h /\ m = n THEN scan ELSE scans[g][m]
  BY <1>1, <1>2
<1>4. \A g \in Hubs : \A s : StageAt(g, s)' = IF g = h /\ s = n THEN scan.stage ELSE StageAt(g, s)
  BY <1>2, <1>3 DEF StageAt
<1>5. \A s : s # n => Stages(s)' = Stages(s)
  BY <1>4 DEF Stages
<1>6. Stages(n)' = [Stages(n) EXCEPT ![h] = scan.stage]
  BY <1>4, Zenon DEF Stages
<1> QED
  BY <1>2, <1>3, <1>4, <1>5, <1>6

\* What a step of a hub does to a scan and its updates: nothing, or polling it
\* ends it, which is published.
Polled(s) ==
    \/ Stages(s)' = Stages(s) /\ Updates(s)' = Updates(s)
    \/ \E h \in Hubs, u \in HP!Answer :
          /\ Stages(s)[h] = "HubScan" /\ Stages(s)' = [Stages(s) EXCEPT ![h] = "Complete"]
          /\ Updates(s) = {} => Updates(s)' = {<<u, 1>>}

\* A hub that is at work finds out nothing about a scan that it knows of but by
\* polling.
LEMMA HubWorks ==
    ASSUME Sound, NEW x \in Hubs, HP!HubInternal(x), NEW s \in Shas,
           \A h \in Hubs : KnownAt(h, s)
    PROVE  Polled(s) /\ \A h \in Hubs : KnownAt(h, s)'
<1> USE DEF HP!Timers, HP!Ticking
<1>0. /\ todo \in [Hubs -> [HP!Timers -> SUBSET Shas]]
      /\ answer \in [Hubs -> [HP!Timers -> HP!Answer \cup {NoAnswer}]]
      /\ NoAnswer \notin HP!Answer
      /\ DOMAIN remote = Hubs /\ DOMAIN scans = Hubs
  BY HubAssumptions DEF Sound, Parts, HP!HInv, HP!TimerInv, HP!TimerTypes, HP!RemoteInv, HP!ScansInv,
         HP!ScansTyped
<1>1. ASSUME UNCHANGED scans
      PROVE  Stages(s)' = Stages(s) /\ \A h \in Hubs : StageAt(h, s)' = StageAt(h, s)
  BY <1>1, SameViews
<1>2. ASSUME UNCHANGED updates
      PROVE  Updates(s)' = Updates(s)
  BY <1>2, SameViews
<1>3. ASSUME UNCHANGED <<todo, answer, scans, updates, remote>>
      PROVE  Polled(s) /\ \A h \in Hubs : KnownAt(h, s)'
  BY <1>1, <1>2, <1>3 DEF Polled, KnownAt, HP!Located
<1>4. CASE HP!fetchAllScans(x)
  BY <1>0, <1>1, <1>2, <1>4 DEF HP!fetchAllScans, Polled, KnownAt, HP!Located
<1>5. CASE HP!didFetchScans(x)
  <2>1. \A h \in Hubs : StageAt(h, s)' = StageAt(h, s)
    BY <1>0, <1>5 DEF HP!didFetchScans, HP!Listed, StageAt, HP!Names, KnownAt
  <2>2. Stages(s)' = Stages(s)
    BY <2>1 DEF Stages
  <2> QED
    BY <1>0, <1>2, <1>5, <2>1, <2>2 DEF HP!didFetchScans, Polled, KnownAt, HP!Located
<1>6. ASSUME NEW t \in HP!Ticking, HP!Ask(x, t)
      PROVE  Polled(s) /\ \A h \in Hubs : KnownAt(h, s)'
  <2>1. t = "unknown" => s \notin HP!InStage(x, HP!StagesOf(t))
    BY DEF KnownAt, StageAt, HP!InStage, HP!StagesOf
  <2> QED
    BY <1>0, <1>1, <1>2, <1>6, <2>1 DEF HP!Ask, Polled, KnownAt, HP!Located
<1>7. ASSUME NEW t \in HP!Ticking, NEW n \in Shas, HP!fetchScan(x, t, n)
      PROVE  Polled(s) /\ \A h \in Hubs : KnownAt(h, s)'
  <2>1. /\ n \in todo[x][t] /\ UNCHANGED <<scans, updates, remote>>
        /\ todo' = [todo EXCEPT ![x][t] = @ \ {n}]
        /\ \/ UNCHANGED answer
           \/ \E a \in HP!Answer : a.name = n /\ answer' = [answer EXCEPT ![x][t] = a]
    BY <1>7 DEF HP!fetchScan, HP!FetchesNext, HP!PassOver, HP!TakeAnswer, HP!Answers
  <2>2. t = "unknown" => n # s
    BY <2>1 DEF KnownAt
  <2> QED
    BY <1>0, <1>1, <1>2, <2>1, <2>2 DEF Polled, KnownAt, HP!Located
<1>8. ASSUME NEW n \in Shas, NEW v \in Verdicts, HP!RemoteFinish(x, n, v)
      PROVE  Polled(s) /\ \A h \in Hubs : KnownAt(h, s)'
  <2>1. \A h \in Hubs : HP!Located(h)' = HP!Located(h)
    BY <1>0, <1>8 DEF HP!RemoteFinish, HP!Located
  <2> QED
    BY <1>1, <1>2, <1>8, <2>1 DEF HP!RemoteFinish, HP!timerVars, Polled, KnownAt
<1>9. ASSUME NEW t \in HP!Ticking, HP!Report(x, t)
      PROVE  Polled(s) /\ \A h \in Hubs : KnownAt(h, s)'
  <2>1. PICK u \in HP!Answer : u = answer[x][t]
    BY <1>9 DEF HP!Report, Sound, Parts, HP!HInv, HP!TimerInv, HP!HasAnswer
  <2>2. /\ UNCHANGED <<todo, remote>>
        /\ answer' = [answer EXCEPT ![x][t] = NoAnswer]
    BY <1>9 DEF HP!Report
  <2>3. ASSUME \A h \in Hubs : StageAt(h, s)' # "Unknown" /\ (StageAt(h, s) # "None" => StageAt(h, s)' # "None")
        PROVE  \A h \in Hubs : KnownAt(h, s)'
    BY <1>0, <2>2, <2>3 DEF KnownAt, HP!Located
  <2>4. CASE UNCHANGED <<scans, updates>>
    BY <1>1, <1>2, <2>3, <2>4 DEF Polled, KnownAt
  <2>5. ASSUME NEW scan, HP!SetScan(x, u.name, scan), HP!publish(u), u.name # s
        PROVE  Polled(s) /\ \A h \in Hubs : KnownAt(h, s)'
    <3>1. \A h \in Hubs : StageAt(h, s)' = StageAt(h, s)
      BY <2>5, StageAfterSet
    <3>2. Stages(s)' = Stages(s)
      BY <3>1 DEF Stages
    <3>3. Updates(s)' = Updates(s)
      BY <2>5, UpdatesMoved, PublishedOrRead
    <3> QED
      BY <2>3, <3>1, <3>2, <3>3 DEF Polled, KnownAt
  <2>6. CASE t = "unknown"
    <3>1. u.name # s
      BY <2>1, <2>6 DEF KnownAt
    <3>2. /\ HP!SetScan(x, u.name, [stage |-> HP!StageFor(u.results), results |-> u.results])
          /\ HP!publish(u)
      BY <1>9, <2>1, <2>6 DEF HP!Report, HP!didFetchScanResults
    <3> QED
      BY <2>5, <3>1, <3>2
  <2>7. CASE t = "completion" /\ ~ UNCHANGED <<scans, updates>>
    <3>1. PICK scan : scan = [stage |-> "Complete", results |-> u.results]
      BY Zenon
    <3>2. /\ HP!SetScan(x, u.name, scan) /\ HP!publish(u)
          /\ u.name \in HP!InStage(x, {"HubScan"})
      BY <1>9, <2>1, <2>7, <3>1 DEF HP!Report, HP!scanDidFinish
    <3>3. CASE u.name = s
      <4>1. Stages(s)[x] = "HubScan" /\ Stages(s)' = [Stages(s) EXCEPT ![x] = "Complete"]
        BY <3>1, <3>2, <3>3, StageAfterSet DEF Stages, StageAt, HP!InStage
      <4>2. Updates(s) = {} => Updates(s)' = {<<u, 1>>}
        BY <3>2, <3>3, UpdatesMoved, PublishedOrRead
      <4>3. \A h \in Hubs : StageAt(h, s)' = IF h = x THEN "Complete" ELSE StageAt(h, s)
        BY <3>1, <3>2, <3>3, StageAfterSet
      <4> QED
        BY <2>3, <4>1, <4>2, <4>3, Zenon DEF Polled, KnownAt
    <3> QED
      BY <2>5, <3>2, <3>3
  <2> QED
    BY <2>4, <2>6, <2>7
<1> QED
  BY <1>3, <1>4, <1>5, <1>6, <1>7, <1>8, <1>9, Zenon
     DEF HP!HubInternal, HP!JobStep, HP!LoginFails, HP!LoginSucceeds, HP!Tick, HP!Return

-----------------------------------------------------------------------------
(* Steps in the life of an image.                                          *)

\* Life depends on nothing else.
LEMMA SameLife ==
    ASSUME NEW s, Life(s), Stat(s)' = Stat(s), Jobs(s)' = Jobs(s), Updates(s)' = Updates(s),
           Stages(s)' = Stages(s), Hand(s)' = Hand(s)
    PROVE  Life(s)'
BY DEF Life

\* A scan that is polled ends, and an update tells of it.
LEMMA LifePolled ==
    ASSUME NEW s, NEW st \in CP!ScanStatuses \cup {"None"}, NEW js, NEW us, NEW sg, NEW nx, LifeOf(s, st, js, us, sg, nx),
           DOMAIN sg = Hubs, NEW h \in Hubs, sg[h] = "HubScan", NEW u \in HP!Answer
    PROVE  us = {} /\ LifeOf(s, st, js, {<<u, 1>>}, [sg EXCEPT ![h] = "Complete"], nx)
<1> DEFINE sh == [sg EXCEPT ![h] = "Complete"]
<1>1. \A g \in Hubs : sh[g] = IF g = h THEN "Complete" ELSE sg[g]
  OBVIOUS
<1>2. sg[h] \notin Settled /\ "Complete" \in Settled
  BY DEF Settled
<1> HIDE DEF sh
<1>3. ASSUME NEW g \in Hubs, PendingAt(g, us, sg)
      PROVE  g = h /\ us = {} /\ PendingAt(g, {<<u, 1>>}, sh)
  BY <1>1, <1>2, <1>3 DEF PendingAt, SettledBut
<1>4. CASE st = "RunningScanClient"
  <2>1. PICK j \in JobsOf(s) : /\ js = {<<j, 1>>}
                               /\ SettledBut(sg, j.hub) /\ ClientRuns(s, j, us, sg, nx)
    BY <1>4 DEF LifeOf
  <2>2. j.hub \in Hubs /\ j.hub = h
    BY <1>2, <2>1 DEF JobsOf, Job, SettledBut
  <2>3. nx.at # "StartHub" /\ PendingAt(j.hub, us, sg)
    BY <1>2, <2>1, <2>2 DEF ClientRuns
  <2>4. us = {} /\ SettledBut(sh, j.hub) /\ ClientRuns(s, j, {<<u, 1>>}, sh, nx)
    BY <1>2, <1>3, <2>1, <2>2, <2>3 DEF ClientRuns, PendingAt
  <2> QED
    BY <1>4, <2>1, <2>4 DEF LifeOf, sh
<1>5. CASE st = "RunningHubScan"
  BY <1>3, <1>5, Zenon DEF LifeOf, sh
<1>6. CASE st \in {"None", "Unknown", "InQueue", "Complete"}
  BY <1>2, <1>6 DEF LifeOf, Settled
<1> QED
  BY <1>4, <1>5, <1>6 DEF CP!ScanStatuses

\* Handing an image out, up to the answer to the scanner.
LEMMA LifeHandOut ==
    ASSUME NEW s, NEW st, NEW js, NEW us, NEW sg, NEW nx, LifeOf(s, st, js, us, sg, nx),
           nx.at \in {"Idle", "Assign", "Reply"}, NEW ny
    PROVE  /\ ny.at \in {"Idle", "Assign", "Reply"} /\ (ny.at # "Idle" => st = "InQueue")
                => LifeOf(s, st, js, us, sg, ny)
           /\ nx.at = "Reply" /\ ny.at = "StartCore"
                => js = {} /\ LifeOf(s, st, {<<Started(s, ny.hub), 1>>}, us, sg, ny)
<1>1. ASSUME ny.at \in {"Idle", "Assign", "Reply"}, ny.at # "Idle" => st = "InQueue"
      PROVE  LifeOf(s, st, js, us, sg, ny)
  BY <1>1 DEF LifeOf, ClientRuns
<1>2. ASSUME nx.at = "Reply", ny.at = "StartCore"
      PROVE  js = {} /\ LifeOf(s, st, {<<Started(s, ny.hub), 1>>}, us, sg, ny)
  BY <1>2 DEF LifeOf
<1> QED
  BY <1>1, <1>2

\* Recording that its scan client was started.
LEMMA LifeStarted ==
    ASSUME NEW s \in Shas, NEW st, NEW js, NEW us, NEW sg, NEW nx,
           LifeOf(s, st, js, us, sg, nx), DOMAIN sg = Hubs,
           NEW ny, NEW h \in Hubs, nx.hub = h
    PROVE  /\ nx.at = "StartCore" /\ ny.at = "StartHub" /\ ny.hub = h
                => st = "InQueue" /\ LifeOf(s, "RunningScanClient", js, us, sg, ny)
           /\ nx.at = "StartHub" /\ ny = Idle
                => LifeOf(s, st, js, us, [sg EXCEPT ![h] = "ScanClient"], ny)
<1>1. Started(s, h) \in JobsOf(s) /\ Started(s, h).hub = h
  BY DEF Started, JobsOf, Job
<1>2. ASSUME nx.at = "StartCore", ny.at = "StartHub", ny.hub = h
      PROVE  st = "InQueue" /\ LifeOf(s, "RunningScanClient", js, us, sg, ny)
  BY <1>1, <1>2 DEF LifeOf, ClientRuns, SettledBut
<1>3. ASSUME nx.at = "StartHub", ny = Idle
      PROVE  LifeOf(s, st, js, us, [sg EXCEPT ![h] = "ScanClient"], ny)
  <2>1. PICK sh : sh = [sg EXCEPT ![h] = "ScanClient"]
    BY Zenon
  <2>2. sh[h] = "ScanClient" /\ \A g \in Hubs : g # h => sh[g] = sg[g]
    BY <2>1
  <2>3. st = "RunningScanClient" /\ ny.at = "Idle"
    BY <1>3 DEF LifeOf, Idle
  <2>4. PICK j \in JobsOf(s) : /\ js = {<<j, 1>>}
                               /\ SettledBut(sg, j.hub) /\ ClientRuns(s, j, us, sg, nx)
    BY <2>3 DEF LifeOf
  <2>5. j = Started(s, h) /\ us = {}
    BY <1>3, <2>4 DEF ClientRuns
  <2>6. SettledBut(sh, j.hub) /\ ClientRuns(s, j, us, sh, ny)
    BY <1>1, <2>2, <2>3, <2>4, <2>5 DEF SettledBut, ClientRuns, Started
  <2> QED
    BY <2>1, <2>3, <2>4, <2>6 DEF LifeOf
<1> QED
  BY <1>2, <1>3

\* A scan client that uploads, or posts that it is done.
LEMMA LifeOfClient ==
    ASSUME NEW s \in Shas, NEW st \in CP!ScanStatuses \cup {"None"}, NEW js, NEW us, NEW sg, NEW nx,
           LifeOf(s, st, js, us, sg, nx), nx.at \notin {"StartCore", "StartHub"},
           NEW j \in JobsOf(s), NEW n, <<j, n>> \in js
    PROVE  /\ st = "RunningScanClient" /\ js = {<<j, 1>>} /\ SettledBut(sg, j.hub)
           /\ ClientRuns(s, j, us, sg, nx)
           /\ \A to \in JobsOf(s) : to.hub = j.hub /\ to.at # "HubTold" /\ j.at # "HubTold"
                => LifeOf(s, st, {<<to, 1>>}, us, sg, nx)
<1>1. st = "RunningScanClient"
  BY DEF LifeOf, CP!ScanStatuses
<1>2. PICK i \in JobsOf(s) : js = {<<i, 1>>} /\ SettledBut(sg, i.hub) /\ ClientRuns(s, i, us, sg, nx)
  BY <1>1 DEF LifeOf
<1>3. i = j
  BY <1>2
<1>4. ASSUME NEW to \in JobsOf(s), to.hub = j.hub, to.at # "HubTold", j.at # "HubTold"
      PROVE  LifeOf(s, st, {<<to, 1>>}, us, sg, nx)
  <2>1. SettledBut(sg, to.hub) /\ ClientRuns(s, to, us, sg, nx)
    BY <1>2, <1>3, <1>4 DEF ClientRuns
  <2> QED
    BY <1>1, <2>1 DEF LifeOf
<1> QED
  BY <1>1, <1>2, <1>3, <1>4

\* Its hub learns that it is done.
LEMMA LifeHubTold ==
    ASSUME NEW s \in Shas, NEW us, NEW sg, NEW nx, DOMAIN sg = Hubs,
           nx.at \notin {"Assign", "Reply", "StartCore", "StartHub"},
           NEW j \in JobsOf(s), NEW to \in JobsOf(s), j.at # "HubTold",
           to.hub = j.hub, to.failed = j.failed, to.at = "HubTold",
           SettledBut(sg, j.hub), ClientRuns(s, j, us, sg, nx)
    PROVE  /\ sg[j.hub] = "ScanClient"
           /\ LifeOf(s, "RunningScanClient", {<<to, 1>>}, us,
                     [sg EXCEPT ![j.hub] = IF j.failed THEN "Failure" ELSE "HubScan"], nx)
<1>0. j.hub \in Hubs
  BY DEF JobsOf, Job
<1>1. us = {} /\ sg[j.hub] = "ScanClient"
  BY DEF ClientRuns
<1>2. PICK sh : sh = [sg EXCEPT ![j.hub] = IF j.failed THEN "Failure" ELSE "HubScan"]
  BY Zenon
<1>3. /\ sh[j.hub] = IF j.failed THEN "Failure" ELSE "HubScan"
      /\ \A g \in Hubs : g # j.hub => sh[g] = sg[g]
  BY <1>0, <1>2
<1>4. SettledBut(sh, to.hub)
  BY <1>3 DEF SettledBut
<1>5. ClientRuns(s, to, us, sh, nx)
  BY <1>0, <1>1, <1>3, <1>4 DEF ClientRuns, PendingAt, Settled
<1> QED
  BY <1>1, <1>2, <1>4, <1>5 DEF LifeOf

\* Then the core does.
LEMMA LifeCoreTold ==
    ASSUME NEW s \in Shas, NEW us, NEW sg, NEW nx,
           nx.at \notin {"Assign", "Reply", "StartCore", "StartHub"},
           NEW j \in JobsOf(s), j.at = "HubTold",
           SettledBut(sg, j.hub), ClientRuns(s, j, us, sg, nx)
    PROVE  LifeOf(s, IF j.failed THEN "InQueue" ELSE "RunningHubScan", {}, us, sg, nx)
<1>1. j.hub \in Hubs
  BY DEF JobsOf, Job
<1>2. CASE j.failed
  <2>1. us = {} /\ \A h \in Hubs : sg[h] \in Settled
    BY <1>1, <1>2 DEF ClientRuns, SettledBut
  <2> QED
    BY <1>2, <2>1 DEF LifeOf
<1>3. CASE ~ j.failed
  <2>1. PendingAt(j.hub, us, sg)
    BY <1>3 DEF ClientRuns
  <2> QED
    BY <1>1, <1>3, <2>1 DEF LifeOf
<1> QED
  BY <1>2, <1>3

\* An update is passed on: of the scan there is nothing left to tell.
LEMMA LifeToldOf ==
    ASSUME NEW s \in Shas, NEW st \in CP!ScanStatuses \cup {"None"}, NEW js, NEW us, NEW sg, NEW nx,
           LifeOf(s, st, js, us, sg, nx), NEW u, NEW n, <<u, n>> \in us,
           \A j \in JobsOf(s) : \A k : <<j, k>> \in js => j.at # "HubTold"
    PROVE  /\ st = "RunningHubScan" /\ us = {<<u, 1>>}
           /\ \A to \in {"InQueue", "RunningHubScan", "Complete"} : LifeOf(s, to, js, {}, sg, nx)
<1>1. st = "RunningHubScan"
  <2>1. st # "RunningScanClient"
    <3> SUFFICES ASSUME st = "RunningScanClient"
                 PROVE  FALSE
      OBVIOUS
    <3>1. PICK j \in JobsOf(s) : js = {<<j, 1>>} /\ ClientRuns(s, j, us, sg, nx)
      BY DEF LifeOf
    <3>2. j.at # "HubTold"
      BY <3>1
    <3> QED
      BY <3>1, <3>2 DEF ClientRuns
  <2> QED
    BY <2>1 DEF LifeOf, CP!ScanStatuses
<1>2. PICK h \in Hubs : PendingAt(h, us, sg)
  BY <1>1 DEF LifeOf
<1>3. us = {<<u, 1>>} /\ \A g \in Hubs : sg[g] \in Settled
  BY <1>2 DEF PendingAt, SettledBut
<1>4. js = {} /\ nx.at \notin {"Assign", "Reply", "StartCore", "StartHub"}
  BY <1>1 DEF LifeOf
<1>5. PendingAt(h, {}, sg)
  BY <1>3 DEF PendingAt, SettledBut
<1>6. ASSUME NEW to \in {"InQueue", "RunningHubScan", "Complete"}
      PROVE  LifeOf(s, to, js, {}, sg, nx)
  BY <1>3, <1>4, <1>5 DEF LifeOf
<1> QED
  BY <1>1, <1>3, <1>6

\* An image is added, and one of which no scan was found is queued.
LEMMA LifeBegins ==
    ASSUME NEW s, NEW js, NEW us, NEW sg, NEW nx
    PROVE  /\ LifeOf(s, "None", js, us, sg, nx) => LifeOf(s, "Unknown", js, us, sg, nx)
           /\ LifeOf(s, "Unknown", js, us, sg, nx) => LifeOf(s, "InQueue", js, us, sg, nx)
BY DEF LifeOf, Settled

-----------------------------------------------------------------------------
(* Every step keeps what is known of an image of which there was no scan.  *)

\* What is known of it beside its life stays if what it is about does.
LEMMA FreshStays ==
    ASSUME NEW s, Fresh(s)
    PROVE  /\ UNCHANGED <<scans, todo, answer, remote>> => \A h \in Hubs : KnownAt(h, s)'
           /\ UNCHANGED check /\ (Checked(s) => Stat(s)' = Stat(s)) => NotFound(s)'
<1>1. ASSUME UNCHANGED <<scans, todo, answer, remote>>
      PROVE  \A h \in Hubs : KnownAt(h, s)'
  <2>1. \A h \in Hubs : StageAt(h, s)' = StageAt(h, s) /\ HP!Located(h)' = HP!Located(h)
    BY <1>1, SameViews DEF HP!Located
  <2> QED
    BY <1>1, <2>1 DEF Fresh, KnownAt
<1>2. ASSUME UNCHANGED check, Checked(s) => Stat(s)' = Stat(s)
      PROVE  NotFound(s)'
  BY <1>2 DEF Fresh, NotFound, Checked
<1> QED
  BY <1>1, <1>2

\* Handing out, up to the answer to the scanner.
LEMMA FreshAssign ==
    ASSUME Sound, NEW s \in Shas, Fresh(s),
           PeekNext \/ NoHubAvailable \/ Reply \/ \E h \in Hubs : AssignImage(h)
    PROVE  Fresh(s)'
<1>0. UNCHANGED <<images, scans, todo, answer, remote, check, updates>>
  BY DEF PeekNext, NoHubAvailable, Reply, AssignImage, coreVars, hubVars
<1>1. /\ Stat(s)' = Stat(s) /\ Updates(s)' = Updates(s) /\ Stages(s)' = Stages(s)
      /\ NotFound(s)' /\ \A h \in Hubs : KnownAt(h, s)'
  BY <1>0, SameViews, FreshStays
<1>2. LifeOf(s, Stat(s), Jobs(s), Updates(s), Stages(s), Hand(s))
  BY DEF Fresh, Life
<1>3. ASSUME UNCHANGED jobs, Hand(s).at \in {"Idle", "Assign"},
             Hand(s)'.at \in {"Idle", "Assign", "Reply"}, Hand(s)'.at # "Idle" => Stat(s) = "InQueue"
      PROVE  Life(s)'
  <2>1. Jobs(s)' = Jobs(s)
    BY <1>3, SameViews
  <2>2. LifeOf(s, Stat(s), Jobs(s), Updates(s), Stages(s), Hand(s)')
    BY <1>2, <1>3, LifeHandOut, Zenon
  <2> QED
    BY <1>1, <2>1, <2>2 DEF Life
<1>4. CASE PeekNext
  <2>1. PICK x \in Core!GetNextImage : next' = [at |-> "Assign", sha |-> x, left |-> clients]
    BY <1>4 DEF PeekNext
  <2>2. Stat(x) = "InQueue"
    BY <2>1 DEF Core!GetNextImage, Core!Peek, Sound, Parts, CP!ImagesInv, CP!QueueMatchesStatus,
           CP!InStatus, CP!Known, Stat
  <2>3. Hand(s) = Idle /\ (Hand(s)' = Idle \/ (Hand(s)'.at = "Assign" /\ s = x))
    BY <1>4, <2>1 DEF PeekNext, Hand
  <2> QED
    BY <1>1, <1>3, <1>4, <2>2, <2>3 DEF Fresh, Idle, PeekNext
<1>5. ASSUME NEW h \in Hubs, AssignImage(h)
      PROVE  Fresh(s)'
  <2>1. next.at = "Assign" /\ next'.sha = next.sha /\ next'.at \in {"Assign", "Reply"}
    BY <1>5 DEF AssignImage, Sound, PTypes, NextStates, Idle
  <2>2. \/ Hand(s) = next /\ Hand(s)' = next'
        \/ Hand(s) = Idle /\ Hand(s)' = Idle
    BY <2>1 DEF Hand
  <2>3. Hand(s).at = "Assign" => Stat(s) = "InQueue"
    BY <1>2 DEF LifeOf
  <2>4. UNCHANGED jobs
    BY <1>5 DEF AssignImage
  <2>5. /\ Hand(s).at \in {"Idle", "Assign"} /\ Hand(s)'.at \in {"Idle", "Assign", "Reply"}
        /\ Hand(s)'.at # "Idle" => Stat(s) = "InQueue"
    BY <2>1, <2>2, <2>3 DEF Idle
  <2> QED
    BY <1>1, <1>3, <2>4, <2>5 DEF Fresh
<1>6. CASE NoHubAvailable
  <2>1. Hand(s).at \in {"Idle", "Assign"} /\ Hand(s)'.at = "Idle" /\ UNCHANGED jobs
    BY <1>6 DEF NoHubAvailable, Hand, Idle
  <2> QED
    BY <1>1, <1>3, <2>1 DEF Fresh
<1>7. CASE Reply
  <2>1. next.at = "Reply" /\ next.sha \in Shas /\ next.hub \in Hubs
    BY <1>7 DEF Reply, Sound, PTypes, NextStates, Idle
  <2>2. next'.at = "StartCore" /\ next'.sha = next.sha /\ next'.hub = next.hub
    BY <1>7, <2>1 DEF Reply, Sound, PTypes, NextStates, Idle
  <2>3. PICK x, y : x \in Shas /\ x = next.sha /\ y = Started(x, next.hub)
    BY <2>1
  <2>4. jobs' = BagAdd(jobs, y) /\ y \in Job /\ y.sha = x
    BY <1>7, <2>1, <2>3 DEF Reply, Started, Job
  <2>5. /\ s # x => Jobs(s)' = Jobs(s)
        /\ s = x /\ Jobs(s) = {} => Jobs(s)' = {<<y, 1>>}
    BY <2>4, BagParts DEF Jobs, JobsOf
  <2>6. CASE s # x
    <3>1. Hand(s)' = Hand(s)
      BY <2>2, <2>3, <2>6 DEF Hand
    <3>2. Life(s)'
      BY <1>1, <2>5, <2>6, <3>1, SameLife DEF Fresh
    <3> QED
      BY <1>1, <3>2 DEF Fresh
  <2>7. CASE s = x
    <3>1. /\ Hand(s).at = "Reply"
          /\ Hand(s)'.at = "StartCore" /\ Hand(s)'.hub = next.hub
      BY <2>1, <2>2, <2>3, <2>7 DEF Hand
    <3>2. Jobs(s) = {} /\ LifeOf(s, Stat(s), {<<y, 1>>}, Updates(s), Stages(s), Hand(s)')
      BY <1>2, <2>3, <2>7, <3>1, LifeHandOut
    <3>3. Life(s)'
      BY <1>1, <2>5, <2>7, <3>2 DEF Life
    <3> QED
      BY <1>1, <3>3 DEF Fresh
  <2> QED
    BY <2>6, <2>7
<1> QED
  BY <1>4, <1>5, <1>6, <1>7

\* Recording the start in the core.
LEMMA FreshStartCore ==
    ASSUME Sound, NEW s \in Shas, Fresh(s), StartCore
    PROVE  Fresh(s)'
<1>0. UNCHANGED <<scans, todo, answer, remote, check, updates, jobs>>
  BY DEF StartCore, hubVars
<1>1. PICK x \in Shas, h \in Hubs : x = next.sha /\ h = next.hub
  BY DEF StartCore, Sound, PTypes, NextStates, Idle
<1>2. /\ next.at = "StartCore"
      /\ next'.at = "StartHub" /\ next'.sha = x /\ next'.hub = h
  BY <1>1 DEF StartCore, Sound, PTypes, NextStates, Idle
<1>3. /\ Jobs(s)' = Jobs(s) /\ Updates(s)' = Updates(s) /\ Stages(s)' = Stages(s)
      /\ \A g \in Hubs : KnownAt(g, s)'
  BY <1>0, SameViews, FreshStays
<1>4. /\ \A y : y # x => Stat(y)' = Stat(y)
      /\ Stat(x) = "InQueue" => Stat(x)' = "RunningScanClient"
  BY <1>1, StartCoreStat
<1>5. LifeOf(s, Stat(s), Jobs(s), Updates(s), Stages(s), Hand(s))
  BY DEF Fresh, Life
<1>6. CASE s # x
  <2>1. Hand(s)' = Hand(s)
    BY <1>1, <1>2, <1>6 DEF Hand
  <2>2. Life(s)'
    BY <1>3, <1>4, <1>6, <2>1, SameLife DEF Fresh
  <2> QED
    BY <1>0, <1>3, <1>4, <1>6, <2>2, FreshStays DEF Fresh
<1>7. CASE s = x
  <2>1. /\ Hand(s).at = "StartCore" /\ Hand(s).hub = h
        /\ Hand(s)'.at = "StartHub" /\ Hand(s)'.hub = h
    BY <1>1, <1>2, <1>7 DEF Hand
  <2>2. DOMAIN Stages(s) = Hubs
    BY DEF Stages
  <2>3. /\ Stat(s) = "InQueue"
        /\ LifeOf(s, "RunningScanClient", Jobs(s), Updates(s), Stages(s), Hand(s)')
    BY <1>5, <2>1, <2>2, LifeStarted, Zenon
  <2>4. Life(s)'
    BY <1>3, <1>4, <1>7, <2>3 DEF Life
  <2>5. NotFound(s)'
    BY <1>0, <2>3, FreshStays DEF Fresh, NotFound
  <2> QED
    BY <1>3, <2>4, <2>5 DEF Fresh
<1> QED
  BY <1>6, <1>7

\* Recording the start in the hub.
LEMMA FreshStartHub ==
    ASSUME Sound, NEW s \in Shas, Fresh(s), StartHub
    PROVE  Fresh(s)'
<1>0. UNCHANGED <<images, todo, answer, remote, check, updates, jobs>>
  BY DEF StartHub, coreVars, Hub!StartScanClient, Hub!timerVars
<1>1. PICK x \in Shas, h \in Hubs : x = next.sha /\ h = next.hub
  BY DEF StartHub, Sound, PTypes, NextStates, Idle
<1>2. next.at = "StartHub" /\ next' = Idle
  BY DEF StartHub
<1>3. HP!StartScanClient(h, x)
  BY <1>1, HubRequests DEF StartHub
<1>4. PICK scan : scan = [stage |-> "ScanClient", results |-> NoResults]
  BY Zenon
<1>5. HP!SetScan(h, x, scan) /\ scan.stage = "ScanClient"
  BY <1>3, <1>4 DEF HP!StartScanClient
<1>6. /\ \A g \in Hubs : \A y : StageAt(g, y)' = IF g = h /\ y = x THEN "ScanClient" ELSE StageAt(g, y)
      /\ \A y : y # x => Stages(y)' = Stages(y)
      /\ Stages(x)' = [Stages(x) EXCEPT ![h] = "ScanClient"]
  BY <1>5, StageAfterSet
<1>7. /\ Stat(s)' = Stat(s) /\ Jobs(s)' = Jobs(s) /\ Updates(s)' = Updates(s)
      /\ NotFound(s)'
  BY <1>0, SameViews, FreshStays
<1>8. \A g \in Hubs : KnownAt(g, s)'
  BY <1>0, <1>6 DEF Fresh, KnownAt, HP!Located
<1>9. LifeOf(s, Stat(s), Jobs(s), Updates(s), Stages(s), Hand(s))
  BY DEF Fresh, Life
<1>10. CASE s # x
  <2>1. Hand(s)' = Hand(s)
    BY <1>1, <1>2, <1>10 DEF Hand, Idle
  <2>2. Life(s)'
    BY <1>6, <1>7, <1>10, <2>1, SameLife DEF Fresh
  <2> QED
    BY <1>7, <1>8, <2>2 DEF Fresh
<1>11. CASE s = x
  <2>1. Hand(s).at = "StartHub" /\ Hand(s).hub = h /\ Hand(s)' = Idle
    BY <1>1, <1>2, <1>11 DEF Hand, Idle
  <2>2. DOMAIN Stages(s) = Hubs
    BY DEF Stages
  <2>3. LifeOf(s, Stat(s), Jobs(s), Updates(s), [Stages(s) EXCEPT ![h] = "ScanClient"], Idle)
    BY <1>9, <2>1, <2>2, LifeStarted, Zenon
  <2>4. Life(s)'
    BY <1>6, <1>7, <1>11, <2>1, <2>3, Zenon DEF Life
  <2> QED
    BY <1>7, <1>8, <2>4 DEF Fresh
<1> QED
  BY <1>10, <1>11

\* A hub that is at work.
LEMMA FreshHubStep ==
    ASSUME Sound, NEW s \in Shas, Fresh(s), NEW x \in Hubs, HubStep(x)
    PROVE  Fresh(s)'
<1>0. UNCHANGED <<images, check, jobs, next>> /\ HP!HubInternal(x)
  BY HubRequests DEF HubStep, coreVars
<1>1. Polled(s) /\ \A h \in Hubs : KnownAt(h, s)'
  BY <1>0, HubWorks DEF Fresh
<1>2. /\ Stat(s)' = Stat(s) /\ Jobs(s)' = Jobs(s) /\ Hand(s)' = Hand(s)
      /\ NotFound(s)'
  BY <1>0, SameViews, FreshStays
<1>3. LifeOf(s, Stat(s), Jobs(s), Updates(s), Stages(s), Hand(s))
  BY DEF Fresh, Life
<1>4. Stat(s) \in CP!ScanStatuses \cup {"None"} /\ DOMAIN Stages(s) = Hubs
  BY StatType DEF Stages
<1>5. CASE Stages(s)' = Stages(s) /\ Updates(s)' = Updates(s)
  BY <1>1, <1>2, <1>5, SameLife DEF Fresh
<1>6. ASSUME NEW h \in Hubs, NEW u \in HP!Answer,
             Stages(s)[h] = "HubScan", Stages(s)' = [Stages(s) EXCEPT ![h] = "Complete"],
             Updates(s) = {} => Updates(s)' = {<<u, 1>>}
      PROVE  Fresh(s)'
  <2>1. /\ Updates(s) = {}
        /\ LifeOf(s, Stat(s), Jobs(s), {<<u, 1>>}, [Stages(s) EXCEPT ![h] = "Complete"], Hand(s))
    BY <1>3, <1>4, <1>6, LifePolled, Zenon
  <2>2. Life(s)'
    BY <1>2, <1>6, <2>1 DEF Life
  <2> QED
    BY <1>1, <1>2, <2>2 DEF Fresh
<1> QED
  BY <1>1, <1>5, <1>6 DEF Polled

\* A job that is about to move is the only one of its image, which was handed
\* out for good.
LEMMA OnlyJob ==
    ASSUME Sound, NEW j \in DOMAIN jobs, NEW s \in Shas, j.sha = s, Fresh(s),
           j.at \in {"Posted", "HubTold"} \/ HandedOut(s)
    PROVE  /\ j \in JobsOf(s) /\ j \in Job /\ j.hub \in Hubs
           /\ Hand(s).at \notin {"Assign", "Reply", "StartCore", "StartHub"}
           /\ Stat(s) = "RunningScanClient" /\ Jobs(s) = {<<j, 1>>}
           /\ SettledBut(Stages(s), j.hub)
           /\ ClientRuns(s, j, Updates(s), Stages(s), Hand(s))
           /\ \A to \in JobsOf(s) : to.hub = j.hub /\ to.at # "HubTold" /\ j.at # "HubTold"
                => LifeOf(s, Stat(s), {<<to, 1>>}, Updates(s), Stages(s), Hand(s))
<1>1. j \in JobsOf(s) /\ <<j, jobs[j]>> \in Jobs(s) /\ j \in Job /\ j.hub \in Hubs
  BY JobThere DEF Sound, PTypes, Job
<1>2. LifeOf(s, Stat(s), Jobs(s), Updates(s), Stages(s), Hand(s))
  BY DEF Fresh, Life
<1>3. Stat(s) \in CP!ScanStatuses \cup {"None"}
  BY StatType
<1>4. Hand(s).at \notin {"StartCore", "StartHub"}
  <2>1. CASE HandedOut(s)
    BY <2>1 DEF HandedOut, Hand, Idle
  <2>2. ASSUME j.at \in {"Posted", "HubTold"}, Hand(s).at \in {"StartCore", "StartHub"}
        PROVE  FALSE
    <3>1. \E h : Jobs(s) = {<<Started(s, h), 1>>}
      <4>1. CASE Hand(s).at = "StartCore"
        BY <1>2, <4>1 DEF LifeOf
      <4>2. CASE Hand(s).at = "StartHub"
        BY <1>2, <4>2 DEF LifeOf, ClientRuns
      <4> QED
        BY <2>2, <4>1, <4>2
    <3>2. j.at = "Started"
      BY <1>1, <3>1 DEF Started
    <3> QED
      BY <2>2, <3>2
  <2> QED
    BY <2>1, <2>2
<1>5. /\ Stat(s) = "RunningScanClient" /\ Jobs(s) = {<<j, 1>>} /\ SettledBut(Stages(s), j.hub)
      /\ ClientRuns(s, j, Updates(s), Stages(s), Hand(s))
      /\ \A to \in JobsOf(s) : to.hub = j.hub /\ to.at # "HubTold" /\ j.at # "HubTold"
           => LifeOf(s, Stat(s), {<<to, 1>>}, Updates(s), Stages(s), Hand(s))
  <2>0. PICK st \in CP!ScanStatuses \cup {"None"} : st = Stat(s)
    BY <1>3
  <2>1. PICK js, us, sg, nx, n :
           /\ st = Stat(s) /\ js = Jobs(s) /\ us = Updates(s) /\ sg = Stages(s) /\ nx = Hand(s)
           /\ n = jobs[j]
    BY <2>0
  <2>2. /\ LifeOf(s, st, js, us, sg, nx) /\ nx.at \notin {"StartCore", "StartHub"}
        /\ <<j, n>> \in js /\ j \in JobsOf(s)
    BY <1>1, <1>2, <1>4, <2>1
  <2>3. /\ st = "RunningScanClient" /\ js = {<<j, 1>>} /\ SettledBut(sg, j.hub)
        /\ ClientRuns(s, j, us, sg, nx)
        /\ \A to \in JobsOf(s) : to.hub = j.hub /\ to.at # "HubTold" /\ j.at # "HubTold"
             => LifeOf(s, st, {<<to, 1>>}, us, sg, nx)
    BY <2>2, LifeOfClient
  <2> QED
    BY <2>1, <2>3
<1>6. Hand(s).at \notin {"Assign", "Reply"}
  BY <1>2, <1>5 DEF LifeOf
<1> QED
  BY <1>1, <1>4, <1>5, <1>6

\* A client that uploads its scan, or posts.
LEMMA FreshClientStep ==
    ASSUME Prompt, Sound, NEW s \in Shas, Fresh(s),
           NEW j \in DOMAIN jobs, ClientUploads(j) \/ ClientPosts(j)
    PROVE  Fresh(s)'
<1>0. UNCHANGED <<images, scans, todo, answer, check, updates, next>>
  BY DEF ClientUploads, ClientPosts, coreVars, hubVars, Hub!Upload, Hub!timerVars
<1>1. /\ Stat(s)' = Stat(s) /\ Updates(s)' = Updates(s) /\ Hand(s)' = Hand(s)
      /\ NotFound(s)' /\ Stages(s)' = Stages(s) /\ \A h : StageAt(h, s)' = StageAt(h, s)
  BY <1>0, SameViews, FreshStays
<1>2. j \in Job /\ j.sha \in Shas /\ j.hub \in Hubs
  BY DEF Sound, PTypes, Job
<1>3. PICK to : /\ to \in {[j EXCEPT !.at = "Uploaded"],
                           [j EXCEPT !.at = "Posted", !.failed = (j.at = "Started")]}
                /\ Move(j, to)
  BY DEF ClientUploads, ClientPosts
<1>4. to \in Job /\ to.sha = j.sha /\ to.hub = j.hub /\ to.at # "HubTold"
  BY <1>2, <1>3, Zenon DEF Job
<1>5. j.at # "HubTold" /\ HandedOut(j.sha)
  BY DEF ClientUploads, ClientPosts
<1>6. /\ s # j.sha => Jobs(s)' = Jobs(s)
      /\ s = j.sha /\ Jobs(s) = {<<j, 1>>} => Jobs(s)' = {<<to, 1>>}
  BY <1>2, <1>3, <1>4, JobsMoved
<1>7. Life(s)'
  <2>1. CASE s # j.sha
    BY <1>1, <1>6, <2>1, SameLife DEF Fresh
  <2>2. CASE s = j.sha
    <3>1. to \in JobsOf(s)
      BY <1>4, <2>2 DEF JobsOf
    <3>2. /\ Jobs(s) = {<<j, 1>>}
          /\ LifeOf(s, Stat(s), {<<to, 1>>}, Updates(s), Stages(s), Hand(s))
      BY <1>4, <1>5, <2>2, <3>1, OnlyJob, Zenon
    <3> QED
      BY <1>1, <1>6, <2>2, <3>2 DEF Life
  <2> QED
    BY <2>1, <2>2
<1>8. \A h \in Hubs : KnownAt(h, s)'
  <2>1. CASE UNCHANGED remote
    BY <1>0, <2>1, FreshStays
  <2>2. CASE ClientUploads(j)
    <3>1. HP!Upload(j.hub, j.sha) /\ DOMAIN remote = Hubs
      BY <2>2, HubRequests DEF ClientUploads, Sound, Parts, HP!HInv, HP!RemoteInv
    <3>2. \A h \in Hubs : s \in HP!Located(h)' => s \in HP!Located(h) \/ (h = j.hub /\ s = j.sha)
      BY <1>2, <3>1 DEF HP!Upload, HP!Located
    <3>3. s = j.sha => StageAt(j.hub, s) # "None"
      <4>1. s = j.sha => ClientRuns(s, j, Updates(s), Stages(s), Hand(s)) /\ Hand(s).at # "StartHub"
        BY <1>5, OnlyJob
      <4> QED
        BY <1>2, <1>5, <4>1 DEF ClientRuns, Stages
    <3> QED
      BY <1>0, <1>1, <3>2, <3>3 DEF Fresh, KnownAt
  <2> QED
    BY <2>1, <2>2 DEF ClientUploads, ClientPosts, hubVars
<1> QED
  BY <1>1, <1>7, <1>8 DEF Fresh

\* The hub is told that a client is done.
LEMMA FreshTellHub ==
    ASSUME Sound, NEW s \in Shas, Fresh(s), NEW j \in DOMAIN jobs, TellHub(j)
    PROVE  Fresh(s)'
<1>0. UNCHANGED <<images, todo, answer, remote, check, updates, next>>
  BY DEF TellHub, coreVars, hubVars, Hub!FinishScanClient, Hub!timerVars
<1>1. /\ Stat(s)' = Stat(s) /\ Updates(s)' = Updates(s) /\ Hand(s)' = Hand(s)
      /\ NotFound(s)'
  BY <1>0, SameViews, FreshStays
<1>2. j \in Job /\ j.sha \in Shas /\ j.hub \in Hubs /\ j.failed \in BOOLEAN /\ j.at = "Posted"
  BY DEF Sound, PTypes, Job, TellHub
<1>3. PICK to : to = [j EXCEPT !.at = "HubTold"]
  BY Zenon
<1>4. to \in Job /\ to.sha = j.sha /\ to.hub = j.hub /\ to.at = "HubTold" /\ to.failed = j.failed
  BY <1>2, <1>3 DEF Job
<1>5. Move(j, to)
  BY <1>3 DEF TellHub
<1>6. /\ s # j.sha => Jobs(s)' = Jobs(s)
      /\ s = j.sha /\ Jobs(s) = {<<j, 1>>} => Jobs(s)' = {<<to, 1>>}
  BY <1>2, <1>4, <1>5, JobsMoved
<1>7. PICK stage : stage = IF j.failed THEN "Failure" ELSE "HubScan"
  OBVIOUS
<1>8. \/ UNCHANGED scans /\ (s = j.sha => StageAt(j.hub, s) # "ScanClient")
      \/ \E scan : HP!SetScan(j.hub, j.sha, scan) /\ scan.stage = stage
  <2>1. CASE UNCHANGED scans /\ j.hub \notin clients
    <3>1. HP!Clients(j.hub) = {}
      BY <1>2, <2>1 DEF Sound, HubsInv
    <3> QED
      BY <2>1, <3>1 DEF HP!Clients, HP!InStage, StageAt
  <2>2. CASE Hub!FinishScanClient(j.hub, j.sha, j.failed)
    <3>1. HP!FinishScanClient(j.hub, j.sha, j.failed)
      BY <2>2, HubRequests
    <3>2. CASE j.sha \notin HP!InStage(j.hub, {"ScanClient"}) /\ UNCHANGED scans
      BY <3>2 DEF HP!InStage, StageAt
    <3>3. CASE /\ j.sha \in HP!InStage(j.hub, {"ScanClient"})
               /\ scans' = [scans EXCEPT ![j.hub][j.sha].stage = IF j.failed THEN "Failure" ELSE "HubScan"]
      <4>1. /\ j.sha \in HP!Names(j.hub) /\ scans[j.hub][j.sha] \in HP!Scan
            /\ DOMAIN scans = Hubs /\ scans[j.hub] \in [HP!Names(j.hub) -> HP!Scan]
        BY <1>2, <3>3 DEF HP!InStage, Sound, Parts, HP!HInv, HP!ScansInv, HP!ScansTyped
      <4>2. PICK scan : scan = [scans[j.hub][j.sha] EXCEPT !.stage = stage]
        BY Zenon
      <4>3. scan.stage = stage
        BY <4>1, <4>2 DEF HP!Scan
      <4>4. scans' = [scans EXCEPT ![j.hub] = [scans[j.hub] EXCEPT ![j.sha] = scan]]
        BY <1>7, <3>3, <4>1, <4>2
      <4>5. [scans[j.hub] EXCEPT ![j.sha] = scan]
               = [m \in HP!Names(j.hub) \cup {j.sha} |-> IF m = j.sha THEN scan ELSE scans[j.hub][m]]
        BY <4>1
      <4> QED
        BY <4>3, <4>4, <4>5, Zenon DEF HP!SetScan
    <3> QED
      BY <3>1, <3>2, <3>3 DEF HP!FinishScanClient
  <2> QED
    BY <2>1, <2>2 DEF TellHub, hubVars
<1>9. CASE s # j.sha
  <2>1. \A h \in Hubs : StageAt(h, s)' = StageAt(h, s)
    <3>1. CASE UNCHANGED scans
      BY <3>1, SameViews
    <3>2. ASSUME NEW scan, HP!SetScan(j.hub, j.sha, scan)
          PROVE  \A h \in Hubs : StageAt(h, s)' = StageAt(h, s)
      BY <1>2, <1>9, <3>2, StageAfterSet
    <3> QED
      BY <1>8, <3>1, <3>2
  <2>2. Stages(s)' = Stages(s)
    BY <2>1 DEF Stages
  <2>3. Life(s)'
    BY <1>1, <1>6, <1>9, <2>2, SameLife DEF Fresh
  <2>4. \A h \in Hubs : KnownAt(h, s)'
    BY <1>0, <2>1 DEF Fresh, KnownAt, HP!Located
  <2> QED
    BY <1>1, <2>3, <2>4 DEF Fresh
<1>10. CASE s = j.sha
  <2>1. /\ j \in JobsOf(s) /\ Stat(s) = "RunningScanClient" /\ Jobs(s) = {<<j, 1>>}
        /\ Hand(s).at \notin {"Assign", "Reply", "StartCore", "StartHub"}
        /\ SettledBut(Stages(s), j.hub) /\ ClientRuns(s, j, Updates(s), Stages(s), Hand(s))
    BY <1>2, <1>10, OnlyJob
  <2>2. to \in JobsOf(s) /\ DOMAIN Stages(s) = Hubs
    BY <1>4, <1>10 DEF JobsOf, Stages
  <2>3. /\ Stages(s)[j.hub] = "ScanClient"
        /\ LifeOf(s, "RunningScanClient", {<<to, 1>>}, Updates(s), [Stages(s) EXCEPT ![j.hub] = stage], Hand(s))
    BY <1>2, <1>4, <1>7, <2>1, <2>2, LifeHubTold, Zenon
  <2>4. /\ Stages(s)' = [Stages(s) EXCEPT ![j.hub] = stage]
        /\ \A h \in Hubs : StageAt(h, s)' = IF h = j.hub THEN stage ELSE StageAt(h, s)
    BY <1>2, <1>8, <1>10, <2>3, StageAfterSet DEF Stages
  <2>5. Life(s)'
    BY <1>1, <1>6, <1>10, <2>1, <2>3, <2>4 DEF Life
  <2>6. \A h \in Hubs : KnownAt(h, s)'
    BY <1>0, <1>7, <2>4 DEF Fresh, KnownAt, HP!Located
  <2> QED
    BY <1>1, <2>5, <2>6 DEF Fresh
<1> QED
  BY <1>9, <1>10

\* The core is told.
LEMMA FreshTellCore ==
    ASSUME Sound, NEW s \in Shas, Fresh(s), NEW j \in DOMAIN jobs, TellCore(j)
    PROVE  Fresh(s)'
<1>0. UNCHANGED <<scans, todo, answer, remote, check, updates, next>>
  BY DEF TellCore, hubVars
<1>1. /\ Updates(s)' = Updates(s) /\ Hand(s)' = Hand(s) /\ Stages(s)' = Stages(s)
      /\ \A h \in Hubs : KnownAt(h, s)'
  BY <1>0, SameViews, FreshStays
<1>2. j \in Job /\ j.sha \in Shas /\ j.at = "HubTold" /\ jobs' = BagRemove(jobs, j)
  BY DEF Sound, PTypes, Job, TellCore
<1>3. /\ \A y : y # j.sha => Stat(y)' = Stat(y)
      /\ Stat(j.sha) = "RunningScanClient" =>
           Stat(j.sha)' = IF j.failed THEN "InQueue" ELSE "RunningHubScan"
  BY <1>2, TellCoreStat
<1>4. CASE s # j.sha
  <2>1. Jobs(s)' = Jobs(s)
    <3>1. j \notin JobsOf(s)
      BY <1>4 DEF JobsOf
    <3> QED
      BY <1>2, <3>1, BagParts DEF Jobs, JobsOf
  <2> QED
    BY <1>0, <1>1, <1>3, <1>4, <2>1, SameLife, FreshStays DEF Fresh
<1>5. CASE s = j.sha
  <2>1. /\ j \in JobsOf(s) /\ Stat(s) = "RunningScanClient" /\ Jobs(s) = {<<j, 1>>}
        /\ Hand(s).at \notin {"Assign", "Reply", "StartCore", "StartHub"}
        /\ SettledBut(Stages(s), j.hub) /\ ClientRuns(s, j, Updates(s), Stages(s), Hand(s))
    BY <1>2, <1>5, OnlyJob
  <2>2. Jobs(s)' = {}
    BY <1>2, <2>1, BagParts DEF Jobs, JobsOf
  <2>3. LifeOf(s, IF j.failed THEN "InQueue" ELSE "RunningHubScan", {}, Updates(s), Stages(s), Hand(s))
    BY <1>2, <2>1, LifeCoreTold
  <2>4. Life(s)'
    BY <1>1, <1>3, <1>5, <2>1, <2>2, <2>3 DEF Life
  <2>5. NotFound(s)'
    BY <1>0, <2>1, FreshStays DEF Fresh, NotFound
  <2> QED
    BY <1>1, <2>4, <2>5 DEF Fresh
<1> QED
  BY <1>4, <1>5

\* An update is passed on.
LEMMA FreshPassOn ==
    ASSUME Prompt, Sound, NEW s \in Shas, Fresh(s), NEW u \in DOMAIN updates, PassUpdateOn(u)
    PROVE  Fresh(s)'
<1>0. UNCHANGED <<scans, todo, answer, remote, check, jobs, next>>
  BY DEF PassUpdateOn, Hub!Deliver, Hub!timerVars
<1>1. /\ Jobs(s)' = Jobs(s) /\ Hand(s)' = Hand(s) /\ Stages(s)' = Stages(s)
      /\ \A h \in Hubs : KnownAt(h, s)'
  BY <1>0, SameViews, FreshStays
<1>2. u \in HP!Answer /\ u.name \in Shas /\ u.results \in CP!ScanResults
  BY DEF Sound, Parts, HP!HInv, HP!UpdatesInv, HP!Answer, HP!ScanResults, CP!ScanResults
<1>3. updates' = BagRemove(updates, u)
  BY HubRequests, PublishedOrRead DEF PassUpdateOn
<1>4. /\ \A y : y # u.name => Stat(y)' = Stat(y)
      /\ Stat(u.name)' = CP!StatusAfter(CP!Outcome(u.results), Stat(u.name))
  BY <1>2, DidFinishStat DEF PassUpdateOn
<1>5. CASE s # u.name
  <2>1. Updates(s)' = Updates(s)
    BY <1>2, <1>3, <1>5, UpdatesMoved
  <2> QED
    BY <1>0, <1>1, <1>4, <1>5, <2>1, SameLife, FreshStays DEF Fresh
<1>6. CASE s = u.name
  <2>0. PICK st \in CP!ScanStatuses \cup {"None"} : st = Stat(s)
    BY StatType
  <2>1. PICK js, us, sg, nx, n :
           /\ st = Stat(s) /\ js = Jobs(s) /\ us = Updates(s) /\ sg = Stages(s) /\ nx = Hand(s)
           /\ n = updates[u]
    BY <2>0
  <2>2. LifeOf(s, st, js, us, sg, nx)
    BY <2>1 DEF Fresh, Life
  <2>3. <<u, n>> \in us
    BY <1>2, <1>6, <2>1 DEF Updates, UpdatesOf, Part
  <2>4. \A j \in JobsOf(s) : \A k : <<j, k>> \in js => j.at # "HubTold"
    BY <1>6, <2>1 DEF PassUpdateOn, FinishKnown, Jobs, JobsOf, Part
  <2>5. /\ st = "RunningHubScan" /\ us = {<<u, 1>>}
        /\ \A to \in {"InQueue", "RunningHubScan", "Complete"} : LifeOf(s, to, js, {}, sg, nx)
    BY <2>2, <2>3, <2>4, LifeToldOf, Zenon
  <2>6. Stat(s)' \in {"InQueue", "RunningHubScan", "Complete"}
    BY <1>4, <1>6, <2>1, <2>5 DEF CP!StatusAfter
  <2>7. Updates(s)' = {}
    BY <1>2, <1>3, <1>6, <2>1, <2>5, UpdatesMoved, Zenon
  <2>8. Life(s)'
    BY <1>1, <2>1, <2>5, <2>6, <2>7 DEF Life
  <2>9. NotFound(s)'
    BY <1>0, <2>1, <2>5, FreshStays DEF Fresh, NotFound
  <2> QED
    BY <1>1, <2>8, <2>9 DEF Fresh
<1> QED
  BY <1>5, <1>6

\* The unknown images are looked up.
LEMMA FreshCheck ==
    ASSUME Sound, NEW s \in Shas, Fresh(s), CheckStep
    PROVE  Fresh(s)'
<1>0. UNCHANGED <<scans, todo, answer, remote, updates, jobs, next>>
  BY Zenon DEF CheckStep, CheckUnknown, Collected, CollectFrom, ApplyTo, hubVars
<1>1. /\ Jobs(s)' = Jobs(s) /\ Hand(s)' = Hand(s) /\ Stages(s)' = Stages(s)
      /\ Updates(s)' = Updates(s) /\ \A h \in Hubs : KnownAt(h, s)'
  BY <1>0, SameViews, FreshStays
<1>2. LifeOf(s, Stat(s), Jobs(s), Updates(s), Stages(s), Hand(s))
  BY DEF Fresh, Life
<1>3. ASSUME Stat(s)' = Stat(s)
      PROVE  Life(s)'
  BY <1>1, <1>3, SameLife DEF Fresh
<1>4. CASE CheckUnknown
  <2>1. UNCHANGED images /\ check'.shas = Core!InStatus("Unknown") /\ DOMAIN check'.found = {}
    BY <1>4 DEF CheckUnknown, coreVars
  <2>2. NotFound(s)'
    BY <2>1 DEF NotFound, Checked, Core!InStatus, Core!Known, Stat
  <2> QED
    BY <1>1, <1>3, <2>1, <2>2, SameViews DEF Fresh
<1>5. ASSUME NEW h \in Hubs, CollectFrom(h)
      PROVE  Fresh(s)'
  <2>1. UNCHANGED images
    BY <1>5 DEF CollectFrom, coreVars
  <2>2. Checked(s) => s \notin HP!Names(h)
    <3>1. Checked(s) => Stages(s)[h] = "None"
      BY <1>2 DEF Fresh, NotFound, LifeOf
    <3>2. s \in HP!Names(h) => scans[h][s] \in HP!Scan
      BY DEF Sound, Parts, HP!HInv, HP!ScansInv, HP!ScansTyped
    <3> QED
      BY <3>1, <3>2 DEF Stages, StageAt, HP!Scan, HP!ScanStages
  <2>3. \/ check' = Idle
        \/ /\ check'.at # "Idle" /\ check'.shas = check.shas
           /\ DOMAIN check'.found = DOMAIN check.found \cup HP!Names(h)
    BY <1>5 DEF CollectFrom, Sound, PTypes, CheckStates, Idle, Hub!Names, HP!Names
  <2>4. NotFound(s)'
    BY <1>5, <2>1, <2>2, <2>3, Zenon DEF CollectFrom, NotFound, Checked, Fresh, Stat, Idle
  <2> QED
    BY <1>1, <1>3, <2>1, <2>4, SameViews DEF Fresh
<1>6. CASE Collected
  <2>1. UNCHANGED images
    BY <1>6 DEF Collected, coreVars
  <2>2. NotFound(s)'
    BY <1>6, <2>1 DEF Collected, NotFound, Checked, Fresh, Stat
  <2> QED
    BY <1>1, <1>3, <2>1, <2>2, SameViews DEF Fresh
<1>7. ASSUME NEW x \in Shas, ApplyTo(x)
      PROVE  Fresh(s)'
  <2>1. check \in [at : {"Apply"}, shas : SUBSET Shas, found : Found] /\ x \in check.shas
    BY <1>7 DEF ApplyTo, Sound, PTypes, CheckStates, Idle
  <2>2. Checked(s)' => Checked(s) /\ s # x /\ check'.found = check.found
    BY <1>7, <2>1 DEF ApplyTo, Checked, Idle
  <2>3. Resolve(x)
    BY <1>7 DEF ApplyTo
  <2>4. CASE s # x
    <3>1. \A scan \in HP!Scan : scan.results \in CP!ScanResults \cup {NoResults}
      BY DEF HP!Scan, HP!ScanResults, CP!ScanResults
    <3>2. x \in DOMAIN check.found => check.found[x] \in HP!Scan
      BY <2>1 DEF Found
    <3>3. UNCHANGED images \/ \E r \in CP!ScanResults \cup {NoResults} : Core!scanDidFinish(x, r)
      BY <2>3, <3>1, <3>2 DEF Resolve, coreVars
    <3>4. Stat(s)' = Stat(s)
      BY <2>4, <3>3, DidFinishStat, SameViews
    <3>5. NotFound(s)'
      BY <2>2, <3>4 DEF NotFound, Fresh
    <3> QED
      BY <1>1, <1>3, <3>4, <3>5 DEF Fresh
  <2>5. CASE s = x
    <3>1. Stat(s) = "Unknown" /\ s \notin DOMAIN check.found
      BY <2>1, <2>5 DEF Fresh, NotFound, Checked
    <3>2. Core!scanDidFinish(x, NoResults)
      BY <2>3, <2>5, <3>1 DEF Resolve
    <3>3. Stat(s)' = CP!StatusAfter(CP!Outcome(NoResults), Stat(s))
      BY <2>5, <3>2, DidFinishStat
    <3>4. Stat(s)' = "InQueue"
      BY <3>1, <3>3 DEF CP!StatusAfter, CP!Outcome
    <3>5. LifeOf(s, "InQueue", Jobs(s), Updates(s), Stages(s), Hand(s))
      BY <1>2, <3>1, LifeBegins
    <3>6. Life(s)'
      BY <1>1, <3>4, <3>5 DEF Life
    <3>7. NotFound(s)'
      BY <2>2, <2>5 DEF NotFound
    <3> QED
      BY <1>1, <3>6, <3>7 DEF Fresh
  <2> QED
    BY <2>4, <2>5
<1> QED
  BY <1>4, <1>5, <1>6, <1>7 DEF CheckStep

\* An image is posted.
LEMMA FreshAddImage ==
    ASSUME Sound, NEW s \in Shas, Fresh(s), NEW image \in Posted, AddImage(image)
    PROVE  Fresh(s)'
<1>0. UNCHANGED <<scans, todo, answer, remote, check, updates, jobs, next>>
  BY DEF AddImage, hubVars
<1>1. /\ Jobs(s)' = Jobs(s) /\ Hand(s)' = Hand(s) /\ Stages(s)' = Stages(s)
      /\ Updates(s)' = Updates(s) /\ \A h \in Hubs : KnownAt(h, s)'
  BY <1>0, SameViews, FreshStays
<1>2. LifeOf(s, Stat(s), Jobs(s), Updates(s), Stages(s), Hand(s))
  BY DEF Fresh, Life
<1>3. Stat(s)' = IF s = image.sha /\ Stat(s) = "None" THEN "Unknown" ELSE Stat(s)
  BY AddImageStat
<1>4. LifeOf(s, Stat(s)', Jobs(s), Updates(s), Stages(s), Hand(s))
  BY <1>2, <1>3, LifeBegins
<1>5. Life(s)'
  BY <1>1, <1>4 DEF Life
<1>6. NotFound(s)'
  BY <1>0, <1>3, FreshStays DEF Fresh, NotFound
<1> QED
  BY <1>1, <1>5, <1>6 DEF Fresh

\* No step of perceptor but a restart makes an old image of a fresh one.
LEMMA FreshStep ==
    ASSUME Prompt, Sound, NEW s \in Shas, Fresh(s), [Next]_vars, ~Restart
    PROVE  Fresh(s)'
<1>1. ASSUME NEW j \in Job, FinishJob(j)
      PROVE  Fresh(s)'
  BY <1>1, FreshClientStep, FreshTellHub, FreshTellCore DEF FinishJob
<1>2. CASE HandOut
  BY <1>2, FreshAssign, FreshStartCore, FreshStartHub DEF HandOut
<1>3. ASSUME UNCHANGED <<images, scans, todo, answer, remote, check, updates, jobs, next>>
      PROVE  Fresh(s)'
  <2>1. /\ Stat(s)' = Stat(s) /\ Jobs(s)' = Jobs(s) /\ Hand(s)' = Hand(s)
        /\ Stages(s)' = Stages(s) /\ Updates(s)' = Updates(s)
        /\ NotFound(s)' /\ \A h \in Hubs : KnownAt(h, s)'
    BY <1>3, SameViews, FreshStays
  <2> QED
    BY <2>1, SameLife DEF Fresh
<1>4. ASSUME NEW h \in Hubs, CreateHub(h) \/ HubStep(h)
      PROVE  Fresh(s)'
  BY <1>3, <1>4, FreshHubStep DEF CreateHub, coreVars, hubVars
<1> QED
  BY <1>1, <1>2, <1>3, <1>4, FreshPassOn, FreshCheck, FreshAddImage
     DEF Next, vars, coreVars, hubVars

-----------------------------------------------------------------------------
(* Every step keeps what is known of an image of which there was a scan.   *)

\* What stays if what it is about does.
LEMMA OldStays ==
    ASSUME NEW s, Old(s)
    PROVE  /\ UNCHANGED <<scans, remote, answer>> => \A h \in Hubs : OldAt(h, s)'
           /\ UNCHANGED <<scans, remote, timer, todo, hasFetched>> =>
                \A h \in Hubs : ListedAt(h, s) => ListedAt(h, s)'
           /\ UNCHANGED check =>
                FoundScan(s)' /\ \A h \in Hubs : ToldBy(h, s) => ToldBy(h, s)'
           /\ /\ Stat(s)' = Stat(s) /\ Jobs(s)' = Jobs(s) /\ Hand(s)' = Idle
              /\ UNCHANGED clients /\ DOMAIN updates' \subseteq DOMAIN updates
              => Rests(s)'
<1>1. UNCHANGED <<scans, remote, answer>> => \A h \in Hubs : OldAt(h, s)'
  BY DEF Old, OldAt, HP!Names, HP!Summaries, HP!Located, HP!Answer, HP!ScanResults
<1>2. UNCHANGED <<scans, remote, timer, todo, hasFetched>> =>
        \A h \in Hubs : ListedAt(h, s) => ListedAt(h, s)'
  BY DEF ListedAt, HP!Names, HP!Located
<1>3. UNCHANGED check => FoundScan(s)' /\ \A h \in Hubs : ToldBy(h, s) => ToldBy(h, s)'
  BY DEF Old, FoundScan, ToldBy, Checked
<1>4. /\ Stat(s)' = Stat(s) /\ Jobs(s)' = Jobs(s) /\ Hand(s)' = Idle
      /\ UNCHANGED clients /\ DOMAIN updates' \subseteq DOMAIN updates
      => Rests(s)'
  BY DEF Old, Rests
<1> QED
  BY <1>1, <1>2, <1>3, <1>4

\* Without a failure among its summaries a scan did not fail, nor is it unknown.
LEMMA GoodResults ==
    ASSUME NEW r \in HP!ScanResults, NoFailure(r)
    PROVE  /\ r \in CP!ScanResults /\ r # NoResults
           /\ HP!StageFor(r) \in {"Complete", "HubScan"}
           /\ CP!Outcome(r) \in {"Success", "InProgress"}
<1>1. r # NoResults /\ r \in CP!ScanResults
  BY HubAssumptions DEF HP!ScanResults, CP!ScanResults
<1>2. r.summaries \subseteq {"Success", "InProgress", "Failure"} /\ r.summaries # {}
  BY HubAssumptions, Zenon DEF HP!ScanResults, HP!SummaryStatuses
<1>3. "Success" \in r.summaries \/ "InProgress" \in r.summaries
  BY <1>1, <1>2 DEF NoFailure
<1>4. /\ HP!ScanSummaryStatus(r) \in {"Success", "InProgress"}
      /\ CP!ScanSummaryStatus(r) \in {"Success", "InProgress"}
  BY <1>3 DEF HP!ScanSummaryStatus, CP!ScanSummaryStatus
<1> QED
  BY <1>1, <1>4 DEF HP!StageFor, CP!Outcome

\* The results of such a scan complete its image, or leave it alone.
LEMMA GoodOutcome ==
    ASSUME NEW o \in {"Success", "InProgress"},
           NEW st \in {"None", "Unknown", "RunningHubScan", "Complete"}
    PROVE  /\ CP!StatusAfter(o, st) \in {"None", "Unknown", "RunningHubScan", "Complete"}
           /\ CP!StatusAfter(o, st) # "None" <=> st # "None"
BY DEF CP!StatusAfter

\* A hub at work loses no scan, and finds no failure.
LEMMA OldHubWorks ==
    ASSUME Sound, Settling, NEW x \in Hubs, HP!HubInternal(x), NEW s \in Shas, Old(s)
    PROVE  /\ \A h \in Hubs : OldAt(h, s)' /\ (ListedAt(h, s) => ListedAt(h, s)')
           /\ \A u \in DOMAIN updates' : u.name = s => NoFailure(u.results)
<1> USE DEF HP!Timers, HP!Ticking
<1>0. /\ todo \in [Hubs -> [HP!Timers -> SUBSET Shas]]
      /\ answer \in [Hubs -> [HP!Timers -> HP!Answer \cup {NoAnswer}]]
      /\ NoAnswer \notin HP!Answer
      /\ DOMAIN remote = Hubs /\ DOMAIN scans = Hubs
      /\ timer \in [Hubs -> [HP!Timers -> HP!TimerStates]] /\ hasFetched \in [Hubs -> BOOLEAN]
  BY HubAssumptions DEF Sound, Parts, HP!HInv, HP!TimerInv, HP!TimerTypes, HP!RemoteInv, HP!ScansInv,
         HP!ScansTyped
<1>1. UNCHANGED <<scans, remote, answer>> => \A h \in Hubs : OldAt(h, s)'
  BY OldStays
<1>2. UNCHANGED updates => \A u \in DOMAIN updates' : u.name = s => NoFailure(u.results)
  BY DEF Old, Rests
<1>3. ASSUME UNCHANGED <<scans, remote, hasFetched>>,
             \A h \in Hubs : timer'[h]["allScans"] = "Reporting" =>
                 \/ timer[h]["allScans"] = "Reporting" /\ todo'[h]["allScans"] = todo[h]["allScans"]
                 \/ todo'[h]["allScans"] = HP!Located(h)
      PROVE  \A h \in Hubs : ListedAt(h, s) => ListedAt(h, s)'
  BY <1>3 DEF ListedAt, HP!Names, HP!Located
<1>4. CASE HP!LoginFails(x) \/ HP!LoginSucceeds(x)
  <2>1. UNCHANGED <<todo, answer, scans, hasFetched, updates, remote>>
    BY <1>4, Zenon DEF HP!LoginFails, HP!LoginSucceeds
  <2>2. \A h \in Hubs : timer'[h]["allScans"] = "Reporting" => timer[h]["allScans"] = "Reporting"
    <3>1. CASE HP!LoginFails(x)
      <4>1. timer' = [timer EXCEPT ![x] = [t \in HP!Timers |->
                                   IF timer[x][t] = "Ready" THEN "Paused" ELSE timer[x][t]]]
        BY <3>1 DEF HP!LoginFails
      <4> QED
        BY <1>0, <4>1
    <3>2. CASE HP!LoginSucceeds(x)
      <4>1. timer' = [timer EXCEPT ![x] = [t \in HP!Timers |->
                         IF timer[x][t] = "Paused" THEN HP!StartState(t) ELSE timer[x][t]]]
        BY <3>2 DEF HP!LoginSucceeds
      <4>2. \A t : HP!StartState(t) # "Reporting"
        BY DEF HP!StartState
      <4> QED
        BY <1>0, <4>1, <4>2
    <3> QED
      BY <1>4, <3>1, <3>2
  <2> QED
    BY <1>1, <1>2, <1>3, <2>1, <2>2
<1>5. CASE HP!fetchAllScans(x)
  <2>1. UNCHANGED <<answer, scans, hasFetched, updates, remote>>
    BY <1>5 DEF HP!fetchAllScans
  <2>2. \A h \in Hubs : timer'[h]["allScans"] = "Reporting" =>
                 \/ timer[h]["allScans"] = "Reporting" /\ todo'[h]["allScans"] = todo[h]["allScans"]
                 \/ todo'[h]["allScans"] = HP!Located(h)
    <3>1. \/ /\ timer' = [timer EXCEPT ![x]["allScans"] = "Reporting"]
             /\ todo' = [todo EXCEPT ![x]["allScans"] = HP!Located(x)]
          \/ /\ timer' = [timer EXCEPT ![x]["allScans"] = HP!Rested(x, "allScans")]
             /\ UNCHANGED todo
      BY <1>5 DEF HP!fetchAllScans
    <3>2. HP!Rested(x, "allScans") # "Reporting"
      BY DEF HP!Rested
    <3>3. \A h \in Hubs \ {x} : /\ timer'[h]["allScans"] = timer[h]["allScans"]
                                /\ todo'[h]["allScans"] = todo[h]["allScans"]
      BY <1>0, <3>1
    <3>4. timer'[x]["allScans"] = "Reporting" => todo'[x]["allScans"] = HP!Located(x)
      BY <1>0, <3>1, <3>2
    <3> QED
      BY <3>3, <3>4
  <2> QED
    BY <1>1, <1>2, <1>3, <2>1, <2>2
<1>6. CASE HP!didFetchScans(x)
  <2>1. UNCHANGED <<answer, updates, remote>>
    BY <1>6 DEF HP!didFetchScans
  <2>2. /\ scans' = [scans EXCEPT ![x] = HP!Listed(x, todo[x]["allScans"])]
        /\ timer[x]["allScans"] = "Reporting"
        /\ timer' = [timer EXCEPT ![x]["allScans"] = HP!Rested(x, "allScans")]
        /\ todo' = [todo EXCEPT ![x]["allScans"] = {}]
        /\ hasFetched' = [hasFetched EXCEPT ![x] = TRUE]
    BY <1>6 DEF HP!didFetchScans
  <2>3. \A h \in Hubs : /\ s \in HP!Names(h) => s \in HP!Names(h)' /\ scans'[h][s] = scans[h][s]
                        /\ s \in HP!Names(h)' \ HP!Names(h) => scans'[h][s] = HP!UnknownScan
    BY <1>0, <2>2 DEF HP!Names, HP!Listed
  <2>4. s \in todo[x]["allScans"] => s \in HP!Names(x)'
    BY <1>0, <2>2 DEF HP!Names, HP!Listed
  <2>5. OldScan(HP!UnknownScan)
    BY DEF HP!UnknownScan, OldScan, NoFailure
  <2>6. \A h \in Hubs : OldAt(h, s)'
    BY <2>1, <2>3, <2>5 DEF Old, OldAt, HP!Summaries, HP!Located, HP!Answer, HP!ScanResults
  <2>7. \A h \in Hubs : ListedAt(h, s) => ListedAt(h, s)'
    BY <1>0, <2>1, <2>2, <2>3, <2>4 DEF ListedAt, HP!Located, HP!Rested
  <2> QED
    BY <1>2, <2>1, <2>6, <2>7
<1>7. ASSUME NEW t \in HP!Ticking, HP!Tick(x, t) \/ HP!Return(x, t) \/ HP!Ask(x, t)
      PROVE  /\ \A h \in Hubs : OldAt(h, s)' /\ (ListedAt(h, s) => ListedAt(h, s)')
             /\ \A u \in DOMAIN updates' : u.name = s => NoFailure(u.results)
  <2>1. UNCHANGED <<answer, scans, hasFetched, updates, remote>>
    BY <1>7 DEF HP!Tick, HP!Return, HP!Ask
  <2>2. \A h \in Hubs : /\ timer'[h]["allScans"] = timer[h]["allScans"]
                        /\ todo'[h]["allScans"] = todo[h]["allScans"]
    <3>1. \/ UNCHANGED timer
          \/ \E v : timer' = [timer EXCEPT ![x][t] = v]
      BY <1>7 DEF HP!Tick, HP!Return, HP!Ask
    <3>2. \/ UNCHANGED todo
          \/ \E v : todo' = [todo EXCEPT ![x][t] = v]
      BY <1>7 DEF HP!Tick, HP!Return, HP!Ask
    <3> QED
      BY <1>0, <3>1, <3>2
  <2> QED
    BY <1>1, <1>2, <1>3, <2>1, <2>2
<1>8. ASSUME NEW t \in HP!Ticking, NEW n \in Shas, HP!fetchScan(x, t, n)
      PROVE  /\ \A h \in Hubs : OldAt(h, s)' /\ (ListedAt(h, s) => ListedAt(h, s)')
             /\ \A u \in DOMAIN updates' : u.name = s => NoFailure(u.results)
  <2>1. UNCHANGED <<scans, hasFetched, updates, remote>>
    BY <1>8 DEF HP!fetchScan
  <2>2. \A h \in Hubs : /\ timer'[h]["allScans"] = timer[h]["allScans"]
                        /\ todo'[h]["allScans"] = todo[h]["allScans"]
    BY <1>0, <1>8 DEF HP!fetchScan, HP!PassOver, HP!TakeAnswer
  <2>3. \/ UNCHANGED answer
        \/ \E a \in HP!Answers(x, n) : answer' = [answer EXCEPT ![x][t] = a]
    BY <1>8 DEF HP!fetchScan, HP!PassOver, HP!TakeAnswer
  <2>4. ASSUME NEW a \in HP!Answers(x, n), answer' = [answer EXCEPT ![x][t] = a]
        PROVE  \A h \in Hubs : OldAt(h, s)'
    <3>1. a.name = n /\ a.results.summaries = HP!Summaries(x, n)
      BY DEF HP!Answers
    <3>2. a.name = s => NoFailure(a.results)
      BY <3>1 DEF Old, OldAt, NoFailure
    <3>3. \A h \in Hubs : \A i \in HP!Ticking :
             answer'[h][i] = answer[h][i] \/ answer'[h][i] = a
      BY <1>0, <2>4
    <3> QED
      BY <2>1, <3>2, <3>3
         DEF Old, OldAt, HP!Names, HP!Summaries, HP!Located, HP!Answer, HP!ScanResults
  <2> QED
    BY <1>1, <1>2, <1>3, <2>1, <2>2, <2>3, <2>4
<1>9. ASSUME NEW n \in Shas, NEW v \in Verdicts, HP!RemoteFinish(x, n, v)
      PROVE  /\ \A h \in Hubs : OldAt(h, s)' /\ (ListedAt(h, s) => ListedAt(h, s)')
             /\ \A u \in DOMAIN updates' : u.name = s => NoFailure(u.results)
  <2>1. UNCHANGED <<timer, todo, answer, scans, hasFetched, updates>> /\ v = "Success"
    BY <1>9 DEF HP!RemoteFinish, HP!timerVars, Settling
  <2>2. \A h \in Hubs : HP!Located(h)' = HP!Located(h)
    BY <1>0, <1>9 DEF HP!RemoteFinish, HP!Located
  <2>3. remote' = [remote EXCEPT ![x][n] = (remote[x][n] \ {"InProgress"}) \cup {"Success"}]
    BY <1>9, <2>1 DEF HP!RemoteFinish
  <2>4. \A h \in Hubs : "Failure" \in HP!Summaries(h, s)' => "Failure" \in HP!Summaries(h, s)
    BY <1>0, <2>2, <2>3 DEF HP!Summaries, HP!Located
  <2>5. \A h \in Hubs : OldAt(h, s)'
    BY <2>1, <2>4 DEF Old, OldAt, HP!Names, HP!Answer, HP!ScanResults
  <2>6. \A h \in Hubs : ListedAt(h, s) => ListedAt(h, s)'
    BY <2>1, <2>2 DEF ListedAt, HP!Names
  <2> QED
    BY <1>2, <2>1, <2>5, <2>6
<1>10. ASSUME NEW t \in HP!Ticking, HP!Report(x, t)
      PROVE  /\ \A h \in Hubs : OldAt(h, s)' /\ (ListedAt(h, s) => ListedAt(h, s)')
             /\ \A u \in DOMAIN updates' : u.name = s => NoFailure(u.results)
  <2>1. PICK u \in HP!Answer : u = answer[x][t]
    BY <1>10 DEF HP!Report, Sound, Parts, HP!HInv, HP!TimerInv, HP!HasAnswer
  <2>2. /\ UNCHANGED <<todo, remote, hasFetched>>
        /\ answer' = [answer EXCEPT ![x][t] = NoAnswer]
        /\ timer' = [timer EXCEPT ![x][t] = "Fetching"]
    BY <1>10 DEF HP!Report
  <2>3. u.name = s => NoFailure(u.results)
    BY <2>1 DEF Old, OldAt
  <2>4. u.results \in HP!ScanResults
    BY DEF HP!Answer
  <2>5. \A h \in Hubs : timer'[h]["allScans"] = timer[h]["allScans"]
    BY <1>0, <2>2
  <2>6. \A h \in Hubs : \A i \in HP!Ticking : answer'[h][i] = answer[h][i] \/ answer'[h][i] = NoAnswer
    BY <1>0, <2>2
  <2>7. ASSUME \A h \in Hubs : s \in HP!Names(h) => s \in HP!Names(h)',
               \A h \in Hubs : s \in HP!Names(h)' => OldScan(scans'[h][s])
        PROVE  \A h \in Hubs : OldAt(h, s)' /\ (ListedAt(h, s) => ListedAt(h, s)')
    <3>1. \A h \in Hubs : OldAt(h, s)'
      BY <1>0, <2>2, <2>6, <2>7
         DEF Old, OldAt, HP!Summaries, HP!Located, HP!Answer, HP!ScanResults
    <3>2. \A h \in Hubs : ListedAt(h, s) => ListedAt(h, s)'
      BY <2>2, <2>5, <2>7 DEF ListedAt, HP!Located
    <3> QED
      BY <3>1, <3>2
  <2>8. CASE UNCHANGED <<scans, updates>>
    BY <1>2, <2>7, <2>8 DEF Old, OldAt, HP!Names
  <2>9. ASSUME NEW scan, HP!SetScan(x, u.name, scan), HP!publish(u),
               u.name = s => OldScan(scan)
        PROVE  /\ \A h \in Hubs : OldAt(h, s)' /\ (ListedAt(h, s) => ListedAt(h, s)')
               /\ \A y \in DOMAIN updates' : y.name = s => NoFailure(y.results)
    <3>1. /\ \A g \in Hubs : HP!Names(g)' = IF g = x THEN HP!Names(g) \cup {u.name} ELSE HP!Names(g)
          /\ \A g \in Hubs : \A m \in HP!Names(g)' :
                scans'[g][m] = IF g = x /\ m = u.name THEN scan ELSE scans[g][m]
      BY <2>9, StageAfterSet
    <3>2. \A h \in Hubs : s \in HP!Names(h)' => OldScan(scans'[h][s])
      BY <2>9, <3>1 DEF Old, OldAt
    <3>3. updates' = BagAdd(updates, u)
      BY <2>9, PublishedOrRead
    <3>4. DOMAIN BagAdd(updates, u) = DOMAIN updates \cup {u}
      BY JobBags, Zenon
    <3>5. \A y \in DOMAIN updates' : y.name = s => NoFailure(y.results)
      BY <2>3, <3>3, <3>4 DEF Old, Rests
    <3> QED
      BY <2>7, <3>1, <3>2, <3>5
  <2>10. CASE t = "unknown"
    <3>1. PICK scan : scan = [stage |-> HP!StageFor(u.results), results |-> u.results]
      BY Zenon
    <3>2. HP!SetScan(x, u.name, scan) /\ HP!publish(u)
      BY <1>10, <2>1, <2>10, <3>1 DEF HP!Report, HP!didFetchScanResults
    <3>3. u.name = s => OldScan(scan)
      BY <2>3, <2>4, <3>1, GoodResults DEF OldScan
    <3> QED
      BY <2>9, <3>2, <3>3
  <2>11. CASE t = "completion" /\ ~ UNCHANGED <<scans, updates>>
    <3>1. PICK scan : scan = [stage |-> "Complete", results |-> u.results]
      BY Zenon
    <3>2. HP!SetScan(x, u.name, scan) /\ HP!publish(u)
      BY <1>10, <2>1, <2>11, <3>1 DEF HP!Report, HP!scanDidFinish
    <3>3. u.name = s => OldScan(scan)
      BY <2>3, <3>1 DEF OldScan
    <3> QED
      BY <2>9, <3>2, <3>3
  <2> QED
    BY <2>8, <2>10, <2>11
<1> QED
  BY <1>4, <1>5, <1>6, <1>7, <1>8, <1>9, <1>10 DEF HP!HubInternal, HP!JobStep

\* A hub at work.
LEMMA OldHubStep ==
    ASSUME Sound, Settling, NEW s \in Shas, Old(s), NEW x \in Hubs, HubStep(x)
    PROVE  Old(s)'
<1>0. UNCHANGED <<images, clients, check, jobs, next>> /\ HP!HubInternal(x)
  BY HubRequests DEF HubStep, coreVars
<1>1. /\ \A h \in Hubs : OldAt(h, s)' /\ (ListedAt(h, s) => ListedAt(h, s)')
      /\ \A u \in DOMAIN updates' : u.name = s => NoFailure(u.results)
  BY <1>0, OldHubWorks
<1>2. /\ FoundScan(s)' /\ \A h \in Hubs : ToldBy(h, s) => ToldBy(h, s)'
      /\ Stat(s)' = Stat(s) /\ Jobs(s)' = Jobs(s) /\ Hand(s)' = Hand(s)
  BY <1>0, OldStays, SameViews
<1>3. Rests(s)'
  BY <1>0, <1>1, <1>2 DEF Old, Rests
<1> QED
  BY <1>1, <1>2, <1>3 DEF Old

\* Another image is handed out.
LEMMA OldHandOut ==
    ASSUME Sound, NEW s \in Shas, Old(s), HandOut
    PROVE  Old(s)'
<1>1. UNCHANGED <<clients, remote, timer, todo, hasFetched, answer, updates, check>>
  BY DEF HandOut, PeekNext, NoHubAvailable, AssignImage, Reply, StartCore, StartHub, hubVars,
         Hub!StartScanClient, Hub!timerVars
<1>2. FoundScan(s)' /\ \A h \in Hubs : ToldBy(h, s) => ToldBy(h, s)'
  BY <1>1, OldStays
<1>3. Hand(s) = Idle /\ Stat(s) \notin {"InQueue", "RunningScanClient"} /\ Jobs(s) = {}
  BY DEF Old, Rests
<1>4. ASSUME UNCHANGED scans, Stat(s)' = Stat(s), Jobs(s)' = Jobs(s), Hand(s)' = Idle
      PROVE  Old(s)'
  <2>1. \A h \in Hubs : OldAt(h, s)' /\ (ListedAt(h, s) => ListedAt(h, s)')
    BY <1>1, <1>4, OldStays
  <2>2. Rests(s)'
    BY <1>1, <1>4, OldStays
  <2> QED
    BY <1>2, <2>1, <2>2 DEF Old
<1>5. CASE PeekNext
  <2>1. PICK x \in Core!GetNextImage : next' = [at |-> "Assign", sha |-> x, left |-> clients]
    BY <1>5 DEF PeekNext
  <2>2. Stat(x) = "InQueue"
    BY <2>1 DEF Core!GetNextImage, Core!Peek, Sound, Parts, CP!ImagesInv, CP!QueueMatchesStatus,
           CP!InStatus, CP!Known, Stat
  <2>3. Hand(s)' = Idle
    BY <1>3, <2>1, <2>2 DEF Hand
  <2>4. UNCHANGED <<scans, images, jobs>>
    BY <1>5 DEF PeekNext, coreVars, hubVars
  <2> QED
    BY <1>4, <2>3, <2>4, SameViews
<1>6. next.at # "Idle" => next.sha # s
  BY <1>3 DEF Hand, Idle
<1>7. CASE NoHubAvailable \/ \E h \in Hubs : AssignImage(h)
  <2>1. UNCHANGED <<scans, images, jobs>> /\ next.at = "Assign" /\ (next' = Idle \/ next'.sha = next.sha)
    BY <1>7 DEF NoHubAvailable, AssignImage, coreVars, hubVars, Sound, PTypes, NextStates, Idle
  <2>2. Hand(s)' = Idle
    BY <1>6, <2>1 DEF Hand, Idle
  <2> QED
    BY <1>4, <2>1, <2>2, SameViews
<1>8. CASE Reply \/ StartCore \/ StartHub
  <2>1. PICK x \in Shas, h \in Hubs : x = next.sha /\ h = next.hub /\ x # s
    BY <1>6, <1>8 DEF Reply, StartCore, StartHub, Sound, PTypes, NextStates, Idle
  <2>2. Hand(s)' = Idle
    BY <1>8, <2>1 DEF Hand, Idle, Reply, StartCore, StartHub, Sound, PTypes, NextStates
  <2>3. CASE Reply
    <3>1. jobs' = BagAdd(jobs, Started(x, h)) /\ Started(x, h) \notin JobsOf(s)
      BY <2>1, <2>3 DEF Reply, Started, JobsOf
    <3>2. Jobs(s)' = Jobs(s)
      BY <3>1, BagParts DEF Jobs, JobsOf
    <3>3. UNCHANGED <<scans, images>>
      BY <2>3 DEF Reply, coreVars, hubVars
    <3> QED
      BY <1>4, <2>2, <3>2, <3>3, SameViews
  <2>4. CASE StartCore
    <3>1. UNCHANGED <<scans, jobs>>
      BY <2>4 DEF StartCore, hubVars
    <3>2. Stat(s)' = Stat(s)
      BY <2>1, <2>4, StartCoreStat
    <3> QED
      BY <1>4, <2>2, <3>1, <3>2, SameViews
  <2>5. CASE StartHub
    <3>1. UNCHANGED <<images, jobs>> /\ HP!StartScanClient(h, x)
      BY <2>1, <2>5, HubRequests DEF StartHub, coreVars
    <3>2. PICK scan : HP!SetScan(h, x, scan)
      BY <3>1 DEF HP!StartScanClient
    <3>3. \A g \in Hubs : /\ s \in HP!Names(g)' <=> s \in HP!Names(g)
                          /\ s \in HP!Names(g) => scans'[g][s] = scans[g][s]
      BY <2>1, <3>2, StageAfterSet
    <3>4. \A g \in Hubs : OldAt(g, s)' /\ (ListedAt(g, s) => ListedAt(g, s)')
      BY <1>1, <3>3 DEF Old, OldAt, ListedAt, HP!Summaries, HP!Located, HP!Answer, HP!ScanResults
    <3>5. Stat(s)' = Stat(s) /\ Jobs(s)' = Jobs(s)
      BY <3>1, SameViews
    <3>6. Rests(s)'
      BY <1>1, <2>2, <3>5, OldStays
    <3> QED
      BY <1>2, <3>4, <3>6 DEF Old
  <2> QED
    BY <1>8, <2>3, <2>4, <2>5
<1> QED
  BY <1>5, <1>7, <1>8 DEF HandOut

\* The client of another image uploads, posts, or is reported.
LEMMA OldJobStep ==
    ASSUME Sound, NEW s \in Shas, Old(s), NEW j \in DOMAIN jobs, FinishJob(j)
    PROVE  Old(s)'
<1>0. UNCHANGED <<clients, timer, todo, hasFetched, answer, updates, check, next>>
  BY DEF FinishJob, ClientUploads, ClientPosts, TellHub, TellCore, hubVars, Hub!Upload,
         Hub!FinishScanClient, Hub!timerVars
<1>1. j \in Job /\ j.sha \in Shas /\ j.hub \in Hubs /\ j.failed \in BOOLEAN
  BY DEF Sound, PTypes, Job
<1>2. j.sha # s
  BY JobThere, Zenon DEF Sound, Old, Rests
<1>3. FoundScan(s)' /\ \A h \in Hubs : ToldBy(h, s) => ToldBy(h, s)'
  BY <1>0, OldStays
<1>4. Hand(s)' = Idle
  BY <1>0, SameViews DEF Old, Rests
<1>5. Jobs(s)' = Jobs(s)
  <2>1. ASSUME NEW to \in Job, to.sha = j.sha, Move(j, to)
        PROVE  Jobs(s)' = Jobs(s)
    BY <1>1, <1>2, <2>1, JobsMoved
  <2>2. /\ [j EXCEPT !.at = "Uploaded"] \in Job
        /\ [j EXCEPT !.at = "HubTold"] \in Job
        /\ [j EXCEPT !.at = "Posted", !.failed = (j.at = "Started")] \in Job
    BY <1>1, Zenon DEF Job
  <2>3. /\ [j EXCEPT !.at = "Uploaded"].sha = j.sha
        /\ [j EXCEPT !.at = "HubTold"].sha = j.sha
        /\ [j EXCEPT !.at = "Posted", !.failed = (j.at = "Started")].sha = j.sha
    BY <1>1 DEF Job
  <2>4. CASE TellCore(j)
    <3>1. jobs' = BagRemove(jobs, j) /\ j \notin JobsOf(s)
      BY <1>2, <2>4 DEF TellCore, JobsOf
    <3> QED
      BY <3>1, BagParts DEF Jobs, JobsOf
  <2> QED
    BY <2>1, <2>2, <2>3, <2>4, Zenon DEF FinishJob, ClientUploads, ClientPosts, TellHub
<1>6. Stat(s)' = Stat(s)
  <2>1. UNCHANGED images \/ TellCore(j)
    BY DEF FinishJob, ClientUploads, ClientPosts, TellHub, coreVars
  <2> QED
    BY <1>1, <1>2, <2>1, SameViews, TellCoreStat
<1>7. Rests(s)'
  BY <1>0, <1>4, <1>5, <1>6, OldStays
<1>8. \A h \in Hubs : OldAt(h, s)' /\ (ListedAt(h, s) => ListedAt(h, s)')
  <2>1. CASE UNCHANGED <<scans, remote>>
    BY <1>0, <2>1, OldStays
  <2>2. CASE ClientUploads(j)
    <3>0. HP!Upload(j.hub, j.sha)
      BY <2>2, HubRequests DEF ClientUploads
    <3>1. HP!Upload(j.hub, j.sha) /\ UNCHANGED scans /\ DOMAIN remote = Hubs
      BY <3>0 DEF HP!Upload, Sound, Parts, HP!HInv, HP!RemoteInv
    <3>2. \A h \in Hubs : /\ s \in HP!Located(h)' <=> s \in HP!Located(h)
                          /\ s \in HP!Located(h) => remote'[h][s] = remote[h][s]
      BY <1>1, <1>2, <3>1 DEF HP!Upload, HP!Located
    <3>3. \A h \in Hubs : HP!Summaries(h, s)' = HP!Summaries(h, s)
      BY <3>2 DEF HP!Summaries
    <3> QED
      BY <1>0, <3>1, <3>2, <3>3 DEF Old, OldAt, ListedAt, HP!Names, HP!Answer, HP!ScanResults
  <2>3. CASE TellHub(j) /\ Hub!FinishScanClient(j.hub, j.sha, j.failed)
    <3>1. HP!FinishScanClient(j.hub, j.sha, j.failed) /\ UNCHANGED remote
      BY <2>3, HubRequests DEF HP!FinishScanClient
    <3>2. /\ DOMAIN scans = Hubs
          /\ \A g \in Hubs : scans[g] \in [HP!Names(g) -> HP!Scan]
      BY DEF Sound, Parts, HP!HInv, HP!ScansInv, HP!ScansTyped
    <3>3. UNCHANGED scans \/ \E v : scans' = [scans EXCEPT ![j.hub][j.sha].stage = v]
      BY <3>1, Zenon DEF HP!FinishScanClient
    <3>4. \A g \in Hubs : /\ HP!Names(g)' = HP!Names(g)
                          /\ s \in HP!Names(g) => scans'[g][s] = scans[g][s]
      BY <1>1, <1>2, <3>2, <3>3, Zenon DEF HP!Names
    <3> QED
      BY <1>0, <3>1, <3>4 DEF Old, OldAt, ListedAt, HP!Summaries, HP!Located, HP!Answer, HP!ScanResults
  <2> QED
    BY <2>1, <2>2, <2>3 DEF FinishJob, ClientPosts, TellHub, TellCore, hubVars
<1> QED
  BY <1>3, <1>7, <1>8 DEF Old

\* An update is passed on.
LEMMA OldPassOn ==
    ASSUME Sound, NEW s \in Shas, Old(s), NEW u \in DOMAIN updates, PassUpdateOn(u)
    PROVE  Old(s)'
<1>0. UNCHANGED <<scans, remote, timer, todo, hasFetched, answer, clients, check, jobs, next>>
  BY DEF PassUpdateOn, Hub!Deliver, Hub!timerVars
<1>1. /\ FoundScan(s)' /\ Jobs(s)' = Jobs(s) /\ Hand(s)' = Hand(s)
      /\ \A h \in Hubs : /\ OldAt(h, s)'
                         /\ ListedAt(h, s) => ListedAt(h, s)'
                         /\ ToldBy(h, s) => ToldBy(h, s)'
  BY <1>0, OldStays, SameViews
<1>2. u \in HP!Answer /\ u.name \in Shas /\ u.results \in HP!ScanResults
      /\ u.results \in CP!ScanResults
  BY DEF Sound, Parts, HP!HInv, HP!UpdatesInv, HP!Answer, HP!ScanResults, CP!ScanResults
<1>3. DOMAIN updates' \subseteq DOMAIN updates
  BY HubRequests, PublishedOrRead, JobBags, Zenon DEF PassUpdateOn
<1>4. /\ \A y : y # u.name => Stat(y)' = Stat(y)
      /\ Stat(u.name)' = CP!StatusAfter(CP!Outcome(u.results), Stat(u.name))
  BY <1>2, DidFinishStat DEF PassUpdateOn
<1>5. /\ Stat(s)' \in {"None", "Unknown", "RunningHubScan", "Complete"}
      /\ Stat(s)' # "None" => Stat(s) # "None"
  <2>1. CASE s # u.name
    BY <1>4, <2>1 DEF Old, Rests
  <2>2. CASE s = u.name
    <3>1. NoFailure(u.results)
      BY <2>2 DEF Old, Rests
    <3>2. CP!Outcome(u.results) \in {"Success", "InProgress"}
      BY <1>2, <3>1, GoodResults
    <3> QED
      BY <1>4, <2>2, <3>2, GoodOutcome DEF Old, Rests
  <2> QED
    BY <2>1, <2>2
<1>6. Rests(s)'
  BY <1>0, <1>1, <1>3, <1>5 DEF Old, Rests
<1> QED
  BY <1>1, <1>6 DEF Old

\* The unknown images are looked up: a scan that is listed is found.
LEMMA OldCheck ==
    ASSUME Sound, NEW s \in Shas, Old(s), CheckStep
    PROVE  Old(s)'
<1>0. UNCHANGED <<scans, remote, timer, todo, hasFetched, answer, updates, clients, jobs, next>>
  BY Zenon DEF CheckStep, CheckUnknown, Collected, CollectFrom, ApplyTo, hubVars
<1>1. /\ Jobs(s)' = Jobs(s) /\ Hand(s)' = Hand(s)
      /\ \A h \in Hubs : OldAt(h, s)' /\ (ListedAt(h, s) => ListedAt(h, s)')
  BY <1>0, OldStays, SameViews
<1>2. ASSUME UNCHANGED images
      PROVE  Rests(s)'
  <2>1. Stat(s)' = Stat(s)
    BY <1>2, SameViews
  <2> QED
    BY <1>0, <1>1, <2>1 DEF Old, Rests
<1>3. ASSUME Rests(s)', FoundScan(s)', \A h \in Hubs : ListedAt(h, s) /\ ToldBy(h, s) => ToldBy(h, s)'
      PROVE  Old(s)'
  BY <1>1, <1>3 DEF Old
<1>4. CASE CheckUnknown
  <2>1. /\ UNCHANGED images /\ check'.shas = Core!InStatus("Unknown") /\ DOMAIN check'.found = {}
        /\ check'.at = "Collect" /\ check'.left = clients
    BY <1>4 DEF CheckUnknown, coreVars
  <2>2. FoundScan(s)'
    BY <2>1 DEF FoundScan
  <2>3. \A h \in Hubs : ToldBy(h, s)'
    BY <2>1 DEF ToldBy, Checked, Core!InStatus, Core!Known, Stat, Old, Rests
  <2> QED
    BY <1>2, <1>3, <2>1, <2>2, <2>3
<1>5. ASSUME NEW h \in Hubs, CollectFrom(h)
      PROVE  Old(s)'
  <2>1. UNCHANGED images /\ check.at = "Collect"
    BY <1>5 DEF CollectFrom, coreVars
  <2>2. CASE check' = Idle
    <3>1. FoundScan(s)' /\ \A g \in Hubs : ToldBy(g, s)'
      BY <2>2 DEF FoundScan, ToldBy, Checked, Idle
    <3> QED
      BY <1>2, <1>3, <2>1, <3>1
  <2>3. CASE check' # Idle
    <3>0. HP!Names(h) = Hub!Names(h)
      BY DEF HP!Names, Hub!Names
    <3>1. PICK F : F = [n \in DOMAIN check.found \cup HP!Names(h) |->
                          IF n \in HP!Names(h) THEN scans[h][n] ELSE check.found[n]]
      BY Zenon
    <3>2. hasFetched[h] /\ check' = [check EXCEPT !.left = @ \ {h}, !.found = F]
      BY <1>5, <2>3, <3>0, <3>1 DEF CollectFrom
    <3>3. check \in [at : {"Collect"}, shas : SUBSET Shas, left : SUBSET Hubs, found : Found]
      BY <2>1 DEF Sound, PTypes, CheckStates, Idle
    <3>4. /\ check'.at = "Collect" /\ check'.shas = check.shas
          /\ check'.left = check.left \ {h} /\ check'.found = F
      BY <3>2, <3>3
    <3>5. s \in HP!Names(h) =>
            /\ OldScan(scans[h][s])
            /\ scans[h][s].stage = "Complete" => scans[h][s].results # NoResults
      BY DEF Old, OldAt, Sound, Parts, HP!HInv, HP!ScansInv, HP!Matches, HP!VerdictOf
    <3>6. FoundScan(s)'
      BY <2>1, <3>1, <3>4, <3>5 DEF Old, FoundScan
    <3>7. \A g \in Hubs : ListedAt(g, s) /\ ToldBy(g, s) => ToldBy(g, s)'
      BY <2>1, <3>1, <3>2, <3>4 DEF ListedAt, ToldBy, Checked
    <3> QED
      BY <1>2, <1>3, <2>1, <3>6, <3>7
  <2> QED
    BY <2>2, <2>3
<1>6. CASE Collected
  <2>1. /\ UNCHANGED images /\ check.at = "Collect" /\ check.left = {}
        /\ check'.at = "Apply" /\ check'.shas = check.shas /\ check'.found = check.found
    BY <1>6 DEF Collected, coreVars
  <2>2. FoundScan(s)'
    BY <2>1 DEF Old, FoundScan
  <2>3. \A h \in Hubs : ToldBy(h, s) => ToldBy(h, s)'
    BY <2>1 DEF ToldBy, Checked
  <2> QED
    BY <1>2, <1>3, <2>1, <2>2, <2>3
<1>7. ASSUME NEW x \in Shas, ApplyTo(x)
      PROVE  Old(s)'
  <2>1. check \in [at : {"Apply"}, shas : SUBSET Shas, found : Found] /\ x \in check.shas
    BY <1>7 DEF ApplyTo, Sound, PTypes, CheckStates, Idle
  <2>2. check' = Idle \/ check' = [check EXCEPT !.shas = @ \ {x}]
    BY <1>7 DEF ApplyTo
  <2>3. check' = Idle \/ (/\ check'.at = "Apply" /\ check'.found = check.found
                          /\ check'.shas = check.shas \ {x})
    BY <2>1, <2>2
  <2>4. FoundScan(s)'
    BY <2>1, <2>3 DEF Old, FoundScan, Idle
  <2>5. \A h \in Hubs : ToldBy(h, s) => ToldBy(h, s)'
    BY <2>1, <2>3 DEF ToldBy, Checked, Idle
  <2>6. x \in DOMAIN check.found => check.found[x] \in HP!Scan
    BY <2>1 DEF Found
  <2>7. \A scan \in HP!Scan : scan.results \in HP!ScanResults \cup {NoResults}
    BY DEF HP!Scan
  <2>8. HP!ScanResults = CP!ScanResults
    BY DEF HP!ScanResults, CP!ScanResults
  <2>9. CASE UNCHANGED coreVars
    BY <1>2, <1>3, <2>4, <2>5, <2>9 DEF coreVars
  <2>10. CASE s # x
    <3>1. UNCHANGED coreVars \/ \E r \in CP!ScanResults \cup {NoResults} : Core!scanDidFinish(x, r)
      BY <1>7, <2>6, <2>7, <2>8 DEF ApplyTo, Resolve
    <3>2. Stat(s)' = Stat(s)
      BY <2>10, <3>1, DidFinishStat, SameViews DEF coreVars
    <3>3. Rests(s)'
      BY <1>0, <1>1, <3>2 DEF Old, Rests
    <3> QED
      BY <1>3, <2>4, <2>5, <3>3
  <2>11. CASE s = x /\ ~ UNCHANGED coreVars
    <3>1. s \in DOMAIN check.found
      BY <2>1, <2>11 DEF Old, ToldBy, Checked
    <3>2. /\ OldScan(check.found[s])
          /\ check.found[s].stage = "Complete" => check.found[s].results # NoResults
      BY <2>1, <3>1 DEF Old, FoundScan
    <3>3. check.found[s].stage = "Complete" /\ Core!scanDidFinish(s, check.found[s].results)
      BY <1>7, <2>11, <3>1, <3>2 DEF ApplyTo, Resolve, OldScan
    <3>4. PICK r : r = check.found[s].results
      OBVIOUS
    <3>5. r \in HP!ScanResults /\ r \in CP!ScanResults /\ NoFailure(r)
      BY <2>6, <2>7, <2>8, <2>11, <3>1, <3>2, <3>3, <3>4 DEF OldScan
    <3>6. CP!Outcome(r) \in {"Success", "InProgress"}
      BY <3>5, GoodResults
    <3>7. Stat(s)' = CP!StatusAfter(CP!Outcome(r), Stat(s))
      BY <3>3, <3>4, <3>5, DidFinishStat
    <3>8. /\ Stat(s)' \in {"None", "Unknown", "RunningHubScan", "Complete"}
          /\ Stat(s)' # "None" => Stat(s) # "None"
      BY <3>6, <3>7, GoodOutcome DEF Old, Rests
    <3>9. Rests(s)'
      BY <1>0, <1>1, <3>8 DEF Old, Rests
    <3> QED
      BY <1>3, <2>4, <2>5, <3>9
  <2> QED
    BY <2>9, <2>10, <2>11
<1> QED
  BY <1>4, <1>5, <1>6, <1>7 DEF CheckStep

\* Hubs are set up, and then images are posted.
LEMMA OldSetUp ==
    ASSUME Sound, HubsFirst, NEW s \in Shas, Old(s),
           \/ \E h \in Hubs : CreateHub(h)
           \/ \E image \in Posted : AddImage(image)
           \/ UNCHANGED vars
    PROVE  Old(s)'
<1>0. UNCHANGED <<scans, remote, timer, todo, hasFetched, answer, updates, jobs, next, check>>
  BY DEF CreateHub, AddImage, hubVars, vars
<1>1. /\ FoundScan(s)' /\ Jobs(s)' = Jobs(s) /\ Hand(s)' = Hand(s)
      /\ \A h \in Hubs : /\ OldAt(h, s)'
                         /\ ListedAt(h, s) => ListedAt(h, s)'
                         /\ ToldBy(h, s) => ToldBy(h, s)'
  BY <1>0, OldStays, SameViews
<1>2. /\ Stat(s)' \in {"None", "Unknown", "RunningHubScan", "Complete"}
      /\ Stat(s)' # "None" => clients' = Hubs
  <2>1. ASSUME NEW h \in Hubs, CreateHub(h)
        PROVE  /\ Stat(s)' = Stat(s)
               /\ clients = Hubs => clients' = Hubs
    BY <2>1, SameViews DEF CreateHub, coreVars
  <2>2. ASSUME NEW image \in Posted, AddImage(image)
        PROVE  clients' = Hubs /\ Stat(s)' \in {Stat(s), "Unknown"}
    BY <2>2, AddImageStat DEF AddImage
  <2>3. CASE UNCHANGED vars
    BY <2>3, SameViews DEF vars, coreVars, Old, Rests
  <2> QED
    BY <2>1, <2>2, <2>3 DEF Old, Rests
<1>3. Rests(s)'
  BY <1>0, <1>1, <1>2 DEF Old, Rests
<1> QED
  BY <1>1, <1>3 DEF Old

\* An image of which there was a good scan stays one, unless perceptor restarts.
LEMMA OldStep ==
    ASSUME Settling, Sound, NEW s \in Shas, Old(s), [Next]_vars, ~Restart
    PROVE  Old(s)'
<1>1. HubsFirst
  BY DEF Settling
<1>2. ASSUME NEW j \in Job, FinishJob(j)
      PROVE  Old(s)'
  BY <1>2, OldJobStep DEF FinishJob
<1> QED
  BY <1>1, <1>2, OldHubStep, OldHandOut, OldPassOn, OldCheck, OldSetUp DEF Next

-----------------------------------------------------------------------------
(***************************************************************************)
(* The theorems.  They are about perceptor from one start to the next one. *)
(* A restart forgets which images have a scan client that still runs, and  *)
(* then an image may well be handed out again.                             *)
(***************************************************************************)

\* At the start, an image is one of which there is a scan, or it is not.
LEMMA DispatchAtStart ==
    ASSUME OldScansSucceed, Init
    PROVE  DispatchInv
<1>1. /\ DOMAIN images = {} /\ jobs = [j \in {} |-> 0] /\ updates = [u \in {} |-> 0]
      /\ next = Idle /\ check = Idle /\ clients = {} /\ restarts = 0
      /\ remote \in RemoteInits
      /\ timer = [h \in Hubs |-> [t \in HP!Timers |-> "Paused"]]
      /\ todo = [h \in Hubs |-> [t \in HP!Timers |-> {}]]
      /\ answer = [h \in Hubs |-> [t \in HP!Timers |-> NoAnswer]]
      /\ hasFetched = [h \in Hubs |-> FALSE]
      /\ \A h \in Hubs : HP!Names(h) = {}
  BY DEF Init, Core!CoreInit, Hub!HubInit, Hub!NewHub, HP!Names, HP!Timers, Hub!Timers
<1>2. NoAnswer \notin HP!Answer
  BY HubAssumptions
<1>3. ASSUME NEW s \in Shas
      PROVE  /\ Stat(s) = "None" /\ Jobs(s) = {} /\ Updates(s) = {} /\ Hand(s) = Idle
             /\ ~Checked(s) /\ \A h \in Hubs : StageAt(h, s) = "None"
             /\ Idle.at = "Idle"
  BY <1>1 DEF Stat, Jobs, Updates, Part, Hand, Idle, Checked, StageAt
<1>4. ASSUME NEW s \in Shas, \A h \in Hubs : s \notin HP!Located(h)
      PROVE  Fresh(s)
  <2>1. \A h \in Hubs : Stages(s)[h] = "None"
    BY <1>3 DEF Stages
  <2>2. Life(s)
    BY <1>3, <2>1 DEF Life, LifeOf
  <2>3. \A h \in Hubs : KnownAt(h, s)
    BY <1>1, <1>2, <1>3, <1>4 DEF KnownAt, HP!Timers
  <2> QED
    BY <1>3, <2>2, <2>3 DEF Fresh, NotFound
<1>5. ASSUME NEW s \in Shas, NEW g \in Hubs, s \in HP!Located(g)
      PROVE  Settling /\ Old(s)
  <2>1. /\ Settling
        /\ \A h \in Hubs : "Failure" \notin HP!Summaries(h, s)
    BY <1>1, <1>5 DEF OldScansSucceed, HP!Summaries, HP!Located
  <2>2. Rests(s) /\ FoundScan(s)
    BY <1>1, <1>3 DEF Rests, FoundScan
  <2>3. \A h \in Hubs : OldAt(h, s)
    BY <1>1, <1>2, <2>1 DEF OldAt, HP!Ticking, HP!Timers
  <2>4. ListedAt(g, s) /\ ToldBy(g, s)
    BY <1>1, <1>3, <1>5 DEF ListedAt, ToldBy, HP!Timers
  <2> QED
    BY <2>1, <2>2, <2>3, <2>4 DEF Old
<1> QED
  BY <1>1, <1>4, <1>5 DEF DispatchInv

\* Every step keeps the invariant; there is no restart.
LEMMA DispatchStep ==
    ASSUME Prompt, MaxRestarts = 0, Sound, DispatchInv, [Next]_vars
    PROVE  DispatchInv' /\ ~Restart
<1>1. ~Restart
  BY DEF Restart, DispatchInv
<1>2. restarts' = 0
  BY <1>1, Zenon DEF DispatchInv, Next, HandOut, CheckStep, FinishJob, vars, PeekNext, NoHubAvailable,
         Reply, StartCore, StartHub, AssignImage, CheckUnknown, Collected, CollectFrom, ApplyTo,
         ClientUploads, ClientPosts, TellHub, TellCore, CreateHub, AddImage, HubStep,
         PassUpdateOn
<1>3. \A s \in Shas : Fresh(s)' \/ (Settling /\ Old(s)')
  BY <1>1, FreshStep, OldStep DEF DispatchInv
<1> QED
  BY <1>1, <1>2, <1>3 DEF DispatchInv, Settling

\* In every state, for each image, the clients that run for it, the updates on
\* their way, the stages of its scan and the goroutine that hands images out are
\* where its status says, or it has a scan that is about to be found (core model,
\* hub manager, PostFinishScan and the goroutines of perceptor together).
THEOREM DispatchInvariance ==
    ASSUME Prompt, MaxRestarts = 0, OldScansSucceed
    PROVE  Spec => [](Sound /\ DispatchInv)
<1>1. Init => DispatchInv
  BY DispatchAtStart
<1>2. Sound /\ DispatchInv /\ [Next]_vars => DispatchInv'
  BY DispatchStep
<1>3. Parts /\ PTypes /\ HubsInv => Sound
  BY DEF Sound
<1> QED
  BY <1>1, <1>2, <1>3, SlotInvariance, PTL DEF Spec

\* An image has one job, if it has any, and a client that runs has its slot, or
\* will have it as soon as its start is recorded.
LEMMA OneJobEach ==
    ASSUME Sound, DispatchInv, NEW j \in DOMAIN jobs
    PROVE  /\ jobs[j] = 1 /\ j \in Job /\ j.sha \in Shas /\ j.hub \in Hubs
           /\ \A i \in DOMAIN jobs : i.sha = j.sha => i = j
           /\ j.at \in {"Started", "Uploaded"} =>
                \/ j.sha \in HP!Clients(j.hub)
                \/ Starting /\ next.hub = j.hub /\ next.sha = j.sha
<1>1. /\ j \in Job /\ j.sha \in Shas /\ j.hub \in Hubs
      /\ \A i \in DOMAIN jobs : <<i, jobs[i]>> \in Jobs(i.sha)
  BY JobThere DEF Sound, PTypes, Job
<1>2. PICK s \in Shas : s = j.sha
  BY <1>1
<1>3. Jobs(s) # {} /\ Fresh(s)
  BY <1>1, <1>2, Zenon DEF DispatchInv, Old, Rests
<1>4. /\ LifeOf(s, Stat(s), Jobs(s), Updates(s), Stages(s), Hand(s))
      /\ Stat(s) \in {"None", "Unknown", "InQueue", "RunningScanClient", "RunningHubScan", "Complete"}
  BY <1>3, StatType DEF Fresh, Life, CP!ScanStatuses
<1>5. \/ Hand(s).at = "StartCore" /\ Jobs(s) = {<<Started(s, Hand(s).hub), 1>>}
      \/ \E i \in JobsOf(s) : Jobs(s) = {<<i, 1>>} /\ ClientRuns(s, i, Updates(s), Stages(s), Hand(s))
  <2>1. Stat(s) \in {"InQueue", "RunningScanClient"}
    BY <1>3, <1>4 DEF LifeOf
  <2>2. CASE Stat(s) = "InQueue"
    BY <1>3, <1>4, <2>2 DEF LifeOf
  <2>3. CASE Stat(s) = "RunningScanClient"
    BY <1>4, <2>3 DEF LifeOf
  <2> QED
    BY <2>1, <2>2, <2>3
<1>6. /\ Jobs(s) = {<<j, 1>>} /\ jobs[j] = 1
      /\ \/ Hand(s).at = "StartCore" /\ j = Started(s, Hand(s).hub)
         \/ ClientRuns(s, j, Updates(s), Stages(s), Hand(s))
  <2>1. <<j, jobs[j]>> \in Jobs(s)
    BY <1>1, <1>2
  <2>2. CASE Hand(s).at = "StartCore" /\ Jobs(s) = {<<Started(s, Hand(s).hub), 1>>}
    BY <2>1, <2>2
  <2>3. ASSUME NEW i \in JobsOf(s), Jobs(s) = {<<i, 1>>},
               ClientRuns(s, i, Updates(s), Stages(s), Hand(s))
        PROVE  /\ Jobs(s) = {<<j, 1>>} /\ jobs[j] = 1
               /\ ClientRuns(s, j, Updates(s), Stages(s), Hand(s))
    <3>1. i = j /\ jobs[j] = 1
      BY <2>1, <2>3
    <3> QED
      BY <2>3, <3>1
  <2> QED
    BY <1>5, <2>2, <2>3
<1>7. ASSUME NEW i \in DOMAIN jobs, i.sha = j.sha
      PROVE  i = j
  <2>1. <<i, jobs[i]>> \in Jobs(s)
    BY <1>1, <1>2, <1>7
  <2> QED
    BY <1>6, <2>1
<1>8. ASSUME j.at \in {"Started", "Uploaded"}
      PROVE  \/ j.sha \in HP!Clients(j.hub)
             \/ Starting /\ next.hub = j.hub /\ next.sha = j.sha
  <2>1. Hand(s).at \in {"StartCore", "StartHub"} => Hand(s) = next /\ next.sha = s
    BY DEF Hand, Idle
  <2>2. CASE Hand(s).at = "StartCore" /\ j = Started(s, Hand(s).hub)
    BY <1>2, <2>1, <2>2 DEF Starting, Started
  <2>3. CASE ClientRuns(s, j, Updates(s), Stages(s), Hand(s))
    <3>1. CASE Hand(s).at = "StartHub"
      <4>1. j = Started(s, Hand(s).hub)
        BY <2>3, <3>1 DEF ClientRuns
      <4> QED
        BY <1>2, <2>1, <3>1, <4>1 DEF Starting, Started
    <3>2. CASE Hand(s).at # "StartHub"
      <4>1. StageAt(j.hub, s) = "ScanClient"
        BY <1>1, <1>8, <2>3, <3>2 DEF ClientRuns, Stages
      <4> QED
        BY <1>2, <4>1 DEF StageAt, HP!Clients, HP!InStage
    <3> QED
      BY <3>1, <3>2
  <2> QED
    BY <1>6, <2>2, <2>3
<1> QED
  BY <1>1, <1>6, <1>7, <1>8

\* A job at work is counted once.
LEMMA CountedOnce ==
    ASSUME Sound, DispatchInv, NEW S \in SUBSET DOMAIN jobs
    PROVE  AtWork(S) = Cardinality({<<j, 1>> : j \in {i \in S : i.at \in {"Started", "Uploaded"}}})
<1>1. \A j \in S : {j} \X (1 .. jobs[j]) = {<<j, 1>>}
  <2>1. \A j \in S : jobs[j] = 1
    BY OneJobEach
  <2>2. 1 .. 1 = {1}
    OBVIOUS
  <2> QED
    BY <2>1, <2>2
<1>2. PICK W : W = {j \in S : j.at \in {"Started", "Uploaded"}}
  BY Zenon
<1>3. UNION {{j} \X (1 .. jobs[j]) : j \in W} = {<<j, 1>> : j \in W}
  BY <1>1, <1>2
<1> QED
  BY <1>2, <1>3, Zenon DEF AtWork

\* As long as perceptor is not restarted, and with prompt steps, no image is
\* handed out to a second scan client while the first one is at work (getNextImage,
\* PostFinishScan, and the routine that passes the updates of the hubs on).
THEOREM NoDoubleHandOutCorrect ==
    ASSUME Prompt, MaxRestarts = 0, OldScansSucceed
    PROVE  Spec => []NoDoubleHandOut
<1>1. ASSUME Sound, DispatchInv, NEW s \in Shas
      PROVE  AtWork({j \in DOMAIN jobs : j.sha = s}) <= 1
  <2>1. PICK S \in SUBSET DOMAIN jobs : S = {j \in DOMAIN jobs : j.sha = s}
    BY Zenon
  <2>2. PICK W : W = {<<j, 1>> : j \in {i \in S : i.at \in {"Started", "Uploaded"}}}
    BY Zenon
  <2>3. AtWork(S) = Cardinality(W)
    BY <1>1, <2>2, CountedOnce
  <2>4. W = {} \/ \E x : W = {x}
    BY <1>1, <2>1, <2>2, OneJobEach
  <2>5. Cardinality(W) <= 1
    BY <2>4, FS_EmptySet, FS_Singleton
  <2> QED
    BY <2>1, <2>3, <2>5
<1>2. Sound /\ DispatchInv => NoDoubleHandOut
  BY <1>1 DEF NoDoubleHandOut
<1> QED
  BY <1>2, DispatchInvariance, PTL

\* A set that a function maps one to one into a finite set has no more elements.
LEMMA InjectedSizes ==
    ASSUME NEW W, NEW T, IsFiniteSet(T), NEW g \in [W -> T],
           \A v, w \in W : g[v] = g[w] => v = w
    PROVE  IsFiniteSet(W) /\ Cardinality(W) <= Cardinality(T)
<1>1. ASSUME NEW w \in W
      PROVE  IsFiniteSet(W)
  <2>1. PICK q \in Seq(T) : \A t \in T : \E n \in 1 .. Len(q) : q[n] = t
    BY DEF IsFiniteSet
  <2>2. PICK r : r = [n \in 1 .. Len(q) |->
                         IF \E v \in W : g[v] = q[n] THEN CHOOSE v \in W : g[v] = q[n] ELSE w]
    BY Zenon
  <2>3. Len(q) \in Nat /\ \A n \in 1 .. Len(q) : r[n] \in W
    BY <2>1, <2>2
  <2>4. r \in Seq(W) /\ Len(r) = Len(q)
    BY <2>2, <2>3
  <2>5. \A v \in W : \E n \in 1 .. Len(q) : r[n] = v
    BY <2>1, <2>2
  <2> QED
    BY <2>4, <2>5 DEF IsFiniteSet
<1>2. IsFiniteSet(W)
  BY <1>1, FS_EmptySet
<1>3. Cardinality(W) \in Nat /\ Cardinality(T) \in Nat
  BY <1>2, FS_CardinalityType
<1>4. ~ Cardinality(T) < Cardinality(W)
  BY <1>2, FS_PigeonHole
<1> QED
  BY <1>2, <1>3, <1>4

\* And no hub has more scan clients at work than it takes at a time: each of them
\* has its slot, or it is the one for which there is room (AssignImage of the hub
\* manager, getNextImage and PostFinishScan of perceptor).
THEOREM JobsWithinLimitCorrect ==
    ASSUME IsFiniteSet(Shas), Prompt, MaxRestarts = 0, OldScansSucceed
    PROVE  Spec => []JobsWithinLimit
<1>1. ASSUME Sound, DispatchInv, LimitInv, NEW h \in Hubs
      PROVE  AtWork({j \in DOMAIN jobs : j.hub = h}) <= Limit[h]
  <2>1. PICK S \in SUBSET DOMAIN jobs : S = {j \in DOMAIN jobs : j.hub = h}
    BY Zenon
  <2>2. PICK W : W = {<<j, 1>> : j \in {i \in S : i.at \in {"Started", "Uploaded"}}}
    BY Zenon
  <2>3. AtWork(S) = Cardinality(W)
    BY <1>1, <2>2, CountedOnce
  <2>4. PICK C : C = HP!Clients(h)
    OBVIOUS
  <2>5. PICK T : T = IF Starting /\ next.hub = h THEN C \cup {next.sha} ELSE C
    BY Zenon
  <2>6. \A w \in W : w[1].sha \in T
    BY <1>1, <2>1, <2>2, <2>4, <2>5, OneJobEach
  <2>7. \A v, w \in W : v[1].sha = w[1].sha => v = w
    BY <1>1, <2>1, <2>2, OneJobEach
  <2>8. PICK g \in [W -> T] : \A v, w \in W : g[v] = g[w] => v = w
    <3>1. PICK g : g = [w \in W |-> w[1].sha]
      BY Zenon
    <3> QED
      BY <2>6, <2>7, <3>1
  <2>9. IsFiniteSet(C) /\ Cardinality(C) \in Nat /\ Limit[h] \in Nat
    BY <1>1, <2>4, ClientsFinite, SubsetSizes, LimitAssumption DEF Sound
  <2>10. IsFiniteSet(T) /\ Cardinality(T) \in Nat /\ Cardinality(T) <= Limit[h]
    <3>1. CASE Starting /\ next.hub = h
      <4>1. Cardinality(C) < Limit[h]
        BY <1>1, <2>4, <3>1 DEF LimitInv, Room, Handing, Starting
      <4>2. IsFiniteSet(T) /\ (Cardinality(T) = Cardinality(C) \/ Cardinality(T) = Cardinality(C) + 1)
        BY <2>5, <2>9, <3>1, FS_AddElement, Zenon
      <4> QED
        BY <2>9, <4>1, <4>2
    <3>2. CASE ~ (Starting /\ next.hub = h)
      BY <1>1, <2>4, <2>5, <2>9, <3>2 DEF LimitInv, Within
    <3> QED
      BY <3>1, <3>2
  <2>11. IsFiniteSet(W) /\ Cardinality(W) <= Cardinality(T)
    BY <2>8, <2>10, InjectedSizes
  <2>12. Cardinality(W) \in Nat
    BY <2>11, FS_CardinalityType
  <2> QED
    BY <2>1, <2>3, <2>9, <2>10, <2>11, <2>12
<1>2. Sound /\ DispatchInv /\ LimitInv => JobsWithinLimit
  BY <1>1 DEF JobsWithinLimit
<1>3. Init => LimitInv
  BY LimitAtStart
<1>4. Sound /\ LimitInv /\ [Next]_vars => LimitInv'
  BY LimitStep DEF Sound
<1> QED
  BY <1>2, <1>3, <1>4, DispatchInvariance, PTL DEF Spec

\* If the hubs are set up before there are images, and no scan fails, an image is
\* queued only when there is no successful scan of it (checkForUnknownScans,
\* getScanResultsForImages of the hub manager, didFetchScans and didFetchScanResults
\* of the hubs).
THEOREM OldScansRecognisedCorrect ==
    ASSUME Prompt, MaxRestarts = 0, OldScansSucceed
    PROVE  Spec => OldScansRecognised
<1>1. ASSUME Sound, DispatchInv, [Next]_vars, NEW s \in Core!InStatus("Unknown"),
             s \in Core!InStatus("InQueue")', NEW h \in Hubs
      PROVE  "Success" \notin Hub!Summaries(h, s)
  <2>1. Stat(s) = "Unknown" /\ s \in Shas /\ Stat(s)' = "InQueue"
    BY <1>1, StatType DEF Core!InStatus, Core!Known, CP!Known, Stat
  <2>2. ~ Old(s)' /\ ~Restart
    BY <1>1, <2>1, DispatchStep DEF Old, Rests
  <2>3. Fresh(s)
    BY <1>1, <2>1, <2>2, OldStep DEF DispatchInv
  <2>4. Stages(s)[h] = "None"
    BY <2>1, <2>3 DEF Fresh, Life, LifeOf
  <2>5. s \notin HP!Located(h)
    BY <2>3, <2>4 DEF Fresh, KnownAt, Stages
  <2> QED
    BY <2>5 DEF Hub!Summaries, Hub!Located, HP!Located
<1>2. Sound /\ DispatchInv /\ [Next]_vars =>
        [\A s \in Core!InStatus("Unknown") :
          s \in Core!InStatus("InQueue")' =>
              \A h \in Hubs : "Success" \notin Hub!Summaries(h, s)]_vars
  BY <1>1
<1> QED
  BY <1>2, DispatchInvariance, PTL DEF Spec, OldScansRecognised
=============================================================================
