----------------------------- MODULE Perceptor -----------------------------
(***************************************************************************)
(* pkg/core: perceptor ties the core model, the hubs and the scanners      *)
(* together.  The core model and each hub are actors; what joins them are  *)
(* goroutines that call one after the other and do not hold any lock in    *)
(* between:                                                                *)
(*   - one hands the next image out to a scanner that asks for it,         *)
(*   - one for each finished scan client tells its hub, then the core,     *)
(*   - one passes the updates of the hubs on to the core,                  *)
(*   - one looks the unknown images up in the scans of all hubs.           *)
(* The scanners are other processes; they live on when perceptor restarts. *)
(***************************************************************************)
EXTENDS ScanTypes, BagsExt, Bags

CONSTANTS Hubs, NoAnswer, RemoteInits, Verdicts, HubFails, MaxUpdates,  \* see Hub
          PodNames, Priorities, ImageLists, PodLists,                   \* see CoreModel
          Limit,         \* hub -> ConcurrentScanLimit
          Posted,        \* the images clients post
          ClientFails,   \* may a scan client fail?
          HubsFirst,     \* are the hubs set up before the first image is posted?
          Prompt,        \* see Prompt steps, below
          MaxRestarts,   \* bound on the restarts of perceptor
          MaxJobs        \* bound on the scan clients that run at a time

VARIABLES images, queue, pods,                                 \* see CoreModel
          status, timer, pauseQueued, todo, answer,
          scans, hasFetched, updates, remote,                  \* see Hub
          clients,   \* the hub manager's hubs
          next,      \* the goroutine that hands images out
          check,     \* the goroutine that looks unknown images up
          jobs,      \* bag of the scan clients and of the posts that finish them
          restarts   \* how often perceptor was restarted

Core == INSTANCE CoreModel
Hub == INSTANCE Hub

coreVars == <<images, queue, pods>>
hubVars == <<status, timer, pauseQueued, todo, answer, scans, hasFetched, updates, remote>>
vars == <<coreVars, hubVars, clients, next, check, jobs, restarts>>

ASSUME LimitAssumption == Limit \in [Hubs -> Nat]
ASSUME PostedAssumption == Posted \subseteq Core!Image

\* What the parts assume of their constants.
ASSUME PartsAssumption ==
    /\ NoAnswer \notin Hub!Answer
    /\ Verdicts \subseteq {"Success", "Failure"}
    /\ \A r \in RemoteInits : DOMAIN r = Hubs /\ \A h \in Hubs : DOMAIN r[h] \subseteq Shas
    /\ MaxUpdates \in Nat \ {0}
    /\ Priorities \subseteq Int /\ -1 \in Priorities
    /\ \A P \in (SUBSET Priorities) \ {{}} : \E p \in P : \A x \in P : x <= p
    /\ ImageLists \subseteq SUBSET Core!Image /\ PodLists \subseteq SUBSET Core!Pod

\* A scan client, and then the goroutine of PostFinishScan.
Job == [sha : Shas, hub : Hubs, failed : BOOLEAN,
        at : {"Started", "Uploaded", "Posted", "HubTold"}]

Idle == [at |-> "Idle"]

-----------------------------------------------------------------------------
(***************************************************************************)
(* Prompt steps.  The gap between two calls of one goroutine is short, but *)
(* nothing in the code bounds it.  With Prompt, a scan client does nothing *)
(* before the goroutine that handed its image out has made its two calls,  *)
(* and no update about an image is passed on between the two calls of the  *)
(* goroutine that finishes its scan client.  Without, anything goes.       *)
(***************************************************************************)
HandedOut(s) == ~ (next.at \in {"StartCore", "StartHub"} /\ next.sha = s)
FinishKnown(s) == ~ \E j \in DOMAIN jobs : j.sha = s /\ j.at = "HubTold"

-----------------------------------------------------------------------------
(* Handing out the next image: Perceptor.getNextImage.                     *)

\* Looking at the front of the queue does not take the image from it.
PeekNext ==
    /\ next.at = "Idle"
    /\ \E s \in Core!GetNextImage :
          next' = [at |-> "Assign", sha |-> s, left |-> clients]
    /\ UNCHANGED <<coreVars, hubVars, clients, check, jobs, restarts>>

\* Mutant of HasRoom: one more.
HasAlmostRoom(h) == Cardinality(Hub!InProgressScans(h)) <= Limit[h]

HasRoom(h) == Cardinality(Hub!InProgressScans(h)) < Limit[h]

\* AssignImage takes the first hub, in any order, below its limit.
AssignImage(h) ==
    /\ next.at = "Assign" /\ h \in next.left
    /\ next' = IF HasRoom(h)
               THEN [at |-> "Reply", sha |-> next.sha, hub |-> h]
               ELSE [next EXCEPT !.left = @ \ {h}]
    /\ UNCHANGED <<coreVars, hubVars, clients, check, jobs, restarts>>

NoHubAvailable ==
    /\ next.at = "Assign" /\ next.left = {}
    /\ next' = Idle
    /\ UNCHANGED <<coreVars, hubVars, clients, check, jobs, restarts>>

\* The scanner gets its answer before anything is recorded.
Reply ==
    /\ next.at = "Reply"
    /\ BagCardinality(jobs) < MaxJobs
    /\ jobs' = BagAdd(jobs, [sha |-> next.sha, hub |-> next.hub, failed |-> FALSE, at |-> "Started"])
    /\ next' = [next EXCEPT !.at = "StartCore"]
    /\ UNCHANGED <<coreVars, hubVars, clients, check, restarts>>

\* An error that the core returns is dropped.
StartCore ==
    /\ next.at = "StartCore"
    /\ Core!startScanClient(next.sha)
    /\ next' = [next EXCEPT !.at = "StartHub"]
    /\ UNCHANGED <<hubVars, clients, check, jobs, restarts>>

StartHub ==
    /\ next.at = "StartHub"
    /\ Hub!StartScanClient(next.hub, next.sha)
    /\ next' = Idle
    /\ UNCHANGED <<coreVars, clients, check, jobs, restarts>>

-----------------------------------------------------------------------------
(* Scan clients (external) and Perceptor.PostFinishScan.                   *)

Move(j, to) == jobs' = BagAdd(BagRemove(jobs, j), to)

ClientUploads(j) ==
    /\ j.at = "Started" /\ (Prompt => HandedOut(j.sha))
    /\ Hub!Upload(j.hub, j.sha)
    /\ Move(j, [j EXCEPT !.at = "Uploaded"])
    /\ UNCHANGED <<coreVars, clients, next, check, restarts>>

\* A client that did not upload its scan posts an error.
ClientPosts(j) ==
    /\ j.at \in {"Started", "Uploaded"} /\ (Prompt => HandedOut(j.sha))
    /\ j.at = "Started" => ClientFails
    /\ Move(j, [j EXCEPT !.at = "Posted", !.failed = (j.at = "Started")])
    /\ UNCHANGED <<coreVars, hubVars, clients, next, check, restarts>>

\* Mutant of TellHub: a client that failed is not reported.
TellHubOfSuccess(j) ==
    /\ j.at = "Posted"
    /\ \/ j.hub \in clients /\ ~j.failed /\ Hub!FinishScanClient(j.hub, j.sha, FALSE)
       \/ (j.hub \notin clients \/ j.failed) /\ UNCHANGED hubVars
    /\ Move(j, [j EXCEPT !.at = "HubTold"])
    /\ UNCHANGED <<coreVars, clients, next, check, restarts>>

TellHub(j) ==
    /\ j.at = "Posted"
    /\ \/ j.hub \in clients /\ Hub!FinishScanClient(j.hub, j.sha, j.failed)
       \/ j.hub \notin clients /\ UNCHANGED hubVars
    /\ Move(j, [j EXCEPT !.at = "HubTold"])
    /\ UNCHANGED <<coreVars, clients, next, check, restarts>>

TellCore(j) ==
    /\ j.at = "HubTold"
    /\ Core!finishRunningScanClient(j.sha, j.failed)
    /\ jobs' = BagRemove(jobs, j)
    /\ UNCHANGED <<hubVars, clients, next, check, restarts>>

-----------------------------------------------------------------------------
(* The updates of the hubs.                                                *)

PassUpdateOn(u) ==
    /\ Prompt => FinishKnown(u.name)
    /\ Hub!Deliver(u)
    /\ Core!scanDidFinish(u.name, u.results)
    /\ UNCHANGED <<clients, next, check, jobs, restarts>>

-----------------------------------------------------------------------------
(* Looking unknown images up, when the timer for it ticks.                 *)

CheckUnknown ==
    /\ check.at = "Idle"
    /\ Core!InStatus("Unknown") # {}
    /\ check' = [at |-> "Collect", shas |-> Core!InStatus("Unknown"),
                 left |-> clients, found |-> [n \in {} |-> NoAnswer]]
    /\ UNCHANGED <<coreVars, hubVars, clients, next, jobs, restarts>>

\* One hub after the other; of two scans of a name the later one is kept.  A
\* hub that was not listed yet ends the check.
CollectFrom(h) ==
    /\ check.at = "Collect" /\ h \in check.left
    /\ check' =
         IF hasFetched[h]
         THEN [check EXCEPT
                 !.left = @ \ {h},
                 !.found = [n \in DOMAIN @ \cup Hub!Names(h) |->
                              IF n \in Hub!Names(h) THEN scans[h][n] ELSE @[n]]]
         ELSE Idle
    /\ UNCHANGED <<coreVars, hubVars, clients, next, jobs, restarts>>

Collected ==
    /\ check.at = "Collect" /\ check.left = {}
    /\ check' = [at |-> "Apply", shas |-> check.shas, found |-> check.found]
    /\ UNCHANGED <<coreVars, hubVars, clients, next, jobs, restarts>>

\* Mutant of Resolve: whatever is not complete is queued.
ResolveEagerly(s) ==
    IF s \in DOMAIN check.found /\ check.found[s].stage = "Complete"
    THEN Core!scanDidFinish(s, check.found[s].results)
    ELSE Core!scanDidFinish(s, NoResults)

\* An image without a scan, or whose scan failed, is to be queued; one whose
\* scan is complete has its results; any other is left for another check.
Resolve(s) ==
    IF s \notin DOMAIN check.found \/ check.found[s].stage = "Failure"
    THEN Core!scanDidFinish(s, NoResults)
    ELSE IF check.found[s].stage = "Complete"
         THEN Core!scanDidFinish(s, check.found[s].results)
         ELSE UNCHANGED coreVars

ApplyTo(s) ==
    /\ check.at = "Apply" /\ s \in check.shas
    /\ Resolve(s)
    /\ check' = IF check.shas = {s} THEN Idle ELSE [check EXCEPT !.shas = @ \ {s}]
    /\ UNCHANGED <<hubVars, clients, next, jobs, restarts>>

-----------------------------------------------------------------------------
(* Set-up, requests and restarts.                                          *)

\* SetHubs creates the configured hubs, in the background.
CreateHub(h) ==
    /\ h \notin clients
    /\ clients' = clients \cup {h}
    /\ UNCHANGED <<coreVars, hubVars, next, check, jobs, restarts>>

AddImage(image) ==
    /\ HubsFirst => clients = Hubs
    /\ Core!addImage(image)
    /\ UNCHANGED <<hubVars, clients, next, check, jobs, restarts>>

HubStep(h) ==
    /\ h \in clients /\ Hub!HubInternal(h)
    /\ UNCHANGED <<coreVars, clients, next, check, jobs, restarts>>

\* The goroutines of perceptor and everything they know are gone; the Black
\* Ducks and the scan clients are not.
Restart ==
    /\ restarts < MaxRestarts
    /\ restarts' = restarts + 1
    /\ images' = [s \in {} |-> NoResults] /\ queue' = Core!EmptyQueue /\ pods' = [n \in {} |-> {}]
    /\ Hub!NewHub(status', timer', pauseQueued', todo', answer', scans', hasFetched', updates')
    /\ clients' = {} /\ next' = Idle /\ check' = Idle
    /\ jobs' = [j \in {i \in DOMAIN jobs : i.at \in {"Started", "Uploaded"}} |-> jobs[j]]
    /\ UNCHANGED remote

Init ==
    /\ Core!CoreInit /\ Hub!HubInit
    /\ clients = {} /\ next = Idle /\ check = Idle
    /\ jobs = [j \in {} |-> 0] /\ restarts = 0

HandOut == PeekNext \/ NoHubAvailable \/ Reply \/ StartCore \/ StartHub
             \/ \E h \in Hubs : AssignImage(h)

FinishJob(j) ==
    /\ j \in DOMAIN jobs
    /\ ClientUploads(j) \/ ClientPosts(j) \/ TellHub(j) \/ TellCore(j)

CheckStep == CheckUnknown \/ Collected \/ \E h \in Hubs : CollectFrom(h)
               \/ \E s \in Shas : ApplyTo(s)

Next ==
    \/ HandOut \/ CheckStep \/ Restart
    \/ \E j \in Job : FinishJob(j)
    \/ \E u \in DOMAIN updates : PassUpdateOn(u)
    \/ \E h \in Hubs : CreateHub(h) \/ HubStep(h)
    \/ \E image \in Posted : AddImage(image)

Spec == Init /\ [][Next]_vars

(***************************************************************************)
(* Fairness.  The goroutines of perceptor get to run; scanners keep asking *)
(* for images, post when they are done, and do not all fail; the hubs are  *)
(* set up in the end, and run as Hub says.                                 *)
(***************************************************************************)
Fairness ==
    /\ WF_vars(HandOut) /\ WF_vars(CheckStep)
    /\ WF_vars(\E j \in Job : FinishJob(j))
    /\ SF_vars(\E j \in DOMAIN jobs : ClientUploads(j))
    /\ WF_vars(\E u \in DOMAIN updates : PassUpdateOn(u))
    /\ \A h \in Hubs : WF_vars(CreateHub(h)) /\ Hub!HubRuns(h)

FairSpec == Spec /\ Fairness

-----------------------------------------------------------------------------
(* Properties.                                                             *)

\* The number of scan clients at work among the jobs S.
AtWork(S) == Cardinality(UNION {{j} \X (1 .. jobs[j]) :
                                    j \in {j \in S : j.at \in {"Started", "Uploaded"}}})

\* A hub never counts more scan clients than it takes at a time.  Only one
\* goroutine hands images out, and it starts a client before it looks again.
ClientsWithinLimit ==
    \A h \in Hubs : Cardinality(Hub!InStage(h, {"ScanClient"})) <= Limit[h]

\* A hub never has more scan clients at work than it takes at a time: a slot is
\* not given away while the client that has it runs.
JobsWithinLimit == \A h \in Hubs : AtWork({j \in DOMAIN jobs : j.hub = h}) <= Limit[h]

\* No image is given to two scan clients at a time.
NoDoubleHandOut == \A s \in Shas : AtWork({j \in DOMAIN jobs : j.sha = s}) <= 1

\* An image that waits for its scan client has one: somebody will report it
\* finished, or it would keep its status for good.
NoImageStranded ==
    \A s \in Core!InStatus("RunningScanClient") : \E j \in DOMAIN jobs : j.sha = s

\* A slot of a hub is taken by a client that will give it back.
NoSlotLeaked ==
    \A h \in Hubs : \A n \in Hub!InStage(h, {"ScanClient"}) :
        \E j \in DOMAIN jobs : j.sha = n /\ j.hub = h /\ j.at # "HubTold"

\* An image that is queued for the first time has no successful scan in a hub:
\* the scans that were there before perceptor started are recognised.
OldScansRecognised ==
    [][\A s \in Core!InStatus("Unknown") :
          s \in Core!InStatus("InQueue")' =>
              \A h \in Hubs : "Success" \notin Hub!Summaries(h, s)]_vars

\* Once perceptor knows of an image it gets a scan, and the results of the scan.
EveryImageReported ==
    \A s \in Shas : s \in Core!Known ~> s \in Core!InStatus("Complete")
=============================================================================
