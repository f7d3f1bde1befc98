# A TLA+ model of perceptor

Perceptor sits in a Kubernetes or OpenShift cluster.  Perceivers tell it which
images and pods there are, scanners (perceptor-scanner) ask it which image to
scan next and upload the scan to a Black Duck hub, perceptor watches the hubs
for results and publishes them for the perceivers to annotate pods with.  All
its state is in memory.

This directory holds TLA+ modules translated from the Go code under `src/pkg`,
TLC configurations that check them on small instances, and proofs that TLAPS
checks for every instance.  `PROJECT.json` relates each definition to the lines
it models, and lists runs, theorems, findings, hazards, and a mutant for every
property: a plausible bug that makes the property fail.

## 1. The system

| Part | Source | State it keeps | Operations |
|---|---|---|---|
| core model | `pkg/core/model` | images (status, priority, results), scan queue, pods | add, update, delete and replace pods; add images; next image; start and finish a scan client; result of a hub |
| scan queue | `pkg/util/priorityqueue.go` | a heap of images and an index of its keys | add, peek, pop, set priority, remove |
| pod results, metrics of the model | `pkg/core/model/modelextensions.go` | none | aggregate the results of images over pods; count pods, images and statuses |
| hub client | `pkg/hub/hub.go`, `timings.go` | login status, timers | login, list code locations, fetch unknown scans, poll scans, stop |
| hub model | `pkg/hub/model.go`, `datatypes.go` | scans of a hub (stage, results), updates to publish | did fetch, did finish, start and finish a scan client |
| hub requests | `pkg/hub/client.go`, `rawclient.go` | none of their own | the five requests that lead to the results of a scan |
| circuit breaker | `pkg/hub/circuitbreaker.go` | state, failures in a row, time of the next check | request, success, failure, reset |
| timer | `pkg/util/timer.go` | running, ready, paused, stopped; a pause that was put off | tick, pause, resume, set delay, stop |
| hub manager | `pkg/core/hubmanager.go` | the hubs | set hubs, create and remove a hub, start and finish a scan client, merge updates |
| dispatch | `pkg/core/perceptor.go`, `scanscheduler.go` | none of its own | hand out the next image; finish a scan; pass updates on; look unknown images up |
| routine tasks | `pkg/core/routinetaskmanager.go` | timers | metrics, unknown images, stalled scans (empty) |
| configuration, API, metrics, logging | `pkg/core/configmanager.go`, `pkg/api`, ... | settings, counters | decode, route, read files, count |

How they interact:

* The core model and each hub model are *actors*: a method sends a closure to a
  channel, one goroutine applies the closures one after the other.
* Everything else is goroutines that call one actor, then another, and hold no
  lock in between.  `Perceptor.getNextImage` reads the front of the queue,
  compares the load of each hub with its limit, answers the scanner, and only
  then tells the core model and the hub.  `PostFinishScan` tells the hub, then
  the core model.  The job for unknown images reads the images, reads the scans
  of each hub, and then applies what it found one image at a time.
* A hub publishes each update in a goroutine of its own; a second goroutine per
  hub merges them into one channel; a third passes them on to the core model.
* The timers of a hub are paused when its login fails and resumed when it
  succeeds; a job that runs meanwhile runs on.  Stopping a hub closes a channel
  that each of its goroutines finds closed in its own time.
* All jobs of a hub make their requests through one circuit breaker, which has
  no lock.
* The configuration is read again and again; each time, hubs that are missing
  are created in the background and hubs that are no longer configured removed.
* Scan clients are other processes.  They report over HTTP, or never.

What is hard, then: orders of calls between actors that nobody tested, state
that is read and used later, updates that overtake each other, pauses, resumes
and stops that meet a running job, a restart that forgets what the scanners and
the hubs still do, failures half-way through a change of state.  Each of these
is listed in `PROJECT.json` under `hazards`, at the line where it bites.

What makes the parts correct:

* core model: queue and statuses agree; priorities in the queue are those of
  the images; a demoted image stays demoted; only results of a success are
  kept; completion is final; every image of a pod is known; a pod is published
  exactly when all its images are complete.
* hub: stage and results of a scan agree; no scan is forgotten or reset; timers
  run only while the hub can be reached; every verdict is found.
* requests: a scan that is there is never taken for absent; a hub that comes
  back is used again, and one that does not is left in peace for longer and longer.
* hub manager: no hub runs that nobody can stop; a hub that stays configured
  stays; no scanner waits for an answer for good.
* dispatch: a hub never gets more clients than it takes; no image is given out
  twice; no image and no slot is left behind by a client that failed or a
  restart; scans that were there before are recognised; every image is reported.

## 2. Modules

```
ScanTypes    ScanQueue                     vocabulary; operations of the queue
     |      /    |    \
     |     /     |     KeyedQueue          the queue as its clients see it
     |    /      |
     |   /   PriorityQueue                 the heap, which implements KeyedQueue
     |  /
CoreModel ------- ImageLifecycle           core model; the life of an image it implements
 |   |   \
 |   |    PodResults                       results of pods, metrics
 |   CreateImageLoop                       the loop over createImage
 |
 |  Hub                                    hub client and hub model
 | /
Perceptor                                  dispatch, both of the above composed

CircuitBreaker                             the breaker, shared by goroutines
 |
FetchScan                                  the requests of fetchScan through it

PausableJob                                what a hub needs of a timer
 |
Timer                                      the timer, which implements it
 |
HubManager                                 hubs that come and go, with their timers
```

Proofs are in `CoreModelProofs`, `CoreReportProofs` (which extends it, about
PodResults and CreateImageLoop), `PriorityQueueProofs`, `HubProofs`,
`PerceptorProofs`, `FetchScanProofs` (also for the breaker), `TimerProofs` and
`HubManagerProofs`.  `MCCoreModel`, `MCPriorityQueue`, `MCHub`, `MCPerceptor`,
`MCFetchScan` and `MCHubManager` give the constants their values.

**ScanTypes** has the statuses, stages, results and pure functions shared by
the rest: `legalTransitions` is `scanstatus.go`'s table, `ScanSummaryStatus`
the classification of a scan by its summaries.  A scan result is the *set* of
the statuses of its summaries and an opaque report.

**ScanQueue** is the map from keys to priorities that the heap stands for.
`Peek` leaves open which of several images of the highest priority is next;
the layout of the heap decides that in the code.  CoreModel calls these
operators; **KeyedQueue** makes them the actions of a specification.

**PriorityQueue** is the heap behind it: the nodes, the index of their keys and
the length of the slice.  `AddNode`, `Set`, `RemoveKey` and `Pop` do what the
methods do before they sift, `SiftUpStep` and `SiftDownStep` are one turn of
each loop, and `sift` says which loop runs, from where, and what comes after.
The core model's actor owns the queue, so no operation begins while a loop runs.
`popped` is what Pop returned last, which lets `ImplementsKeyedQueue` compare
it.  `HeapOrdered` and `IndexMatchesItems` are what `CheckValidity` looks for.
Left out: the values that come with the keys, and `Values`, `Dump`,
`DebugString`, `CheckValidity`, `Size` and `IsEmpty`, which change nothing.

**CoreModel** has one action per closure that the actor applies, including the
closures' error returns.  `setImageScanStatus` keeps the order of the code:
leave the old status, enter the new one, then write the status, so that a
refusal in the middle leaves the queue changed.  A posted list of images is one
action; `CreateImageLoop` runs the code's loop over `createImage` on every
reachable state and compares (invariant `ClosedFormIsTheLoop`).
Left out: repository tags and the log of status transitions, which no operation
reads; the error values; the bounded channel in front of the actor;
`deleteImage` and `pruneorphanedimages.go`, which nothing calls.

**ImageLifecycle** is the abstract promise: an image is learned of, waits, is
worked on, may go back to waiting, and is done; it is reported on exactly when
it is done, and the report may only be replaced by another.
`ImplementsLifecycle` is the refinement, with `Unknown` and `InQueue` mapped to
"Waiting", the two running states to "Working".

**PodResults** is what perceptor publishes of the core model: `scanResultsForImage`
and `scanResultsForPod`, whose loop ends at the first container without a scan,
and the counts of pods, images and statuses that go to the metrics.  A report
gets meaning here: `PolicyStatus` and `RiskProfile` say what is in it, with keys
that may be missing.  CoreModel keeps the *set* of a pod's images; the code
loops over a list in which an image may occur twice, so the properties speak of
every list that the set may stand for.  The overall status of a pod with two
violating images is that of the one that comes last: `PodTotalsSound` allows
either, and no other.  Left out: the histograms of container and violation
counts and the dump of the model.

**Hub** has, for each hub, login, three timers and the model of its scans.  A
timer's job is split where other goroutines can come in between: it *asks* the
actor for names, *fetches* each of them, and *reports* each answer to the actor.
`pauseQueued` is the timer's `shouldPauseAfterRunningAction`.  The Black Duck
itself is `remote`, external, and changes as clients upload and scans finish.
A request is one step that fails or answers (the chain of links that `fetchScan`
follows is FetchScan); the search by name is taken to be exact.  A login that
fails pauses three timers in one step: pausing one commutes with the steps of
the others.  `didFetchScans` is joined with the return of its job, and the
reading of `hasFetchedScans` with the reading of the scans it guards (it never
goes back to false).  Hubs are identified by their host name.
Left out: the timer of metrics; the timer of refreshes, whose action is empty
(`hub.go:174`), so that a complete scan is never looked at again; and `Stop`,
which is in HubManager.

**CircuitBreaker** cuts its methods where another goroutine can come in
between: a request reads the state, then the time, changes the state, reads it
again, and is let through or refused; `success`, `failure` and `Reset` assign
the fields one by one, and `writes` holds the assignments still to be made.
`nextCheck` is the time to the next check, counted from now.  `Second`,
`MaxBackoff` and `Word` scale `time.Duration`; the pause after n failures is 2^n
seconds modulo `Word`, or `MaxBackoff` if that is less.  A request that reads a
time that is nil panics.

**FetchScan** is `fetchScan` step by step: code location, version, risk profile,
policy status, scan summaries, each through the breaker, each of which may find
no link to the next, while the Black Duck gets on with the scan between them.
`reads` is how far the scan was at each request.  Other requesters make single
requests through the same breaker.

**PausableJob** is all that Hub relies on in a timer: ready, at work, paused or
retired, a pause that is put off while it is at work, no two jobs at a time.
**Timer** is the goroutine behind it: a ticker, an action in a goroutine of its
own, `Pause` and `Resume` that hand over a call and wait for the answer, and a
`select` that takes whichever of tick, end of action, call and stop comes.
`WatchedTimersAreJobs` is the refinement.  `SetDelay` changes only the period and is left out.

**HubManager** follows hubs as instances: `SetHubs` and its background goroutine
`create`, which looks a hub up under its key but keeps it under its domain, the
removal of hubs, and for a hub that is *watched* the goroutine that serves its
actions, its login and a timer.  `dispatch` is a scanner's request: a hub is
chosen, asked for its load, and told of its client; it is not told when the
answer names a hub that is not in the secret, and then the scanner waits for an
answer that `getNextImage` never sends.  Looks into the map of hubs and changes
of it are taken to be atomic, although no lock makes them so.

**Perceptor** instantiates CoreModel and Hub and adds the goroutines between them:

| Action | Code |
|---|---|
| `PeekNext`, `AssignImage`, `NoHubAvailable`, `Reply`, `StartCore`, `StartHub` | `getNextImage`, one action per call; one goroutine, so one at a time |
| `ClientUploads`, `ClientPosts` | scan clients (external) |
| `TellHub`, `TellCore` | `PostFinishScan`, one process per client |
| `PassUpdateOn` | the goroutine that reads updates |
| `CheckUnknown`, `CollectFrom`, `Collected`, `ApplyTo` | the goroutine for unknown images |
| `CreateHub` | the hub manager creating a hub in the background |
| `Restart` | perceptor forgets everything, clients and Black Ducks do not |

Scan clients are a bag, as two clients may have the same image, hub and
progress.

## 3. Assumptions, by name

All are constants or named definitions, so a run says which of them it relies on.

* `HubFails`: requests to a Black Duck may fail, logins included.  TRUE in the
  run of Hub.  FALSE in the runs of Perceptor: there a listing that fails would
  never be repeated (`FetchAllScansPause` is 999999 hours, `timings.go:38`), and
  perceptor could then not recognise any scan of that hub.
* `HubsFirst`: the hubs are set up before the first image is posted.  The code
  does not see to it: see the run `no_hubs_yet`.
* `Prompt`: a scan client does nothing before the goroutine that handed its
  image out has made its next two calls, and no update about an image is passed
  on between the two calls that finish its client.  The gaps are microseconds
  against a scan of minutes, but nothing bounds them: see the run `overtaken`.
* `ClientFails`: a scan client may report an error.
* `Verdicts`: how a Black Duck may finish a scan.
* `Undisturbed`: no method of the circuit breaker is interrupted by another.
  Nothing in the code ensures it, the breaker has no lock: see the run `breaker_race`.
* `LinksMiss`: an answer of the Black Duck may lack the link to the next request.
* `OneCreator`: one goroutine at a time creates hubs.  Each reading of the
  configuration starts one, and making a hub client takes less than the time to
  the next reading, but nothing bounds it.  With two of them, both may find a
  hub missing and make a client each; the first is then overwritten in the map
  and runs on unseen, and `NoHubIsLost` fails.  A set `Creators` of one
  goroutine is this assumption in the run.
* `CreateFails`: making a hub client may fail; the next reading tries again.

Bounds: `MaxUpdates` (updates in flight), `MaxJobs` (scan clients at a time),
`MaxRestarts`, `MaxContainers` (containers of a pod), `MaxFailures` (the count
of failures stops there), `Instances` (hub clients ever made), `Watched` (those
whose goroutines are followed), and `Second`, `MaxBackoff`, `Word` (time).

**Fairness.**  Goroutines and timers get to run and actors serve every request.

* Hub: weak fairness of login, of the listing, of the delivery of updates, and
  of the Black Duck's finishing a scan.  The steps of a job are strongly fair
  per timer: its update waits for room among the updates in flight, a bound of the
  model, where the goroutine in the code just waits.  In `HubFairSpec`, requests
  that are made again and again succeed now and then (`RequestsSucceed`, strong).
  A listing that failed is not made again, so this promises nothing of it.
* Perceptor: weak fairness of handing out while there are images and scanners,
  of the job for unknown images, of finishing clients, of passing updates on,
  and of setting each hub up; strong fairness of a client that succeeds, so that
  not every client of an image fails.  That clients report at all is a promise
  of the environment that nothing in perceptor enforces: the check for stalled
  clients (`routinetaskmanager.go:102`) does nothing, and a client that dies
  keeps its image and its slot.
* FetchScan: time passes (weak); each requester's steps are strongly fair, as
  they may have to wait for another to leave the breaker (`Undisturbed`).
* HubManager: weak fairness of each goroutine; strong fairness of the reading of
  the configuration (it comes again and again), of the success of making the
  client of a given hub, and of a timer's taking the stop: its `select` has
  other ready channels and picks among them at random.

## 4. Runs

| Run | Instance | What it shows |
|---|---|---|
| `core` | 2 shas, 2 pods, up to 3 containers, 2 reports, priorities -1, 0, 1, four kinds of summaries | queue, priorities, results, pods, finality, demotion; what is published of pods, and that its counts agree; refinement of ImageLifecycle; the loop over a list against the closed form |
| `priority_queue` | 6 keys, priorities -1, 0, 1, a slice that grows from 2 | every node fits its slice, the heap is ordered between operations, the index right at all times, the root highest; refinement of KeyedQueue |
| `hub` | 1 hub with an old scan that failed and new ones that succeed, failing requests | stages agree with results, timers follow the login, no scan is lost, every verdict is found, every listed scan resolved |
| `limits` | 1 hub with one slot, 2 images, failing clients, hub set up first | no client too many at work, or counted |
| `restart` | 1 hub, 1 image, 2 clients, one restart | no image and no slot left behind |
| `live` | 2 hubs, of which one may have finished or be running a scan of the image; clients that fail now and then | no image is given out twice, every image is reported, old scans are recognised |
| `requests` | 1 fetching goroutine beside another with single requests and resets | the fields of the breaker agree, nothing present is reported absent, the verdict is the newest part of the results, pauses are kept, a hub that is back is used |
| `hub_manager` | 2 hubs, one of which may be configured under another name than its domain; 2 clients, 1 of them watched | no hub is lost, requests go unanswered only over hubs whose domain is no key, well-keyed hubs stay and are set up, stopped ones come to rest; the timers are pausable jobs |
| `no_hubs_yet` | hubs set up late | *violated*: a scanned image is queued |
| `overtaken` | without `Prompt` | *violated*: an image is never reported |
| `limit_exceeded` | with old scans in the hub | *violated*: a client too many |
| `breaker_race` | without `Undisturbed` | *violated*: a breaker disabled for good, without a time |

**Bounds.**  The core model has no bound but its sets: a second image, pod or
priority is what the code tells apart, as images do not interact but in the
queue's order; two images compete for its front.  Three containers let an image
occur twice beside another, in any order.  The heap has room for six
keys, the smallest heap in which Remove must move a node up (the last node comes
from the other branch of the root); they are symmetric, as the heap never
compares keys.  In Hub, one scan is enough for its stages, as scans do not
interact but through the job that handles them one by one; one hub, as hubs
share nothing.  With `MaxUpdates` = 1 updates come in order, with 2 one may overtake
another.  `MaxJobs` bounds the scan clients
at a time: 2, so that a client of an earlier life meets one of this life, and
one beyond a limit of one is possible.  `MaxRestarts` is 1: a restart forgets
everything, so a second one meets nothing new but more clients.  Properties that need two hubs (a
scan in one and not in the other) or two images (one slot) have a run with two.
In `requests`, a second is one tick, `MaxBackoff` three ticks and a duration has
16 values: the pause grows, is capped, overflows to a negative one and to zero
within `MaxFailures` = 4, as it does in the code at 34 and 55 failures.  In
`hub_manager`, two instances let a hub be removed and made again.

**What the passing runs leave open**, on purpose:

* `limits` starts with hubs that have no scans, `live` with scans that did not
  fail, and in all runs of Perceptor that pass updates come in order
  (`MaxUpdates` = 1) and the hubs are set up first.  The violation runs, and the
  remarks below, say why.
* With two scans of an image, a failed one in one hub and a successful one in
  another, the job for unknown images keeps whichever it read last
  (`perceptor.go:95`) and may queue the image again.
* With two updates in flight, the one that finds a scan in progress may arrive
  after the one that completes it; an image posted in between enters
  `RunningHubScan` for good.
* Without `Prompt` an image may be given out twice: the scanner has it before
  the core model is told; an update in between takes the image out of the queue,
  `StartScanClient`'s error is dropped (`perceptor.go:355`), and a failed hub
  scan queues the image again while its client is at work.
* `VerdictIsFound` and `UnknownIsResolved` except a timer that was left paused:
  a login that fails while the job runs puts a pause off, a login that succeeds
  before it returns cannot take it back (`Resume` refuses a timer that is not
  paused), and the timer stays paused until the next failure and success.
* `BacksOff` speaks of pauses that a `time.Duration` can hold (`Fits`); without
  that condition TLC refutes it.  2^n seconds in nanoseconds are negative
  for 34 failures in a row and for several counts above, and zero from 55 on;
  with pauses of five minutes at most, an outage of two hours gets to the first,
  one of three hours to the second, and then the breaker no longer pauses.
* `RequestsAreAnswered` says over which hubs a request may be left without an
  answer, or dispatching may wait for good: only those whose domain is no key of
  the secret.  Each reading of the configuration removes such a hub and makes it
  again, and a scanner that is given it is not answered.
* Without `Prompt` a client may also report before its slot is taken and its
  image is marked as running; the slot is then kept, and the image runs, for
  good.  No passing run covers such a client.

## 5. Findings

Four runs show that the code does not do what its documents say.

1. `no_hubs_yet`: the job for unknown images takes "no hub is behind" for "all
   hubs are ready", also when none is set up yet (`perceptor.go:88`), and queues
   images that a hub has scanned.  `perceptor_test.go:272` wants scans already
   in hubs recognised after a start.
2. `overtaken`: `PostFinishScan` tells the hub first.  The hub's result can
   reach the core model before the second call; it is refused as a transition,
   and the image then waits for a hub scan that nobody will report again.
3. `limit_exceeded`: an answer to a look-up that was asked while a scan was
   unknown is applied although a client was started for it meanwhile
   (`hub/model.go:167`); the scan's slot counts as free, and the hub gets a
   client more than its limit.
4. `breaker_race`: `failure` disables the breaker and sets the time to check
   again in separate assignments, without a lock, and `Reset` enables it and
   clears that time likewise.  Interleaved, they leave it disabled without a
   time; the next request dereferences nil (`circuitbreaker.go:87`).
   `circuitbreaker.go:63` says that a reset enables it whatever its state.

## 6. Proofs

All theorems hold for any values of the constants that meet the named
assumptions, and most for unbounded sets.

| Module | Theorem | States |
|---|---|---|
| `CoreModelProofs` | `TypeCorrect` | `[]TypeOK` |
| | `QueueCorrect`, `QueuePriorityCorrect` | `[]QueueMatchesStatus`, `[]QueuePrioritySound` |
| | `ResultsCorrect`, `PodsCorrect` | `[]ResultsSound`, `[]PodImagesKnown` |
| | `CompletionIsFinal`, `DemotionPermanent` | `CompleteIsFinal`, `DemotionIsPermanent` (action properties) |
| | `Refinement` | `CoreSpec => ImplementsLifecycle` |
| `CoreReportProofs` | `PodReportsComplete`, `PodTotalsCorrect` | `[]PodReportComplete`, `[]PodTotalsSound` |
| | `MetricsCorrect` | `[]MetricsAgree` |
| | `LoopIsClosedForm` | `[]ClosedFormIsTheLoop` |
| | `ClosedFormIsExact` | `[]EveryOutcomeHasAnOrder`: every outcome of CoreModel's step for a set is one of the loop for a list of it |
| `PriorityQueueProofs` | `HeapTypeCorrect`, `IndexCorrect` | `[]HeapTypeOK`, `[]IndexMatchesItems` |
| | `OrderCorrect`, `RootCorrect` | `[]HeapOrdered`, `[]RootIsHighest` |
| | `QueueRefinement` | `Spec => ImplementsKeyedQueue` |
| `HubProofs` | `HubTypeCorrect` | `[]HubTypeOK` |
| | `StageMatchesResultsCorrect`, `TimersFollowLoginCorrect` | `[]StageMatchesResults`, `[]TimersFollowLogin` |
| | `ScansAreKeptCorrect` | `ScansAreKept` (an action property) |
| `PerceptorProofs` | `PartsCorrect` | CoreModel's and Hub's `QueueMatchesStatus`, `QueuePrioritySound`, `ResultsSound`, `StageMatchesResults`, `TimersFollowLogin`, in the composition, restarts included |
| | `LifecycleUntilRestart` | every step of the composition is one of ImageLifecycle, none, or a restart |
| | `ScansKeptUntilRestart` | every step keeps the scans as `ScansAreKept` says, or is a restart |
| | `ClientsWithinLimitCorrect` | `[]ClientsWithinLimit`, for finite `Shas` |
| | `NoSlotLeakedCorrect`, `NoImageStrandedCorrect` | `[]NoSlotLeaked`, `[]NoImageStranded`, under `Prompt` |
| | `DispatchInvariance` | `[]DispatchInv`: one image's clients, updates, stages and hand-out go with its status |
| | `NoDoubleHandOutCorrect` | `[]NoDoubleHandOut`, under `Prompt`, without restarts, if `OldScansSucceed` |
| | `JobsWithinLimitCorrect` | `[]JobsWithinLimit`, the same, for finite `Shas` |
| | `OldScansRecognisedCorrect` | `OldScansRecognised` (an action property), the same |
| `FetchScanProofs` | `BreakerTypeCorrect` | `[]BreakerTypeOK`, methods interrupted or not |
| | `FieldsStayTogether`, `NoRequestPanics`, `ResetReenablesIt` | `[]FieldsAgree`, no request panics, `[]ResetReenables`, under `Undisturbed` |
| | `RequestsBackOff`, `FetchesBackOff` | `BacksOff` (an action property), under `Undisturbed` |
| | `FetchTypeCorrect`, `FetchFieldsAgree` | `[]FetchTypeOK`, `[]FieldsAgree` (the latter under `Undisturbed`) |
| | `NothingMeansAbsentCorrect`, `VerdictIsNewestCorrect` | `[]NothingMeansAbsent`, `[]VerdictIsNewest` |
| `TimerProofs` | `TimerTypeCorrect`, `TimerConsistencyCorrect` | `[]TimerTypeOK`, `[]TimerConsistent` |
| | `TimerRefinement` | `TimerSpec => ImplementsJob` |
| `HubManagerProofs` | `ManagerTypeCorrect`, `RequestsAreAnsweredCorrect` | `[]ManagerTypeOK`, `[]RequestsAreAnswered`, whether or not goroutines that create hubs overlap |
| | `NoHubIsLostCorrect`, `WellKeyedHubsStayCorrect` | `[]NoHubIsLost`, `WellKeyedHubsStay`, under `OneCreator` |
| | `WatchedTimersCorrect`, `WatchedTimersRefinement` | `[]WatchedTimersConsistent`, `WatchedTimersAreJobs` |

The type invariants (`TypeOK`, `HubTypeOK`, `FetchTypeOK`, `BreakerTypeOK`,
`TimerTypeOK`, `ManagerTypeOK`) are proved here and not repeated in the runs;
only that of the heap is, which also says that no node is beyond its slice.

**Assumptions on the constants.**  Priorities are integers, -1 is one of them and every set of them has a
highest (`PrioritiesAssumption`; Go's `int` is bounded; the heap needs only
integers); a scan has summaries (`SummariesAssumption`); nil is no result
(`NoResultsAssumption`, `NoAnswerAssumption`, `NilAssumption`,
`NobodyAssumption`); lists hold images and pods (`ListsAssumption`,
`PostedAssumption`, `OrdersAssumption`) and end (`FiniteListsAssumption`: they
come in the body of a request); a report counts components and risks
(`PolicyStatusAssumption`, `RiskProfileAssumption`); `MaxContainers`, the bound
of TLC's lists, may be any number (`MaxContainersAssumption`); a slice has room to double (`CapacityAssumption`); the Black
Ducks know scans of images (`RemoteInitsAssumption`) and scans end in
success or failure (`VerdictsAssumption`); an update may be in flight
(`MaxUpdatesAssumption`); the longest pause is a duration
(`DurationsAssumption`); powers of two are natural numbers
(`PowersAssumption`: TLC evaluates `^`, the provers have no theory of it); fetchers are
requesters (`FetchersAssumption`); secrets relate hosts (`SecretsAssumption`),
watched hubs are hubs (`WatchedAssumption`), limits are numbers
(`LimitAssumption`).  `PartsAssumption` restates in Perceptor what CoreModel and
Hub assume, as it instantiates both.

**Core model.**  No single property is inductive.  That the queue matches the
statuses needs the types, as an image outside `ScanStatuses` would be lost; that
entering and leaving `InQueue` never fails half-way needs that the queue matches
the statuses; that a queued priority is the image's own needs both.  So the
theorems use one invariant, `IInv`, the conjunction of `ImagesInv` (what holds
image by image) and `PodsInv`.  A step of the model is either a step of one
image (`ImageStep`) or the addition of a set of images (`ImagesStep`).  The
lemmas show for each of `setImageScanStatus`, `createImages` and the handlers
that it is such a step and keeps the invariant, and the action properties and
the refinement follow from the same two forms of steps (`StepOfImages`).

**Pods, metrics and the loop over images.**  The properties are about loops: over
the containers of a pod, over pods and images that are counted, over the images
of a posted list.  The model has them as folds, each of which is a recursive
function `f` that a `CHOOSE` picks, on the subsets of the positions of a list (or
of a set of keys).  Nothing can be said of such a function before it is shown
that one exists: `FoldExists` builds it out of functions on the subsets of at
most `n` elements, by induction on `n`.  The theorems of the library on induction
take a predicate as a parameter, which the provers cannot instantiate; here a
predicate is the set of the numbers (`UpTo`) or of the subsets
(`SubsetInduction`) that meet it, and that such a set is everything follows from
`WFMin`, which has no such parameter, by way of `LeastNumber`.  `PodLoop` then
gives the sequence of what the loop over containers has found after each of
them, and `ImageLoop` that of the loop over images; `TotalUnfolds` is the sum with one
key taken out, and `CountsAddUp` that numbers of the members of each class sum up
to the number of all.

Two invariants are added to `IInv`: `FiniteModel`, that finitely many images and
pods are known, as sums and counts mean nothing otherwise (`Finiteness`), and
`Maps`, that images and queue are functions (`MapsAlways`), as two states of the
loop are compared.  `LoopIsClosedForm` is an induction over the list: after `i`
images the loop is where CoreModel's step for the set of these is, for some choice of
first priorities (`DoneWith`); the next image is new, or raises what is known of
its sha (`RaisedByOneMore`), or changes nothing.  A sha that the list has more
than once is what makes this hard: its first priority decides whether later ones
may raise it.  `ClosedFormIsExact` is the converse: for any first priorities a
list of the set that begins with those images ends there, so CoreModel's
step has no outcome that the code does not.

**Heap.**  The heap is out of order while a loop runs, so `HeapOrdered` alone is not
inductive.  `HeapInv` adds what is out of order, and where: `UpAt` while a node
goes up, `DownAt` while one goes down.  Remove and Set sift up from a place and
then down *from the same place*, whether or not the node is still there; `UpAt`
therefore remembers that either the node was swapped, and then the place it left
is in order with its children, or it was not, and then only its children can be
out of order.  Each operation establishes `UpAt` or `DownAt` (`OneAdded`,
`OneChanged`), each turn moves it by a level or ends it (`UpSwap`, `UpStay`,
`UpEnds`, `DownSwap`, `DownEnds`).  That the root of an ordered heap is highest
is shown without induction: among the nodes above it, if there are any, take the
one at the lowest place; its parent is not above the root, so it is above its
parent (`OrderedRoot`).  For the refinement, `AddKeeps`, `SetKeeps`, `DropKeeps`
and `TurnKeeps` say what each step does to `Contents`.

**Hub.**  `HInv` is `TimerInv`, `RemoteInv`, `ScansInv` and `UpdatesInv`.
`TimerInv` says of each timer how it follows the login, and that a job that
reports has an answer it may report (`HasAnswer`): the stage an answer leads to
is legal only because of what the job asked for, a step or more before.

**Perceptor.**  Its invariant has the invariants of its parts (`Parts`, from
instances of CoreModelProofs and HubProofs): a step of Perceptor is a step of
CoreModel or none (`CorePart`), and of Hub or none (`HubPart`), or a restart,
which empties both.  So what was proved of the parts holds of them together
(`PartsCorrect`): the invariants always, the life of an image and the keeping of scans
until a restart (`LifecycleUntilRestart`, `ScansKeptUntilRestart`).  `LimitInv` says
that while an image is handed out its hub has room: one goroutine hands out, and
no other step adds a client, so the room that `AssignImage` saw is still there
when `StartHub` uses it.  `HubsInv` says that only hubs that were created have
clients, and `SlotInv` that every running image and every slot has a scan client
that will report it.  `Prompt` is needed there: without it a client may have
finished before its slot is taken.

**Dispatch.**  That an image is handed out once, or that a hub has no more clients
at work than it takes, is decided in five places: the core model's status, the
hub's stage of the scan, the updates on their way, the clients that run and the
goroutine that hands images out.  None of the three properties is inductive, as
each may be broken from outside: a late update could queue an image whose client
is at work, a late answer to a look-up could end the stage that holds its slot.
`DispatchInv` therefore says, for one image at a time, what goes together.  An
image is either `Fresh` or, where scans from before are admitted, `Old`.

* `Fresh` has no scan but those that perceptor starts.  `LifeOf` lists, status by
  status, its jobs, updates, stages and hand-out: in `InQueue` nothing is under way
  but the client whose start is not recorded; in `RunningScanClient` there is
  exactly one client and one hub at work (`ClientRuns`); in `RunningHubScan` there
  is none, and the hub or one update will tell of the end (`PendingAt`).
  `KnownAt` says that no hub asks for the scan because it is unknown to it:
  otherwise the answer would end the stage of a client.  `NotFound` says
  that the job for unknown images has found nothing.
* `Old` has a scan that did not fail, in a hub that is ready (`ListedAt`): it has
  no client (`Rests`), is never queued, and the job for unknown images has been
  told of it or has still to ask that hub (`ToldBy`).

An image stays `Fresh` or stays `Old`.  The steps are shown for each of the two
in turn (`FreshStep`, `OldStep`), and for `Fresh` most of them reduce to a lemma
about `LifeOf` alone, in which no variable occurs.  Jobs and updates are bags; a
proof looks at the part of a bag that is of one image (`Part`), which the steps
of other images leave alone (`BagParts`).  `JobsWithinLimit` then follows from
`OneJobEach` with `LimitInv`: every client at work has its image among the
clients of its hub, or is the one being started, for which there is room; so
they are mapped one to one into a set within the limit (`InjectedSizes`).

The hypotheses are those of the runs `limits` and `live`, and each is needed.  Without
`Prompt` an image may be given out twice; after a restart clients of an earlier
life go on unseen; and an answer to a look-up gives the slot of a client away
when a Black Duck has a scan that failed, or one that was not listed before the
client was started (`limit_exceeded`).  `OldScansSucceed` says of the
Black Ducks that the scans that they have at the start, if any, did not fail,
and, if there are any, that the hubs are set up before there are images
(`no_hubs_yet` shows the need) and that scans end in success.  Scan clients may
fail, and so may logins, listings and look-ups.  With Black Ducks that have no
scans at the start it holds by itself, and then hub scans may fail, too, and hubs
may be set up late.

**Breaker and requests.**  `Leftovers` are the lists of assignments that a
method can still have to make; while methods do not overlap, the fields are what
the leftovers will complete to fields that agree.  For `BacksOff`, `RestInv` says
that what is left of a pause and what has elapsed of it make up the pause, if it
fits; `PauseIsSet` is the arithmetic of that: such a pause does not wrap.  FetchScan's invariant adds
that the reads of a fetch are in order and no newer than the scan.

**Timer and hub manager.**  A timer's state, its ticker and the goroutine of its
action go together (`TInv`).  In HubManager, `MInv` has what the map, the
goroutines and dispatch hold, `LostInv` what is true between the steps of a
removal and of a creation: a creator that is making a hub found its domain
unused, and nobody else uses it (`OneCreator`).  `Unconfigured` says that only
hubs whose domain is no key are ever stopped and that the others are served, with
any number of creators: a hub may be overwritten in the map while it is being
asked, but it still answers.

**Only model-checked:** the liveness properties, `VerdictIsFound`,
`UnknownIsResolved`, `EveryImageReported`, `HubIsUsedAgain`, `HubsAreSetUp` and
`StoppedHubsRest`, as the prover does not reach fairness and ENABLED.  Every
invariant, every action property and every refinement that a passing run checks
is also a theorem.

## 7. Not modelled

* HTTP decoding and routing: each handler is one call that CoreModel or Perceptor models.
  The bounded channels in front of the actors: a sender waits, and the order in
  which senders get through is left open anyway.
* Parsing of configuration.  Of what is read again only the log level and the
  hubs are used; the hubs are in HubManager.
* Metrics counters and their timer, logging, mocks.
* Orphaned images and `deleteImage`, which nothing calls.
* The routine tasks that do nothing (stalled scan clients) and the timings,
  which nothing sets while perceptor runs.
* `SetDelay` of a timer, the timeout of a request, which HTTP enforces, and
  requests that nothing makes (projects, deletions, the version).
* What a data race on the map of hubs does to the map itself.  Go may stop the
  program when it notices one; the model takes look-ups and changes to be atomic.

`PROJECT.json` lists every component with its status.  What could still be
added: two creators at a time, to follow what a hub that is made twice does to
the limits; and HubManager composed with Perceptor, to follow scan clients of a
hub that is removed while they are at work.
