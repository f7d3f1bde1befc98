-------------------------------- MODULE Hub --------------------------------
(***************************************************************************)
(* pkg/hub: perceptor's clients of the Black Duck hubs.  Each keeps a      *)
(* model of the scans it knows of, run by an actor, and timers that log    *)
(* in, list the code locations, fetch the scans nothing is known of and    *)
(* poll the running ones.                                                  *)
(*                                                                         *)
(* A closure sent to the actor of a model is one atomic action.  A timer's *)
(* job is not: it asks the actor for names, fetches them from the hub one  *)
(* by one and reports each answer to the actor, and everything else may    *)
(* happen in between.  The Black Duck itself is `remote'.                  *)
(***************************************************************************)
EXTENDS ScanTypes, BagsExt, Bags

CONSTANTS Hubs,
          NoAnswer,      \* nothing was fetched
          RemoteInits,   \* what the Black Ducks may know at the start
          Verdicts,      \* how a scan of a Black Duck may end
          HubFails,      \* may requests to a Black Duck fail?
          MaxUpdates     \* bound on the updates in flight

VARIABLES status,        \* hub -> "Up" or "Down"
          timer,         \* hub -> timer -> its state, or where its job is
          pauseQueued,   \* hub -> timer -> shouldPauseAfterRunningAction
          todo,          \* hub -> timer -> names its job has still to handle
          answer,        \* hub -> timer -> fetched and not yet reported
          scans,         \* hub -> name -> stage and results of the scan
          hasFetched,    \* hub -> hasFetchedScans
          updates,       \* bag of the updates that goroutines publish
          remote         \* hub -> code location -> statuses of its summaries

hubVars == <<status, timer, pauseQueued, todo, answer, scans, hasFetched, updates, remote>>

\* Nothing else of the hub takes part in a step.
timerVars == <<timer, pauseQueued, todo, answer>>

\* The timers that login pauses and resumes.  The period of allScans is 999999
\* hours: but for the resume that runs it, it does not run.
Timers == {"allScans", "unknown", "completion"}
Ticking == {"unknown", "completion"}

\* A timer is Paused or Ready, or it runs its job, which is Asking the actor
\* for names, Fetching from the hub, or Reporting to the actor.
Running == {"Asking", "Fetching", "Reporting"}
TimerStates == {"Paused", "Ready"} \cup Running

Scan == [stage : ScanStages, results : ScanResults \cup {NoResults}]
Answer == [name : Shas, results : ScanResults]

ASSUME NoAnswerAssumption == NoAnswer \notin Answer
ASSUME VerdictsAssumption == Verdicts \subseteq {"Success", "Failure"}
ASSUME RemoteInitsAssumption ==
    \A r \in RemoteInits : DOMAIN r = Hubs /\ \A h \in Hubs : DOMAIN r[h] \subseteq Shas
ASSUME MaxUpdatesAssumption == MaxUpdates \in Nat \ {0}

\* A hub client as NewHub makes it: of what it knows nothing is left.
NewHub(st, ti, pq, to, an, sc, hf, up) ==
    /\ st = [h \in Hubs |-> "Down"]
    /\ ti = [h \in Hubs |-> [t \in Timers |-> "Paused"]]
    /\ pq = [h \in Hubs |-> [t \in Timers |-> FALSE]]
    /\ to = [h \in Hubs |-> [t \in Timers |-> {}]]
    /\ an = [h \in Hubs |-> [t \in Timers |-> NoAnswer]]
    /\ sc = [h \in Hubs |-> [n \in {} |-> NoAnswer]]
    /\ hf = [h \in Hubs |-> FALSE]
    /\ up = [u \in {} |-> 0]

HubInit ==
    /\ NewHub(status, timer, pauseQueued, todo, answer, scans, hasFetched, updates)
    /\ remote \in RemoteInits

-----------------------------------------------------------------------------
(* Timers.                                                                 *)

StartState(t) == IF t = "allScans" THEN "Fetching" ELSE "Asking"

\* The next tick.  A tick that meets a running job is dropped.
Tick(h, t) ==
    /\ t \in Ticking /\ timer[h][t] = "Ready"
    /\ timer' = [timer EXCEPT ![h][t] = StartState(t)]
    /\ pauseQueued' = [pauseQueued EXCEPT ![h][t] = FALSE]
    /\ UNCHANGED <<status, todo, answer, scans, hasFetched, updates, remote>>

\* Mutant of Rested: a pause that was put off is forgotten.
RestedReady(h, t) == "Ready"

\* The state of a timer when its job returns.
Rested(h, t) == IF pauseQueued[h][t] THEN "Paused" ELSE "Ready"

\* A job that has nothing left to do returns.
Return(h, t) ==
    /\ timer[h][t] = "Fetching" /\ t \in Ticking /\ todo[h][t] = {}
    /\ timer' = [timer EXCEPT ![h][t] = Rested(h, t)]
    /\ UNCHANGED <<status, pauseQueued, todo, answer, scans, hasFetched, updates, remote>>

(***************************************************************************)
(* login asks every timer to pause when an attempt fails and to resume     *)
(* when one succeeds, if that changes the status.  Pausing a running timer *)
(* is put off until its job returns; resuming one that is not paused is    *)
(* refused, which does not take a pause back that was put off.             *)
(***************************************************************************)
LoginFails(h) ==
    /\ HubFails /\ status[h] = "Up"
    /\ status' = [status EXCEPT ![h] = "Down"]
    /\ timer' = [timer EXCEPT ![h] =
          [t \in Timers |-> IF @[t] = "Ready" THEN "Paused" ELSE @[t]]]
    /\ pauseQueued' = [pauseQueued EXCEPT ![h] =
          [t \in Timers |-> IF timer[h][t] \in Running THEN TRUE ELSE @[t]]]
    /\ UNCHANGED <<todo, answer, scans, hasFetched, updates, remote>>

LoginSucceeds(h) ==
    /\ status[h] = "Down"
    /\ status' = [status EXCEPT ![h] = "Up"]
    /\ timer' = [timer EXCEPT ![h] =
          [t \in Timers |-> IF @[t] = "Paused" THEN StartState(t) ELSE @[t]]]
    /\ pauseQueued' = [pauseQueued EXCEPT ![h] =
          [t \in Timers |-> IF timer[h][t] = "Paused" THEN FALSE ELSE @[t]]]
    /\ UNCHANGED <<todo, answer, scans, hasFetched, updates, remote>>

-----------------------------------------------------------------------------
(* Listing the code locations.                                             *)

Names(h) == DOMAIN scans[h]
Located(h) == DOMAIN remote[h]

\* A request that fails leaves hasFetchedScans and the scans as they are.
fetchAllScans(h) ==
    /\ timer[h]["allScans"] = "Fetching"
    /\ \/ /\ timer' = [timer EXCEPT ![h]["allScans"] = "Reporting"]
          /\ todo' = [todo EXCEPT ![h]["allScans"] = Located(h)]
       \/ /\ HubFails
          /\ timer' = [timer EXCEPT ![h]["allScans"] = Rested(h, "allScans")]
          /\ UNCHANGED todo
    /\ UNCHANGED <<status, pauseQueued, answer, scans, hasFetched, updates, remote>>

UnknownScan == [stage |-> "Unknown", results |-> NoResults]

\* Mutant of Listed: every scan that is listed is taken for a new one.
ListedAnew(h, listed) ==
    [n \in Names(h) \cup listed |-> IF n \in listed THEN UnknownScan ELSE scans[h][n]]

\* Code locations that are not known yet become scans in stage Unknown.
Listed(h, listed) ==
    [n \in Names(h) \cup listed |-> IF n \in Names(h) THEN scans[h][n] ELSE UnknownScan]

didFetchScans(h) ==
    /\ timer[h]["allScans"] = "Reporting"
    /\ hasFetched' = [hasFetched EXCEPT ![h] = TRUE]
    /\ scans' = [scans EXCEPT ![h] = Listed(h, todo[h]["allScans"])]
    /\ timer' = [timer EXCEPT ![h]["allScans"] = Rested(h, "allScans")]
    /\ todo' = [todo EXCEPT ![h]["allScans"] = {}]
    /\ UNCHANGED <<status, pauseQueued, answer, updates, remote>>

-----------------------------------------------------------------------------
(* Fetching unknown scans and polling running ones.                        *)

InStage(h, stages) == {n \in Names(h) : scans[h][n].stage \in stages}

\* Mutant of InProgressScans: the scans that still have their client are left out.
InProgressHubScans(h) == InStage(h, {"HubScan"})

InProgressScans(h) == InStage(h, {"HubScan", "ScanClient"})

\* Mutant of StagesOf: polling is for scans that still have their client.
StagesOfClients(t) == IF t = "unknown" THEN {"Unknown"} ELSE {"ScanClient"}

\* The stages whose scans a job is about.
StagesOf(t) == IF t = "unknown" THEN {"Unknown"} ELSE {"HubScan", "ScanClient"}

\* The job takes its names from the actor, once, before it fetches any.
Ask(h, t) ==
    /\ timer[h][t] = "Asking"
    /\ timer' = [timer EXCEPT ![h][t] = "Fetching"]
    /\ todo' = [todo EXCEPT ![h][t] = InStage(h, StagesOf(t))]
    /\ UNCHANGED <<status, pauseQueued, answer, scans, hasFetched, updates, remote>>

Summaries(h, n) == IF n \in Located(h) THEN remote[h][n] ELSE {}

\* What fetchScan answers: nothing for a code location that is not there or has
\* no summaries yet.
Answers(h, n) == {a \in Answer : a.name = n /\ a.results.summaries = Summaries(h, n)}

\* Mutant of Reportable: every answer is reported.
ReportableAlways(t, a) == TRUE

\* Polling does not report a scan that is still in progress.
Reportable(t, a) == t = "completion" => ScanSummaryStatus(a.results) # "InProgress"

\* The job passes over an error, and over an answer there is nothing to say of.
PassOver(h, t, n) ==
    /\ HubFails \/ \A a \in Answers(h, n) : ~Reportable(t, a)
    /\ todo' = [todo EXCEPT ![h][t] = @ \ {n}]
    /\ UNCHANGED <<timer, answer>>

TakeAnswer(h, t, n) ==
    /\ \E a \in Answers(h, n) :
          Reportable(t, a) /\ answer' = [answer EXCEPT ![h][t] = a]
    /\ todo' = [todo EXCEPT ![h][t] = @ \ {n}]
    /\ timer' = [timer EXCEPT ![h][t] = "Reporting"]

FetchesNext(h, t, n) == t \in Ticking /\ timer[h][t] = "Fetching" /\ n \in todo[h][t]

fetchScan(h, t, n) ==
    /\ FetchesNext(h, t, n)
    /\ PassOver(h, t, n) \/ TakeAnswer(h, t, n)
    /\ UNCHANGED <<status, pauseQueued, scans, hasFetched, updates, remote>>

SetScan(h, n, scan) ==
    scans' = [scans EXCEPT ![h] = [m \in Names(h) \cup {n} |-> IF m = n THEN scan ELSE @[m]]]

\* Each update is published by a goroutine of its own: no order among them.
publish(u) ==
    /\ BagCardinality(updates) < MaxUpdates
    /\ updates' = BagAdd(updates, u)

\* The stage that a scan summary status stands for.
StageFor(r) ==
    CASE ScanSummaryStatus(r) = "Success" -> "Complete"
      [] ScanSummaryStatus(r) = "InProgress" -> "HubScan"
      [] ScanSummaryStatus(r) = "Failure" -> "Failure"

\* Mutant of didFetchScanResults: the update is published, the scan not touched.
publishScanResults(h, u) == publish(u) /\ UNCHANGED scans

\* The answer to an unknown scan replaces whatever became of it meanwhile.
didFetchScanResults(h, u) ==
    /\ SetScan(h, u.name, [stage |-> StageFor(u.results), results |-> u.results])
    /\ publish(u)

\* A scan that is not, or no longer, in stage HubScan is left alone.  The one
\* that is completes, even when it failed.
scanDidFinish(h, u) ==
    \/ /\ u.name \in InStage(h, {"HubScan"})
       /\ SetScan(h, u.name, [stage |-> "Complete", results |-> u.results])
       /\ publish(u)
    \/ u.name \notin InStage(h, {"HubScan"}) /\ UNCHANGED <<scans, updates>>

Report(h, t) ==
    /\ t \in Ticking /\ timer[h][t] = "Reporting"
    /\ IF t = "unknown" THEN didFetchScanResults(h, answer[h][t])
                        ELSE scanDidFinish(h, answer[h][t])
    /\ answer' = [answer EXCEPT ![h][t] = NoAnswer]
    /\ timer' = [timer EXCEPT ![h][t] = "Fetching"]
    /\ UNCHANGED <<status, pauseQueued, todo, hasFetched, remote>>

-----------------------------------------------------------------------------
(* What the hub manager asks of a hub.                                     *)

StartScanClient(h, n) ==
    /\ SetScan(h, n, [stage |-> "ScanClient", results |-> NoResults])
    /\ UNCHANGED <<status, timerVars, hasFetched, updates, remote>>

\* A scan that is not in stage ScanClient is left alone.
FinishScanClient(h, n, failed) ==
    /\ \/ /\ n \in InStage(h, {"ScanClient"})
          /\ scans' = [scans EXCEPT ![h][n].stage = IF failed THEN "Failure" ELSE "HubScan"]
       \/ n \notin InStage(h, {"ScanClient"}) /\ UNCHANGED scans
    /\ UNCHANGED <<status, timerVars, hasFetched, updates, remote>>

\* An update reaches its reader; any of those in flight may be the next.
Deliver(u) ==
    /\ u \in DOMAIN updates
    /\ updates' = BagRemove(updates, u)
    /\ UNCHANGED <<status, timerVars, scans, hasFetched, remote>>

-----------------------------------------------------------------------------
(* The Black Duck (external): a scan client uploads a scan, whose summary  *)
(* is in progress until the hub is done with it.                           *)

Upload(h, n) ==
    /\ remote' = [remote EXCEPT ![h] =
          [m \in Located(h) \cup {n} |->
              IF m = n THEN Summaries(h, n) \cup {"InProgress"} ELSE @[m]]]
    /\ UNCHANGED <<status, timerVars, scans, hasFetched, updates>>

RemoteFinish(h, n, verdict) ==
    /\ "InProgress" \in Summaries(h, n)
    /\ remote' = [remote EXCEPT ![h][n] = (@ \ {"InProgress"}) \cup {verdict}]
    /\ UNCHANGED <<status, timerVars, scans, hasFetched, updates>>

-----------------------------------------------------------------------------
JobStep(h, t) ==
    \/ Tick(h, t) \/ Return(h, t) \/ Ask(h, t) \/ Report(h, t)
    \/ \E n \in Shas : fetchScan(h, t, n)

HubInternal(h) ==
    \/ LoginFails(h) \/ LoginSucceeds(h)
    \/ fetchAllScans(h) \/ didFetchScans(h)
    \/ \E t \in Ticking : JobStep(h, t)
    \/ \E n \in Shas, v \in Verdicts : RemoteFinish(h, n, v)

HubNext ==
    \/ \E h \in Hubs : HubInternal(h)
    \/ \E h \in Hubs, n \in Shas :
          \/ StartScanClient(h, n)
          \/ n \in InStage(h, {"ScanClient"}) /\ Upload(h, n)
    \/ \E h \in Hubs, n \in Shas, failed \in BOOLEAN : FinishScanClient(h, n, failed)
    \/ \E u \in Answer : Deliver(u)

HubSpec == HubInit /\ [][HubNext]_hubVars

(***************************************************************************)
(* Fairness.  Goroutines and timers get to run, an actor serves every      *)
(* request, a publishing goroutine gets its update to the reader, the      *)
(* Black Duck gets done with every scan, and of the requests that are made *)
(* again and again some succeed.                                           *)
(***************************************************************************)
ListsAll(h) == fetchAllScans(h) /\ timer'[h]["allScans"] = "Reporting"
Fetches(h, t, n) == fetchScan(h, t, n) /\ timer'[h][t] = "Reporting"

HubRuns(h) ==
    /\ WF_hubVars(LoginSucceeds(h))
    /\ WF_hubVars(fetchAllScans(h) \/ didFetchScans(h))
    /\ \A t \in Ticking : SF_hubVars(JobStep(h, t))
    /\ \A n \in Shas : WF_hubVars(\E v \in Verdicts : RemoteFinish(h, n, v))

RequestsSucceed(h) ==
    /\ SF_hubVars(ListsAll(h))
    /\ \A t \in Ticking, n \in Shas : SF_hubVars(Fetches(h, t, n))

HubFairness ==
    /\ \A h \in Hubs : HubRuns(h) /\ RequestsSucceed(h)
    /\ WF_hubVars(\E u \in Answer : Deliver(u))

HubFairSpec == HubSpec /\ HubFairness

-----------------------------------------------------------------------------
(* Properties.                                                             *)

\* Every variable has its type; a name is known only if a scan has it.
HubTypeOK ==
    /\ status \in [Hubs -> {"Up", "Down"}]
    /\ timer \in [Hubs -> [Timers -> TimerStates]]
    /\ pauseQueued \in [Hubs -> [Timers -> BOOLEAN]]
    /\ todo \in [Hubs -> [Timers -> SUBSET Shas]]
    /\ answer \in [Hubs -> [Timers -> Answer \cup {NoAnswer}]]
    /\ hasFetched \in [Hubs -> BOOLEAN]
    /\ \A h \in Hubs : Names(h) \subseteq Shas /\ \A n \in Names(h) : scans[h][n] \in Scan
    /\ IsABag(updates) /\ DOMAIN updates \subseteq Answer

\* The stage and the results of a scan agree, whatever jobs and requests raced
\* for it: nothing is known of the results of a scan that a client runs, a scan
\* the hub works on has none or unfinished ones, and a finished one has a
\* verdict.
StageMatchesResults ==
    \A h \in Hubs : \A n \in Names(h) :
        LET scan == scans[h][n]
            verdict == IF scan.results = NoResults THEN "none"
                                                   ELSE ScanSummaryStatus(scan.results)
        IN  CASE scan.stage \in {"Unknown", "ScanClient"} -> verdict = "none"
              [] scan.stage = "HubScan" -> verdict \in {"none", "InProgress"}
              [] scan.stage = "Complete" -> verdict \in {"Success", "Failure"}
              [] scan.stage = "Failure" -> verdict \in {"none", "Failure"}

\* While a hub cannot be logged in to, no timer starts a job; and when it can,
\* a timer is paused only if its pause was put off during an earlier failure.
TimersFollowLogin ==
    \A h \in Hubs, t \in Timers :
        /\ status[h] = "Down" => timer[h][t] # "Ready"
        /\ status[h] = "Down" /\ timer[h][t] \in Running => pauseQueued[h][t]
        /\ status[h] = "Up" /\ timer[h][t] = "Paused" => pauseQueued[h][t]

\* A scan is never forgotten, and one that a client or the hub works on is
\* never unknown again.
ScansAreKept ==
    [][\A h \in Hubs : \A n \in Names(h) :
          /\ n \in Names(h)'
          /\ scans[h][n].stage # "Unknown" => scans'[h][n].stage # "Unknown"]_hubVars

\* A scan that the hub is done with leaves stage HubScan: it is polled until
\* its verdict is found, unless the timer that polls was left paused.
VerdictIsFound ==
    \A h \in Hubs, n \in Shas :
        n \in InStage(h, {"HubScan"}) /\ Summaries(h, n) # {}
          ~> n \notin InStage(h, {"HubScan"}) \/ timer[h]["completion"] = "Paused"

\* A scan found when the code locations are listed does not stay unknown,
\* unless the timer that fetches unknown scans was left paused.
UnknownIsResolved ==
    \A h \in Hubs, n \in Shas :
        n \in InStage(h, {"Unknown"}) /\ Summaries(h, n) # {}
          ~> n \notin InStage(h, {"Unknown"}) \/ timer[h]["unknown"] = "Paused"
=============================================================================
