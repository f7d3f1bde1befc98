----------------------------- MODULE HubManager -----------------------------
(***************************************************************************)
(* How hub clients come and go.  The configuration is read again and       *)
(* again; each time SetHubs leaves the creation of the hubs that are       *)
(* missing to a goroutine in the background, and removes the hubs that are *)
(* not configured.  A hub is configured under a key and kept under its     *)
(* domain, which need not be the same.                                     *)
(*                                                                         *)
(* A hub is an instance of its own: a goroutine that serves its actions,   *)
(* one that serves its model, a timer for logging in and those that login  *)
(* pauses and resumes, of which one stands for all.  Closing the channel   *)
(* `stop' of an instance ends each of them in its own time.  Who asks a    *)
(* goroutine that has ended waits for good.                                *)
(*                                                                         *)
(* A look into the map of hubs and a change of it are taken to be atomic,  *)
(* though no lock makes them so.                                           *)
(***************************************************************************)
EXTENDS Naturals, FiniteSets

CONSTANTS Hosts,        \* keys and domains of Black Ducks
          Secrets,      \* the contents the secret may have: key -> domain
          Instances,    \* bound: the hub clients that can be made
          Watched,      \* bound: those whose goroutines are followed
          Creators,     \* the goroutines that may be creating hubs at a time
          Nobody,       \* no instance, no host
          CreateFails   \* may making a hub client fail?

VARIABLES hosts,      \* pcp.hosts, as key -> domain
          hubs,       \* hm.hubs
          hostOf,     \* instance -> its host
          stopped,    \* the instances whose channel `stop' is closed
          serving,    \* the instances whose model is served
          status,     \* watched instance -> "Up" or "Down"
          actor,      \* watched instance -> the goroutine that serves its actions
          setter,     \* the goroutine in SetHubs
          creator,    \* creator -> keys still to look at, key in the making
          dispatch,   \* the goroutine that hands images out
          timerState, ticker, pauseQueued, action, call   \* see Timer

Timer == INSTANCE Timer WITH Timers <- Watched, closed <- stopped \cap Watched

instanceVars == <<hostOf, stopped, serving>>
timerVars == <<timerState, ticker, pauseQueued, action, call>>
watchedVars == <<status, actor, timerVars>>
managerVars == <<hosts, hubs, instanceVars, setter, creator, dispatch, watchedVars>>

ASSUME SecretsAssumption ==
    \A f \in Secrets : DOMAIN f \subseteq Hosts /\ \A k \in DOMAIN f : f[k] \in Hosts

ASSUME NobodyAssumption == Nobody \notin Instances \cup Hosts

ASSUME WatchedAssumption == Watched \subseteq Instances

Idle == [at |-> "Idle"]
NoWork == [todo |-> {}, making |-> Nobody]

Keys == DOMAIN hosts
Removed == DOMAIN hubs \ Keys
Created == {i \in Instances : hostOf[i] # Nobody}

\* The hosts whose key is their domain.
WellKeyed == {k \in Keys : hosts[k] = k}

ManagerInit ==
    /\ hosts \in Secrets
    /\ hubs = [n \in {} |-> Nobody]
    /\ hostOf = [i \in Instances |-> Nobody]
    /\ stopped = {} /\ serving = {}
    /\ status = [i \in Watched |-> "Down"]
    /\ actor = [i \in Watched |-> "Idle"]
    /\ setter = Idle
    /\ creator = [c \in Creators |-> NoWork]
    /\ dispatch = Idle
    /\ Timer!NewTimer

-----------------------------------------------------------------------------
(* SetHubs.                                                                *)

Resting(c) == creator[c] = NoWork

\* Mutant of Missing: hubs are created once.
MissingAtFirst == IF DOMAIN hubs = {} THEN Keys ELSE {}

Missing == Keys \ DOMAIN hubs

\* The configuration was read.  What is missing is left to a new goroutine; the
\* hubs to remove are those in the map now, and maybe some that come meanwhile.
SetHubs(c) ==
    /\ setter = Idle /\ Resting(c)
    /\ creator' = [creator EXCEPT ![c].todo = Missing]
    /\ setter' = [at |-> "Removing", left |-> Removed]
    /\ UNCHANGED <<hosts, hubs, instanceVars, dispatch, watchedVars>>

\* Mutant of StopHub: the wrong hubs.
StopOtherHub(n) ==
    /\ setter.at = "Removing" /\ n \in DOMAIN hubs \cap Keys
    /\ stopped' = stopped \cup {hubs[n]}
    /\ setter' = [at |-> "Stopped", left |-> setter.left \ {n}, name |-> n]
    /\ UNCHANGED <<hosts, hubs, hostOf, serving, creator, dispatch, watchedVars>>

StopHub(n) ==
    /\ setter.at = "Removing" /\ n \in Removed
    /\ stopped' = stopped \cup {hubs[n]}
    /\ setter' = [at |-> "Stopped", left |-> setter.left \ {n}, name |-> n]
    /\ UNCHANGED <<hosts, hubs, hostOf, serving, creator, dispatch, watchedVars>>

DeleteHub ==
    /\ setter.at = "Stopped"
    /\ hubs' = [n \in DOMAIN hubs \ {setter.name} |-> hubs[n]]
    /\ setter' = [at |-> "Removing", left |-> setter.left]
    /\ UNCHANGED <<hosts, instanceVars, creator, dispatch, watchedVars>>

SetHubsReturns ==
    /\ setter.at = "Removing" /\ setter.left \cap Removed = {}
    /\ setter' = Idle
    /\ UNCHANGED <<hosts, hubs, instanceVars, creator, dispatch, watchedVars>>

-----------------------------------------------------------------------------
(* The goroutine that creates hubs.                                        *)

\* Mutant of Exists: looked up under the key alone.
ExistsByKey(k) == k \in DOMAIN hubs

\* The goroutine looks the hub up under its key, create under its domain.
Exists(k) == k \in DOMAIN hubs \/ hosts[k] \in DOMAIN hubs

LookUp(c, k) ==
    /\ k \in creator[c].todo /\ creator[c].making = Nobody
    /\ creator' = IF Exists(k) THEN [creator EXCEPT ![c].todo = @ \ {k}]
                  ELSE [creator EXCEPT ![c] = [todo |-> @.todo \ {k}, making |-> k]]
    /\ UNCHANGED <<hosts, hubs, instanceVars, setter, dispatch, watchedVars>>

CreateFailed(c) ==
    /\ CreateFails /\ creator[c].making # Nobody
    /\ creator' = [creator EXCEPT ![c].making = Nobody]
    /\ UNCHANGED <<hosts, hubs, instanceVars, setter, dispatch, watchedVars>>

\* The map is not looked at again: what it has under this domain is overwritten.
Create(c, i) ==
    /\ creator[c].making # Nobody /\ i \notin Created
    /\ LET host == hosts[creator[c].making]
       IN  /\ hubs' = [n \in DOMAIN hubs \cup {host} |-> IF n = host THEN i ELSE hubs[n]]
           /\ hostOf' = [hostOf EXCEPT ![i] = host]
    /\ serving' = serving \cup {i}
    /\ creator' = [creator EXCEPT ![c].making = Nobody]
    /\ UNCHANGED <<hosts, stopped, setter, dispatch, watchedVars>>

-----------------------------------------------------------------------------
(* An instance of a hub.                                                   *)

ModelStops(i) ==
    /\ i \in stopped \cap serving
    /\ serving' = serving \ {i}
    /\ UNCHANGED <<hosts, hubs, hostOf, stopped, setter, creator, dispatch, watchedVars>>

\* What the actor asks of the timers when login changed the status.
Reaction(st) == IF st = "Up" THEN "ResumeNow" ELSE "Pause"

\* The login timer made an attempt, and hands what came of it to the actor.
\* Timers are asked only if that changed the status.
didLogin(i, st) ==
    /\ UNCHANGED <<hosts, hubs, instanceVars, setter, creator, dispatch>>
    /\ i \in Created /\ actor[i] = "Idle"
    /\ status[i] # st
    /\ status' = [status EXCEPT ![i] = st]
    /\ actor' = [actor EXCEPT ![i] = "Calling"]
    /\ Timer!Call(i, Reaction(st))

\* The actor waits for the answer of the timer, even of one that has stopped.
CallAnswered(i) ==
    /\ actor[i] = "Calling" /\ call[i] = "None"
    /\ actor' = [actor EXCEPT ![i] = "Idle"]
    /\ UNCHANGED <<hosts, hubs, instanceVars, setter, creator, dispatch, status, timerVars>>

ActorStops(i) ==
    /\ i \in stopped /\ actor[i] = "Idle"
    /\ actor' = [actor EXCEPT ![i] = "Gone"]
    /\ UNCHANGED <<hosts, hubs, instanceVars, setter, creator, dispatch, status, timerVars>>

TimerStep(i) ==
    /\ UNCHANGED <<hosts, hubs, instanceVars, setter, creator, dispatch, status, actor>>
    /\ Timer!LoopStep(i) \/ Timer!ActionStep(i)

TimerStops(i) ==
    /\ UNCHANGED <<hosts, hubs, instanceVars, setter, creator, dispatch, status, actor>>
    /\ Timer!Stop(i)

-----------------------------------------------------------------------------
(* getNextImage, after it found an image.                                  *)

\* It asks one hub after the other for its scans in progress.
AskHub(n) ==
    /\ dispatch = Idle /\ n \in DOMAIN hubs
    /\ dispatch' = [at |-> "Asking", hub |-> hubs[n]]
    /\ UNCHANGED <<hosts, hubs, instanceVars, setter, creator, watchedVars>>

\* The hub has no room, and maybe another has.
HubIsFull ==
    /\ dispatch.at = "Asking" /\ dispatch.hub \in serving
    /\ dispatch' = Idle
    /\ UNCHANGED <<hosts, hubs, instanceVars, setter, creator, watchedVars>>

\* The hub that was found is looked up in the secret, under its domain.
Told(i) == hostOf[i] \in Keys

\* The scanner that asked is told, or else waits for good.
HubIsFound ==
    /\ dispatch.at = "Asking" /\ dispatch.hub \in serving
    /\ dispatch' = IF Told(dispatch.hub) THEN Idle ELSE [dispatch EXCEPT !.at = "NotTold"]
    /\ UNCHANGED <<hosts, hubs, instanceVars, setter, creator, watchedVars>>

\* The next scanner asks.
NextRequest ==
    /\ dispatch.at = "NotTold"
    /\ dispatch' = Idle
    /\ UNCHANGED <<hosts, hubs, instanceVars, setter, creator, watchedVars>>

-----------------------------------------------------------------------------
SetHubsStep == DeleteHub \/ SetHubsReturns \/ \E n \in Hosts : StopHub(n)

CreatorStep(c) ==
    \/ CreateFailed(c)
    \/ \E k \in Hosts : LookUp(c, k)
    \/ \E i \in Instances : Create(c, i)

WatchedStep(i) == CallAnswered(i) \/ ActorStops(i) \/ TimerStep(i)

DispatchStep == HubIsFull \/ HubIsFound \/ NextRequest \/ \E n \in Hosts : AskHub(n)

ManagerNext ==
    \/ SetHubsStep \/ DispatchStep
    \/ \E c \in Creators : SetHubs(c) \/ CreatorStep(c)
    \/ \E i \in Instances : ModelStops(i)
    \/ \E i \in Watched : WatchedStep(i) \/ \E st \in {"Up", "Down"} : didLogin(i, st)

ManagerSpec == ManagerInit /\ [][ManagerNext]_managerVars

(***************************************************************************)
(* Fairness.  The configuration is read again and again, the goroutines    *)
(* run, and of the attempts to make a hub client some succeed.             *)
(***************************************************************************)
ManagerFairness ==
    /\ WF_managerVars(SetHubsStep)
    /\ SF_managerVars(\E c \in Creators : SetHubs(c))
    /\ \A c \in Creators : WF_managerVars(CreatorStep(c))
    /\ \A k \in Hosts :
          SF_managerVars(\E c \in Creators : creator[c].making = k
                                            /\ \E i \in Instances : Create(c, i))
    /\ WF_managerVars(\E i \in Instances : ModelStops(i))
    /\ \A i \in Watched : SF_managerVars(TimerStops(i)) /\ WF_managerVars(WatchedStep(i))

ManagerFairSpec == ManagerSpec /\ ManagerFairness

-----------------------------------------------------------------------------
(* Properties.                                                             *)

\* Every variable has its type.
ManagerTypeOK ==
    /\ Timer!TimerTypeOK
    /\ hosts \in Secrets
    /\ DOMAIN hubs \subseteq Hosts /\ \A n \in DOMAIN hubs : hubs[n] \in Created
    /\ hostOf \in [Instances -> Hosts \cup {Nobody}]
    /\ stopped \subseteq Created /\ serving \subseteq Created
    /\ status \in [Watched -> {"Up", "Down"}]
    /\ actor \in [Watched -> {"Idle", "Calling", "Gone"}]
    /\ \A c \in Creators : creator[c].todo \subseteq Keys
                           /\ creator[c].making \in Keys \cup {Nobody}

\* A hub client is kept under its domain until it is stopped, and not longer
\* than it takes to delete it: none is lost that runs on unseen, and never are
\* there two for one Black Duck, which would be given twice its limit.
NoHubIsLost ==
    /\ \A i \in Created \ stopped : hostOf[i] \in DOMAIN hubs /\ hubs[hostOf[i]] = i
    /\ \A n \in DOMAIN hubs :
          hubs[n] \in stopped => setter.at = "Stopped" /\ setter.name = n

\* A scanner is left without an answer, or dispatching waits for a hub that is
\* gone.
Unanswered == \/ dispatch.at = "NotTold"
              \/ dispatch.at = "Asking" /\ dispatch.hub \notin serving

\* A hub found a while ago may be removed before it is asked or looked up in the
\* secret, but that leaves requests unanswered only over a hub whose domain is
\* no key, and never if every key is a domain: beside such a hub, a well-keyed
\* one still answers.
RequestsAreAnswered ==
    Unanswered => hostOf[dispatch.hub] \notin Keys /\ WellKeyed # Keys

\* The timer of a watched hub is in the state that its goroutines are in,
\* whatever login, the timer and the removal of the hub do to it in between.
WatchedTimersConsistent == Timer!TimerConsistent

\* A hub whose key is its domain is never stopped or replaced, however often
\* the configuration is read and whatever becomes of the others.
WellKeyedHubsStay ==
    [][\A n \in WellKeyed \cap DOMAIN hubs :
          n \in DOMAIN hubs' /\ hubs'[n] = hubs[n] /\ hubs[n] \notin stopped']_managerVars

\* Each hub whose key is its domain is set up in the end, although making hub
\* clients may fail again and again, as long as the bound allows for one more.
HubsAreSetUp == <>(WellKeyed \subseteq DOMAIN hubs \/ Created = Instances)

\* A hub that was stopped comes to rest: its timer stops, whatever its actor
\* was asking of it and whatever the timer was doing, and its model ends.
StoppedHubsRest ==
    \A i \in Watched : i \in stopped ~> timerState[i] = "Stopped" /\ i \notin serving

\* The timer is a pausable job, in the company of its hub and of the manager.
WatchedTimersAreJobs == Timer!ImplementsJob
=============================================================================
