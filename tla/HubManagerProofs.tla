--------------------------- MODULE HubManagerProofs ---------------------------
(***************************************************************************)
(* Theorems about HubManager, for any secrets, hosts and instances.  Some  *)
(* of them hold only while one goroutine creates hubs at a time, which the *)
(* code does not see to but the pause between two looks at the             *)
(* configuration makes likely.                                             *)
(***************************************************************************)
EXTENDS HubManager, TLAPS

TP == INSTANCE TimerProofs WITH Timers <- Watched, closed <- stopped \cap Watched

\* The background goroutines that create hubs do not overlap.
OneCreator == \A c, d \in Creators : c = d

Works == [todo : SUBSET Keys, making : Keys \cup {Nobody}]

SetterStates == {Idle} \cup [at : {"Removing"}, left : SUBSET Hosts]
                  \cup [at : {"Stopped"}, left : SUBSET Hosts, name : Hosts]

DispatchStates == {Idle} \cup [at : {"Asking", "NotTold"}, hub : Instances]

\* The types of the hub manager and of the records of its hubs.
MTypes ==
    /\ hosts \in Secrets
    /\ DOMAIN hubs \subseteq Hosts /\ hubs \in [DOMAIN hubs -> Instances]
    /\ hostOf \in [Instances -> Hosts \cup {Nobody}]
    /\ stopped \subseteq Instances /\ serving \subseteq Instances
    /\ creator \in [Creators -> Works]
    /\ setter \in SetterStates
    /\ dispatch \in DispatchStates

\* What is kept, stopped, served or asked are hubs that were created.
MCreated ==
    /\ \A n \in DOMAIN hubs : hostOf[hubs[n]] = n
    /\ stopped \subseteq Created /\ serving \subseteq Created
    /\ dispatch.at # "Idle" => dispatch.hub \in Created

\* A hub that is being removed is not configured under its name.
Removing == setter.at = "Stopped" => setter.name \in DOMAIN hubs \ Keys

MInv == MTypes /\ MCreated /\ Removing

\* Keys are hosts, and have domains.
LEMMA KeysAreHosts ==
    ASSUME MTypes
    PROVE  /\ Keys \subseteq Hosts /\ Nobody \notin Keys
           /\ \A k \in Keys : hosts[k] \in Hosts
BY SecretsAssumption, NobodyAssumption DEF MTypes, Keys

\* Every step keeps the types.
LEMMA MTypesStep ==
    ASSUME MInv, [ManagerNext]_managerVars
    PROVE  MTypes' /\ Keys' = Keys /\ hosts' = hosts
<1> USE DEF MInv, MTypes, SetterStates, DispatchStates, Works, Idle
<1>0. hosts' = hosts /\ Keys' = Keys
  BY DEF ManagerNext, SetHubsStep, DispatchStep, CreatorStep, WatchedStep, SetHubs, StopHub,
         DeleteHub, SetHubsReturns, LookUp, CreateFailed, Create, ModelStops, didLogin,
         CallAnswered, ActorStops, TimerStep, AskHub, HubIsFull, HubIsFound, NextRequest,
         managerVars, Keys
<1>1. Keys \subseteq Hosts /\ Nobody \notin Keys /\ \A k \in Keys : hosts[k] \in Hosts
  BY KeysAreHosts
<1>2. ASSUME NEW c \in Creators, SetHubs(c)
      PROVE  MTypes'
  BY <1>0, <1>1, <1>2 DEF SetHubs, Resting, Missing, Removed, instanceVars, NoWork
<1>3. ASSUME NEW n \in Hosts, StopHub(n)
      PROVE  MTypes'
  BY <1>0, <1>3 DEF StopHub, Removed
<1>4. CASE DeleteHub
  BY <1>0, <1>4 DEF DeleteHub, instanceVars
<1>5. CASE SetHubsReturns
  BY <1>0, <1>5 DEF SetHubsReturns, instanceVars
<1>6. ASSUME NEW c \in Creators, NEW k \in Hosts, LookUp(c, k)
      PROVE  MTypes'
  BY <1>0, <1>6 DEF LookUp, instanceVars
<1>7. ASSUME NEW c \in Creators, CreateFailed(c)
      PROVE  MTypes'
  BY <1>0, <1>7 DEF CreateFailed, instanceVars
<1>8. ASSUME NEW c \in Creators, NEW i \in Instances, Create(c, i)
      PROVE  MTypes'
  BY <1>0, <1>1, <1>8 DEF Create
<1>9. ASSUME NEW i \in Instances, ModelStops(i)
      PROVE  MTypes'
  BY <1>0, <1>9 DEF ModelStops
<1>10. ASSUME NEW n \in Hosts, AskHub(n)
       PROVE  MTypes'
  BY <1>0, <1>10 DEF AskHub, instanceVars
<1>11. CASE HubIsFull \/ HubIsFound \/ NextRequest
  BY <1>0, <1>11 DEF HubIsFull, HubIsFound, NextRequest, instanceVars
<1>12. ASSUME UNCHANGED <<hosts, hubs, instanceVars, setter, creator, dispatch>>
       PROVE  MTypes'
  BY <1>0, <1>12 DEF instanceVars
<1> QED
  BY <1>0, <1>2, <1>3, <1>4, <1>5, <1>6, <1>7, <1>8, <1>9, <1>10, <1>11, <1>12
     DEF ManagerNext, SetHubsStep, DispatchStep, CreatorStep, WatchedStep, didLogin,
         CallAnswered, ActorStops, TimerStep, managerVars

\* Only a created hub is kept, and hubs are kept under their domains.
LEMMA MCreatedStep ==
    ASSUME MInv, MTypes', Keys' = Keys, hosts' = hosts, [ManagerNext]_managerVars
    PROVE  MCreated' /\ Removing'
<1> USE DEF MInv, MTypes, SetterStates, DispatchStates, Works, Idle, MCreated, Removing, Created
<1>1. Nobody \notin Instances /\ Nobody \notin Hosts
  BY NobodyAssumption
<1>2. ASSUME NEW c \in Creators, SetHubs(c)
      PROVE  MCreated' /\ Removing'
  BY <1>2 DEF SetHubs, instanceVars
<1>3. ASSUME NEW n \in Hosts, StopHub(n)
      PROVE  MCreated' /\ Removing'
  BY <1>1, <1>3 DEF StopHub, Removed
<1>4. CASE DeleteHub
  BY <1>4 DEF DeleteHub, instanceVars
<1>5. CASE SetHubsReturns
  BY <1>5 DEF SetHubsReturns, instanceVars
<1>6. ASSUME NEW c \in Creators, NEW k \in Hosts, LookUp(c, k)
      PROVE  MCreated' /\ Removing'
  BY <1>6 DEF LookUp, instanceVars
<1>7. ASSUME NEW c \in Creators, CreateFailed(c)
      PROVE  MCreated' /\ Removing'
  BY <1>7 DEF CreateFailed, instanceVars
<1>8. ASSUME NEW c \in Creators, NEW i \in Instances, Create(c, i)
      PROVE  MCreated' /\ Removing'
  <2>1. PICK host \in Hosts :
           /\ hubs' = [n \in DOMAIN hubs \cup {host} |-> IF n = host THEN i ELSE hubs[n]]
           /\ hostOf' = [hostOf EXCEPT ![i] = host]
    BY <1>8, KeysAreHosts DEF Create
  <2>2. hostOf[i] = Nobody /\ Created' = Created \cup {i}
    BY <1>1, <1>8, <2>1 DEF Create
  <2>3. \A n \in DOMAIN hubs : hubs[n] # i
    BY <1>1, <2>2
  <2>4. \A n \in DOMAIN hubs' : hostOf'[hubs'[n]] = n
    BY <2>1, <2>3
  <2>5. DOMAIN hubs \subseteq DOMAIN hubs'
    BY <2>1
  <2> QED
    BY <1>8, <2>2, <2>4, <2>5 DEF Create
<1>9. ASSUME NEW i \in Instances, ModelStops(i)
      PROVE  MCreated' /\ Removing'
  BY <1>9 DEF ModelStops
<1>10. ASSUME NEW n \in Hosts, AskHub(n)
       PROVE  MCreated' /\ Removing'
  BY <1>1, <1>10 DEF AskHub, instanceVars
<1>11. CASE HubIsFull \/ HubIsFound \/ NextRequest
  BY <1>11 DEF HubIsFull, HubIsFound, NextRequest, instanceVars
<1>12. ASSUME UNCHANGED <<hosts, hubs, instanceVars, setter, creator, dispatch>>
       PROVE  MCreated' /\ Removing'
  BY <1>12 DEF instanceVars
<1> QED
  BY <1>2, <1>3, <1>4, <1>5, <1>6, <1>7, <1>8, <1>9, <1>10, <1>11, <1>12
     DEF ManagerNext, SetHubsStep, DispatchStep, CreatorStep, WatchedStep, didLogin,
         CallAnswered, ActorStops, TimerStep, managerVars

\* Every step keeps the invariant of the manager,
LEMMA MInvStep == MInv /\ [ManagerNext]_managerVars => MInv'
BY MTypesStep, MCreatedStep DEF MInv

\* which holds at the start,
LEMMA MAtStart == ManagerInit => MInv
BY NobodyAssumption
   DEF ManagerInit, MInv, MTypes, MCreated, Removing, SetterStates, DispatchStates, Works,
       NoWork, Idle, Created

\* and so in every state.
LEMMA MInvariance == ManagerSpec => []MInv
BY MAtStart, MInvStep, PTL DEF ManagerSpec

-----------------------------------------------------------------------------
(* Hubs that are not lost, with one goroutine that creates them.           *)

\* A hub that runs is kept under its domain,
Kept == \A i \in Created \ stopped : hostOf[i] \in DOMAIN hubs /\ hubs[hostOf[i]] = i

\* and one that was stopped is kept only until it is deleted;
Leaving == \A n \in DOMAIN hubs :
               hubs[n] \in stopped => setter.at = "Stopped" /\ setter.name = n

\* the one to be deleted was stopped,
Deleting == setter.at = "Stopped" => hubs[setter.name] \in stopped

\* and there is none under the domain for which one is being made.
Making == \A c \in Creators :
              creator[c].making # Nobody => hosts[creator[c].making] \notin DOMAIN hubs

LostInv == Kept /\ Leaving /\ Deleting /\ Making

\* Every step keeps hubs from being lost.
LEMMA LostStep ==
    ASSUME OneCreator, MInv, MInv', LostInv, Keys' = Keys, hosts' = hosts,
           [ManagerNext]_managerVars
    PROVE  LostInv'
<1> USE DEF MInv, MTypes, SetterStates, DispatchStates, Works, Idle, MCreated, Removing, Created,
            LostInv, Kept, Leaving, Deleting, Making
<1>1. Nobody \notin Instances /\ Nobody \notin Hosts /\ Nobody \notin Keys
  BY NobodyAssumption, KeysAreHosts
<1>2. ASSUME NEW c \in Creators, SetHubs(c)
      PROVE  LostInv'
  <2>1. creator'[c].making = creator[c].making /\ \A d \in Creators : creator'[d].making = creator[d].making
    BY <1>2 DEF SetHubs, Resting, NoWork
  <2> QED
    BY <1>2, <2>1 DEF SetHubs, instanceVars
<1>3. ASSUME NEW n \in Hosts, StopHub(n)
      PROVE  LostInv'
  <2>1. n \in DOMAIN hubs /\ stopped' = stopped \cup {hubs[n]} /\ setter.at = "Removing"
        /\ setter'.at = "Stopped" /\ setter'.name = n /\ UNCHANGED <<hubs, hostOf, creator>>
    BY <1>3 DEF StopHub, Removed
  <2>2. \A m \in DOMAIN hubs : hubs[m] \in stopped' => m = n
    BY <2>1
  <2> QED
    BY <2>1, <2>2
<1>4. CASE DeleteHub
  <2>1. /\ setter.at = "Stopped" /\ hubs[setter.name] \in stopped /\ setter.name \in DOMAIN hubs
        /\ hubs' = [n \in DOMAIN hubs \ {setter.name} |-> hubs[n]]
        /\ setter'.at = "Removing" /\ UNCHANGED <<hostOf, stopped, creator>>
    BY <1>4 DEF DeleteHub, instanceVars
  <2> QED
    BY <2>1
<1>5. CASE SetHubsReturns
  BY <1>5 DEF SetHubsReturns, instanceVars
<1>6. ASSUME NEW c \in Creators, NEW k \in Hosts, LookUp(c, k)
      PROVE  LostInv'
  BY <1>6 DEF LookUp, instanceVars, Exists
<1>7. ASSUME NEW c \in Creators, CreateFailed(c)
      PROVE  LostInv'
  BY <1>7 DEF CreateFailed, instanceVars
<1>8. ASSUME NEW c \in Creators, NEW i \in Instances, Create(c, i)
      PROVE  LostInv'
  <2>1. PICK host \in Hosts :
           /\ host = hosts[creator[c].making]
           /\ hubs' = [n \in DOMAIN hubs \cup {host} |-> IF n = host THEN i ELSE hubs[n]]
           /\ hostOf' = [hostOf EXCEPT ![i] = host]
    BY <1>8, KeysAreHosts DEF Create
  <2>2. /\ host \notin DOMAIN hubs /\ hostOf[i] = Nobody /\ i \notin stopped
        /\ UNCHANGED <<stopped, setter>>
        /\ creator' = [creator EXCEPT ![c].making = Nobody]
    BY <1>1, <1>8, <2>1 DEF Create
  <2>3. Kept'
    BY <1>1, <2>1, <2>2
  <2>4. Leaving' /\ Deleting'
    BY <2>1, <2>2
  <2>5. Making'
    BY <2>2 DEF OneCreator
  <2> QED
    BY <2>3, <2>4, <2>5
<1>9. ASSUME NEW i \in Instances, ModelStops(i)
      PROVE  LostInv'
  BY <1>9 DEF ModelStops
<1>10. ASSUME UNCHANGED <<hosts, hubs, hostOf, stopped, setter, creator>>
       PROVE  LostInv'
  BY <1>10
<1> QED
  BY <1>2, <1>3, <1>4, <1>5, <1>6, <1>7, <1>8, <1>9, <1>10
     DEF ManagerNext, SetHubsStep, DispatchStep, CreatorStep, WatchedStep, didLogin,
         CallAnswered, ActorStops, TimerStep, AskHub, HubIsFull, HubIsFound, NextRequest,
         managerVars, instanceVars

\* The step of a hub whose key is its domain: it stays.
LEMMA WellKeyedStep ==
    ASSUME MInv, LostInv, LostInv', MInv', Keys' = Keys, hosts' = hosts, [ManagerNext]_managerVars,
           NEW n \in WellKeyed \cap DOMAIN hubs
    PROVE  n \in DOMAIN hubs' /\ hubs'[n] = hubs[n] /\ hubs[n] \notin stopped'
<1> USE DEF MInv, MTypes, SetterStates, MCreated, Removing, LostInv, Leaving, Deleting, Making
<1>1. n \in Keys /\ hubs[n] \notin stopped
  BY DEF WellKeyed
<1>2. ASSUME NEW m \in Hosts, StopHub(m)
      PROVE  n \in DOMAIN hubs' /\ hubs'[n] = hubs[n] /\ hubs[n] \notin stopped'
  BY <1>1, <1>2 DEF StopHub, Removed
<1>3. CASE DeleteHub
  BY <1>1, <1>3 DEF DeleteHub, instanceVars
<1>4. ASSUME NEW c \in Creators, NEW i \in Instances, Create(c, i)
      PROVE  n \in DOMAIN hubs' /\ hubs'[n] = hubs[n] /\ hubs[n] \notin stopped'
  BY <1>1, <1>4 DEF Create
<1>5. CASE UNCHANGED <<hubs, stopped>>
  BY <1>1, <1>5
<1> QED
  BY <1>2, <1>3, <1>4, <1>5
     DEF ManagerNext, SetHubsStep, DispatchStep, CreatorStep, WatchedStep, didLogin, SetHubs,
         SetHubsReturns, LookUp, CreateFailed, ModelStops,
         CallAnswered, ActorStops, TimerStep, AskHub, HubIsFull, HubIsFound, NextRequest,
         managerVars, instanceVars

-----------------------------------------------------------------------------
(* Requests that are answered, with any number of goroutines.              *)

\* Only hubs whose domain is no key are ever stopped or left untold, so none is
\* when every key is a domain.
Unconfigured ==
    /\ \A i \in stopped : hostOf[i] \notin Keys
    /\ Created \ stopped \subseteq serving
    /\ dispatch.at = "NotTold" => hostOf[dispatch.hub] \notin Keys
    /\ WellKeyed = Keys => \A i \in Created : hostOf[i] \in Keys

\* Every step keeps it so, whichever goroutines overlap.
LEMMA UnconfiguredStep ==
    ASSUME MInv, Unconfigured, Keys' = Keys, hosts' = hosts, [ManagerNext]_managerVars
    PROVE  Unconfigured'
<1> USE DEF MInv, MTypes, DispatchStates, Idle, MCreated, Created, Unconfigured
<1>1. (WellKeyed = Keys)' => WellKeyed = Keys
  BY DEF WellKeyed
<1>2. Nobody \notin Hosts
  BY NobodyAssumption
<1>3. ASSUME NEW n \in Hosts, StopHub(n)
      PROVE  Unconfigured'
  <2>1. n \notin Keys /\ hostOf[hubs[n]] = n /\ stopped' = stopped \cup {hubs[n]}
    BY <1>3 DEF StopHub, Removed
  <2> QED
    BY <1>1, <1>3, <2>1 DEF StopHub
<1>4. ASSUME NEW c \in Creators, NEW i \in Instances, Create(c, i)
      PROVE  Unconfigured'
  <2>1. PICK k \in Keys :
           /\ hosts[k] \in Hosts
           /\ hubs' = [n \in DOMAIN hubs \cup {hosts[k]} |-> IF n = hosts[k] THEN i ELSE hubs[n]]
           /\ hostOf' = [hostOf EXCEPT ![i] = hosts[k]]
    BY <1>4, KeysAreHosts DEF Create, Works
  <2>2. /\ i \notin Created /\ serving' = serving \cup {i}
        /\ UNCHANGED <<stopped, dispatch>>
    BY <1>4 DEF Create
  <2>3. WellKeyed = Keys => hosts[k] \in Keys
    BY DEF WellKeyed
  <2> QED
    BY <1>1, <1>2, <2>1, <2>2, <2>3
<1>5. ASSUME NEW i \in Instances, ModelStops(i)
      PROVE  Unconfigured'
  BY <1>1, <1>5 DEF ModelStops
<1>6. CASE DispatchStep
  BY <1>1, <1>6 DEF DispatchStep, HubIsFull, HubIsFound, NextRequest, AskHub, Told, instanceVars
<1>7. ASSUME UNCHANGED <<hosts, instanceVars, dispatch>>
      PROVE  Unconfigured'
  BY <1>1, <1>7 DEF instanceVars
<1> QED
  BY <1>3, <1>4, <1>5, <1>6, <1>7
     DEF ManagerNext, SetHubsStep, CreatorStep, WatchedStep, SetHubs, DeleteHub, SetHubsReturns,
         LookUp, CreateFailed, didLogin, CallAnswered, ActorStops, TimerStep, managerVars

-----------------------------------------------------------------------------
(* Timers in the company of their hubs.                                    *)

\* What the manager does to the timers is what module Timer knows of.
LEMMA TimersTakeSteps ==
    ASSUME MInv, [ManagerNext]_managerVars
    PROVE  [Timer!TimerNext]_(Timer!timerVars)
<1> USE DEF Timer!timerVars, timerVars, watchedVars, instanceVars
<1>1. ASSUME NEW n \in Hosts, StopHub(n)
      PROVE  [Timer!TimerNext]_(Timer!timerVars)
  <2>1. stopped' \cap Watched = (stopped \cap Watched) \cup ({hubs[n]} \cap Watched)
    BY <1>1 DEF StopHub
  <2>2. CASE hubs[n] \in Watched
    <3>1. Timer!Close(hubs[n])
      BY <1>1, <2>1, <2>2 DEF StopHub, Timer!Close
    <3> QED
      BY <2>2, <3>1 DEF Timer!TimerNext
  <2>3. CASE hubs[n] \notin Watched
    BY <1>1, <2>1, <2>3 DEF StopHub
  <2> QED
    BY <2>2, <2>3
<1>2. ASSUME NEW i \in Watched, NEW st \in {"Up", "Down"}, didLogin(i, st)
      PROVE  [Timer!TimerNext]_(Timer!timerVars)
  BY <1>2 DEF didLogin, Reaction, Timer!TimerNext, Timer!Calls
<1>3. ASSUME NEW i \in Watched, TimerStep(i)
      PROVE  [Timer!TimerNext]_(Timer!timerVars)
  BY <1>3 DEF TimerStep, Timer!TimerNext
<1>4. CASE UNCHANGED <<stopped, timerVars>>
  BY <1>4
<1> QED
  BY <1>1, <1>2, <1>3, <1>4
     DEF ManagerNext, SetHubsStep, DispatchStep, CreatorStep, WatchedStep, SetHubs,
         DeleteHub, SetHubsReturns, LookUp, CreateFailed, Create, ModelStops,
         CallAnswered, ActorStops, AskHub, HubIsFull, HubIsFound, NextRequest, managerVars

\* So the timers of the hubs behave as timers, whatever the manager does.
LEMMA TimersAreTimers == ManagerSpec => Timer!TimerSpec
<1>1. ManagerInit => Timer!NewTimer
  BY DEF ManagerInit, Timer!NewTimer
<1>2. MInv /\ [ManagerNext]_managerVars => [Timer!TimerNext]_(Timer!timerVars)
  BY TimersTakeSteps
<1> QED
  BY <1>1, <1>2, MInvariance, PTL DEF ManagerSpec, Timer!TimerSpec

-----------------------------------------------------------------------------
(* The theorems.                                                           *)

\* What TimerProofs shows of a timer holds of the timers of the hubs.
LEMMA TimerSpecs == Timer!TimerSpec => TP!TimerSpec
<1>1. Timer!NewTimer => TP!NewTimer
  BY DEF Timer!NewTimer, TP!NewTimer
<1>2. [Timer!TimerNext]_(Timer!timerVars) => [TP!TimerNext]_(TP!timerVars)
  BY DEF Timer!TimerNext, TP!TimerNext, Timer!timerVars, TP!timerVars,
         Timer!LoopStep, TP!LoopStep, Timer!ActionStep, TP!ActionStep, Timer!Calls, TP!Calls,
         Timer!Tick, TP!Tick, Timer!didFinishAction, TP!didFinishAction,
         Timer!TakePause, TP!TakePause, Timer!TakeResume, TP!TakeResume, Timer!Stop, TP!Stop,
         Timer!ActionReturns, TP!ActionReturns, Timer!ActionIsLeft, TP!ActionIsLeft,
         Timer!Close, TP!Close, Timer!Call, TP!Call, Timer!Loops, TP!Loops,
         Timer!Answer, TP!Answer, Timer!executeAction, TP!executeAction
<1> QED
  BY <1>1, <1>2, PTL DEF Timer!TimerSpec, TP!TimerSpec

\* The timer of a hub is in the state that its goroutines are in, whatever
\* login, the timer and the removal of the hub do to it in between.
THEOREM WatchedTimersCorrect == ManagerSpec => []WatchedTimersConsistent
<1>1. TP!TimerConsistent => WatchedTimersConsistent
  BY DEF TP!TimerConsistent, WatchedTimersConsistent, Timer!TimerConsistent, TP!Loops, Timer!Loops
<1>2. TP!TimerSpec => []TP!TimerConsistent
  BY TP!TimerConsistencyCorrect
<1> QED
  BY <1>1, <1>2, TimersAreTimers, TimerSpecs, PTL

\* And it is a pausable job, as module Hub takes it to be.
THEOREM WatchedTimersRefinement == ManagerSpec => WatchedTimersAreJobs
<1>1. TP!TimerSpec => TP!ImplementsJob
  BY TP!TimerRefinement
<1>2. TP!Job!JobInit => Timer!Job!JobInit
  BY DEF TP!Job!JobInit, Timer!Job!JobInit, TP!ModeOf, Timer!ModeOf, TP!Retired, Timer!Retired,
         TP!Loops, Timer!Loops
<1>3. [TP!Job!JobNext]_(TP!Job!jobVars) => [Timer!Job!JobNext]_(Timer!Job!jobVars)
  BY DEF TP!Job!JobNext, Timer!Job!JobNext, TP!Job!jobVars, Timer!Job!jobVars,
         TP!Job!Begin, Timer!Job!Begin, TP!Job!Work, Timer!Job!Work, TP!Job!Done, Timer!Job!Done,
         TP!Job!Pause, Timer!Job!Pause, TP!Job!Resume, Timer!Job!Resume,
         TP!Job!Retire, Timer!Job!Retire, TP!Job!Leave, Timer!Job!Leave,
         TP!ModeOf, Timer!ModeOf, TP!Retired, Timer!Retired, TP!Loops, Timer!Loops
<1>4. TP!ImplementsJob => Timer!ImplementsJob
  BY <1>2, <1>3, PTL
     DEF TP!ImplementsJob, Timer!ImplementsJob, TP!Job!JobSpec, Timer!Job!JobSpec
<1> QED
  BY <1>1, <1>4, TimersAreTimers, TimerSpecs, PTL DEF WatchedTimersAreJobs

\* The actors of watched hubs, and what they know of login.
ActorTypes == /\ status \in [Watched -> {"Up", "Down"}]
              /\ actor \in [Watched -> {"Idle", "Calling", "Gone"}]

\* Every step keeps these types.
LEMMA ActorTypesStep == ActorTypes /\ [ManagerNext]_managerVars => ActorTypes'
<1> SUFFICES ASSUME ActorTypes, [ManagerNext]_managerVars
             PROVE  ActorTypes'
  OBVIOUS
<1>1. ASSUME NEW i \in Watched, NEW st \in {"Up", "Down"}, didLogin(i, st)
      PROVE  ActorTypes'
  BY <1>1 DEF ActorTypes, didLogin
<1>2. ASSUME NEW i \in Watched, CallAnswered(i) \/ ActorStops(i)
      PROVE  ActorTypes'
  BY <1>2 DEF ActorTypes, CallAnswered, ActorStops
<1>3. CASE UNCHANGED <<status, actor>>
  BY <1>3 DEF ActorTypes
<1> QED
  BY <1>1, <1>2, <1>3
     DEF ManagerNext, SetHubsStep, DispatchStep, CreatorStep, WatchedStep, SetHubs, StopHub,
         DeleteHub, SetHubsReturns, LookUp, CreateFailed, Create, ModelStops, TimerStep,
         AskHub, HubIsFull, HubIsFound, NextRequest, managerVars, watchedVars

\* Every variable of the hub manager has its type: what it keeps under a name
\* is a hub that was created.
THEOREM ManagerTypeCorrect == ManagerSpec => []ManagerTypeOK
<1>1. ManagerInit => ActorTypes
  BY DEF ManagerInit, ActorTypes
<1>2. TP!TimerSpec => []TP!TimerTypeOK
  BY TP!TimerTypeCorrect
<1>3. TP!TimerTypeOK => Timer!TimerTypeOK
  BY DEF TP!TimerTypeOK, Timer!TimerTypeOK, TP!TimerStates, Timer!TimerStates, TP!Calls, Timer!Calls
<1>4. MInv /\ ActorTypes /\ Timer!TimerTypeOK => ManagerTypeOK
  <2> SUFFICES ASSUME MInv, ActorTypes, Timer!TimerTypeOK
               PROVE  ManagerTypeOK
    OBVIOUS
  <2>1. \A n \in DOMAIN hubs : hubs[n] \in Created
    BY NobodyAssumption DEF MInv, MTypes, MCreated, Created
  <2>2. \A c \in Creators : creator[c].todo \subseteq Keys /\ creator[c].making \in Keys \cup {Nobody}
    BY DEF MInv, MTypes, Works
  <2> QED
    BY <2>1, <2>2 DEF MInv, MTypes, MCreated, ActorTypes, ManagerTypeOK
<1> QED
  BY <1>1, <1>2, <1>3, <1>4, ActorTypesStep, MInvariance, TimersAreTimers, TimerSpecs, PTL
     DEF ManagerSpec

\* No request of a scanner is left without an answer, and dispatching never
\* waits for a hub that is gone, but over a hub whose domain is no key of the
\* secret; never, then, when every key is a domain.  Between finding the hub,
\* asking it and looking it up, the manager and overlapping background goroutines
\* may stop, replace and make hubs as they will.
THEOREM RequestsAreAnsweredCorrect == ManagerSpec => []RequestsAreAnswered
<1>1. ManagerInit => Unconfigured
  BY DEF ManagerInit, Unconfigured, Idle, Created
<1>2. MInv /\ Unconfigured /\ [ManagerNext]_managerVars => Unconfigured'
  BY MTypesStep, UnconfiguredStep
<1>3. MInv /\ Unconfigured => RequestsAreAnswered
  <2> SUFFICES ASSUME MInv, Unconfigured, Unanswered
               PROVE  hostOf[dispatch.hub] \notin Keys /\ WellKeyed # Keys
    BY DEF RequestsAreAnswered
  <2>1. dispatch.hub \in Created
    BY DEF Unanswered, MInv, MTypes, MCreated, DispatchStates, Idle
  <2>2. hostOf[dispatch.hub] \notin Keys
    BY <2>1 DEF Unanswered, Unconfigured
  <2> QED
    BY <2>1, <2>2 DEF Unconfigured
<1> QED
  BY <1>1, <1>2, <1>3, MInvariance, PTL DEF ManagerSpec

\* Both invariants hold in every state while background goroutines do not overlap.
LEMMA LostInvariance == OneCreator /\ ManagerSpec => [](MInv /\ LostInv)
<1>1. ManagerInit => LostInv
  BY DEF ManagerInit, LostInv, Kept, Leaving, Deleting, Making, Idle, NoWork, Created
<1>2. CASE OneCreator
  <2>1. MInv /\ LostInv /\ [ManagerNext]_managerVars => (MInv /\ LostInv)'
    BY <1>2, MInvStep, MTypesStep, LostStep
  <2> QED
    BY <1>1, <2>1, MAtStart, PTL DEF ManagerSpec
<1>3. CASE ~OneCreator
  BY <1>3
<1> QED
  BY <1>2, <1>3

\* While one goroutine at a time creates hubs, none is lost: each that runs is
\* kept under its domain, and none that was stopped for longer than it takes to
\* delete it.  Two that overlap may each make one for a domain (hubmanager.go).
THEOREM NoHubIsLostCorrect == OneCreator /\ ManagerSpec => []NoHubIsLost
<1>1. MInv /\ LostInv => NoHubIsLost
  BY DEF LostInv, Kept, Leaving, NoHubIsLost
<1> QED
  BY <1>1, LostInvariance, PTL

\* Then, too, a hub whose key is its domain is never stopped or replaced.
THEOREM WellKeyedHubsStayCorrect == OneCreator /\ ManagerSpec => WellKeyedHubsStay
<1> DEFINE Stay == \A n \in WellKeyed \cap DOMAIN hubs :
                       n \in DOMAIN hubs' /\ hubs'[n] = hubs[n] /\ hubs[n] \notin stopped'
<1>1. MInv /\ LostInv /\ (MInv /\ LostInv)' /\ [ManagerNext]_managerVars => [Stay]_managerVars
  BY MTypesStep, WellKeyedStep
<1>2. [Stay]_managerVars =>
        [\A n \in WellKeyed \cap DOMAIN hubs :
             n \in DOMAIN hubs' /\ hubs'[n] = hubs[n] /\ hubs[n] \notin stopped']_managerVars
  OBVIOUS
<1> HIDE DEF Stay
<1> QED
  BY <1>1, <1>2, LostInvariance, PTL DEF ManagerSpec, WellKeyedHubsStay
=============================================================================
