------------------------------ MODULE HubProofs ------------------------------
(***************************************************************************)
(* Theorems about Hub, for any hubs, scans, reports and verdicts, and any  *)
(* number of updates in flight.                                            *)
(***************************************************************************)
EXTENDS Hub, TLAPS

\* The steps of a hub client and its Black Duck, in which a scan may be uploaded
\* whether or not the client waits for it, as after a restart of perceptor.
HubMoves == HubNext \/ \E h \in Hubs, n \in Shas : Upload(h, n)

-----------------------------------------------------------------------------
(* Timers, and what their jobs have in hand.                               *)

\* What TimersFollowLogin says of one timer.
Follows(h, t) ==
    /\ status[h] = "Down" => timer[h][t] # "Ready"
    /\ status[h] = "Down" /\ timer[h][t] \in Running => pauseQueued[h][t] = TRUE
    /\ status[h] = "Up" /\ timer[h][t] = "Paused" => pauseQueued[h][t] = TRUE

\* A job that reports has an answer that is to be reported.
HasAnswer(h, t) ==
    timer[h][t] = "Reporting" => answer[h][t] \in Answer /\ Reportable(t, answer[h][t])

TimerTypes ==
    /\ status \in [Hubs -> {"Up", "Down"}]
    /\ timer \in [Hubs -> [Timers -> TimerStates]]
    /\ pauseQueued \in [Hubs -> [Timers -> BOOLEAN]]
    /\ todo \in [Hubs -> [Timers -> SUBSET Shas]]
    /\ answer \in [Hubs -> [Timers -> Answer \cup {NoAnswer}]]
    /\ hasFetched \in [Hubs -> BOOLEAN]

TimerInv ==
    /\ TimerTypes
    /\ \A h \in Hubs, t \in Timers : Follows(h, t)
    /\ \A h \in Hubs, t \in Ticking : HasAnswer(h, t)

\* Only shas have code locations.
RemoteInv == DOMAIN remote = Hubs /\ \A h \in Hubs : Located(h) \subseteq Shas

\* A hub has its scans by their names.
ScansTyped ==
    /\ DOMAIN scans = Hubs
    /\ \A h \in Hubs : Names(h) \subseteq Shas /\ scans[h] \in [Names(h) -> Scan]

UpdatesInv == IsABag(updates) /\ DOMAIN updates \subseteq Answer

\* The Black Duck only ever has scans of images.
LEMMA RemoteStep ==
    ASSUME RemoteInv, [HubMoves]_hubVars
    PROVE  RemoteInv'
<1>1. ASSUME NEW h \in Hubs, NEW n \in Shas, Upload(h, n)
      PROVE  RemoteInv'
  BY <1>1 DEF Upload, RemoteInv, Located
<1>2. ASSUME NEW h \in Hubs, NEW n \in Shas, NEW v \in Verdicts, RemoteFinish(h, n, v)
      PROVE  RemoteInv'
  BY <1>2 DEF RemoteFinish, RemoteInv, Located
<1>3. ASSUME UNCHANGED remote
      PROVE  RemoteInv'
  BY <1>3 DEF RemoteInv, Located
<1> QED
  BY <1>1, <1>2, <1>3
     DEF HubMoves, HubNext, HubInternal, hubVars, LoginFails, LoginSucceeds, fetchAllScans, didFetchScans,
         JobStep, Tick, Return, Ask, Report, fetchScan, StartScanClient, FinishScanClient,
         Deliver

\* A timer step of one hub keeps the timers in order.
LEMMA TimerStep ==
    ASSUME TimerInv, RemoteInv, ScansTyped, [HubMoves]_hubVars
    PROVE  TimerInv'
<1> USE DEF TimerInv, TimerTypes, TimerStates, Timers, Ticking, Running, Follows, HasAnswer
<1>1. ASSUME NEW h \in Hubs, NEW t \in Ticking, Tick(h, t)
      PROVE  TimerInv'
  BY <1>1 DEF Tick, StartState
<1>2. ASSUME NEW h \in Hubs, NEW t \in Ticking, Return(h, t)
      PROVE  TimerInv'
  BY <1>2 DEF Return, Rested
<1>3. ASSUME NEW h \in Hubs, LoginFails(h)
      PROVE  TimerInv'
  BY <1>3 DEF LoginFails
<1>4. ASSUME NEW h \in Hubs, LoginSucceeds(h)
      PROVE  TimerInv'
  <2>1. /\ \A u \in Timers :
              /\ timer'[h][u] = IF timer[h][u] = "Paused" THEN StartState(u) ELSE timer[h][u]
              /\ pauseQueued'[h][u] = IF timer[h][u] = "Paused" THEN FALSE ELSE pauseQueued[h][u]
        /\ status'[h] = "Up"
        /\ \A g \in Hubs \ {h} : /\ status'[g] = status[g] /\ timer'[g] = timer[g]
                                 /\ pauseQueued'[g] = pauseQueued[g]
    BY <1>4 DEF LoginSucceeds
  <2>2. \A u \in Timers : StartState(u) \in Running /\ StartState(u) # "Reporting"
    BY DEF StartState
  <2>3. TimerTypes'
    <3>1. [u \in Timers |-> IF timer[h][u] = "Paused" THEN StartState(u) ELSE timer[h][u]]
             \in [Timers -> TimerStates]
      BY <2>2
    <3>2. [u \in Timers |-> IF timer[h][u] = "Paused" THEN FALSE ELSE pauseQueued[h][u]]
             \in [Timers -> BOOLEAN]
      <4>1. \A u \in Timers : (IF timer[h][u] = "Paused" THEN FALSE ELSE pauseQueued[h][u]) \in BOOLEAN
        <5> TAKE u \in Timers
        <5>1. pauseQueued[h][u] \in BOOLEAN /\ FALSE \in BOOLEAN
          OBVIOUS
        <5>2. CASE timer[h][u] = "Paused"
          BY <5>1, <5>2, Zenon
        <5>3. CASE timer[h][u] # "Paused"
          BY <5>1, <5>3, Zenon
        <5> QED
          BY <5>2, <5>3
      <4> QED
        BY <4>1, Zenon
    <3> QED
      BY <1>4, <3>1, <3>2 DEF LoginSucceeds
  <2>4. \A g \in Hubs, u \in Timers : Follows(g, u)'
    BY <2>1, <2>2
  <2>5. \A g \in Hubs, u \in Ticking : HasAnswer(g, u)'
    BY <1>4, <2>1, <2>2 DEF LoginSucceeds, Reportable
  <2> QED
    BY <2>3, <2>4, <2>5
<1>5. ASSUME NEW h \in Hubs, fetchAllScans(h)
      PROVE  TimerInv'
  <2>1. PICK s \in {"Reporting", "Paused", "Ready"} :
           /\ timer' = [timer EXCEPT ![h]["allScans"] = s]
           /\ s = "Paused" => pauseQueued[h]["allScans"] = TRUE
           /\ s = "Ready" => pauseQueued[h]["allScans"] = FALSE
    BY <1>5 DEF fetchAllScans, Rested
  <2>2. todo' \in [Hubs -> [Timers -> SUBSET Shas]]
    <3>1. PICK s1 \in SUBSET Shas : todo' = [todo EXCEPT ![h]["allScans"] = s1]
      <4>1. Located(h) \in SUBSET Shas /\ todo[h]["allScans"] \in SUBSET Shas
        BY DEF RemoteInv
      <4>2. CASE todo' = [todo EXCEPT ![h]["allScans"] = Located(h)]
        BY <4>1, <4>2
      <4>3. CASE UNCHANGED todo
        <5>1. todo' = [todo EXCEPT ![h]["allScans"] = todo[h]["allScans"]]
          BY <4>3
        <5> QED
          BY <4>1, <5>1
      <4> QED
        BY <1>5, <4>2, <4>3 DEF fetchAllScans
    <3> QED
      BY <3>1
  <2>3. TimerTypes'
    BY <1>5, <2>1, <2>2 DEF fetchAllScans
  <2>4. \A g \in Hubs, u \in Timers : Follows(g, u)'
    BY <1>5, <2>1 DEF fetchAllScans
  <2>5. \A g \in Hubs, u \in Ticking : HasAnswer(g, u)'
    BY <1>5, <2>1 DEF fetchAllScans, Reportable
  <2> QED
    BY <2>3, <2>4, <2>5
<1>6. ASSUME NEW h \in Hubs, didFetchScans(h)
      PROVE  TimerInv'
  BY <1>6 DEF didFetchScans, Rested
<1>7. ASSUME NEW h \in Hubs, NEW t \in Ticking, Ask(h, t)
      PROVE  TimerInv'
  BY <1>7 DEF Ask, InStage, ScansTyped
<1>8. ASSUME NEW h \in Hubs, NEW t \in Ticking, NEW n \in Shas, fetchScan(h, t, n)
      PROVE  TimerInv'
  <2>1. /\ t \in Timers /\ timer[h][t] = "Fetching"
        /\ UNCHANGED <<status, pauseQueued, hasFetched>>
        /\ todo' = [todo EXCEPT ![h][t] = @ \ {n}]
    BY <1>8 DEF fetchScan, FetchesNext, PassOver, TakeAnswer
  <2>2. CASE PassOver(h, t, n)
    BY <2>1, <2>2 DEF PassOver
  <2>3. CASE TakeAnswer(h, t, n)
    <3>1. PICK a \in Answer : Reportable(t, a) /\ answer' = [answer EXCEPT ![h][t] = a]
      BY <2>3 DEF TakeAnswer, Answers
    <3>2. timer' = [timer EXCEPT ![h][t] = "Reporting"]
      BY <2>3 DEF TakeAnswer
    <3>3. TimerTypes'
      BY <2>1, <3>1, <3>2
    <3>4. \A g \in Hubs, u \in Timers : Follows(g, u)'
      BY <2>1, <3>2
    <3>5. \A g \in Hubs, u \in Ticking : HasAnswer(g, u)'
      BY <3>1, <3>2 DEF Reportable
    <3> QED
      BY <3>3, <3>4, <3>5
  <2> QED
    BY <1>8, <2>2, <2>3 DEF fetchScan
<1>9. ASSUME NEW h \in Hubs, NEW t \in Ticking, Report(h, t)
      PROVE  TimerInv'
  BY <1>9 DEF Report
<1>10. ASSUME UNCHANGED <<status, timerVars, hasFetched>>
       PROVE  TimerInv'
  BY <1>10 DEF timerVars
<1> QED
  BY <1>1, <1>2, <1>3, <1>4, <1>5, <1>6, <1>7, <1>8, <1>9, <1>10
     DEF HubMoves, HubNext, HubInternal, hubVars, JobStep, timerVars, StartScanClient, FinishScanClient,
         Upload, RemoteFinish, Deliver

-----------------------------------------------------------------------------
(* Scans, and the updates of their results.                                *)

\* What StageMatchesResults says of one scan.
VerdictOf(scan) ==
    IF scan.results = NoResults THEN "none" ELSE ScanSummaryStatus(scan.results)

Matches(scan) ==
    /\ scan.stage \in {"Unknown", "ScanClient"} => VerdictOf(scan) = "none"
    /\ scan.stage = "HubScan" => VerdictOf(scan) \in {"none", "InProgress"}
    /\ scan.stage = "Complete" => VerdictOf(scan) \in {"Success", "Failure"}
    /\ scan.stage = "Failure" => VerdictOf(scan) \in {"none", "Failure"}

ScansInv == ScansTyped /\ \A h \in Hubs : \A n \in Names(h) : Matches(scans[h][n])

\* A scan whose stage is known stays so.
KeepsKnown(h, n) == scans[h][n].stage # "Unknown" => scans'[h][n].stage # "Unknown"

KeepsScans == \A h \in Hubs : \A n \in Names(h) : n \in Names(h)' /\ KeepsKnown(h, n)

\* The scans of a hub that wait for their client.
Clients(h) == InStage(h, {"ScanClient"})

\* Every set of summaries has one status.
LEMMA SummaryStatusType ==
    \A r : ScanSummaryStatus(r) \in {"Success", "InProgress", "Failure"}
BY DEF ScanSummaryStatus

\* The stage for the results of a scan matches them.
LEMMA StageForMatches ==
    ASSUME NEW r \in ScanResults
    PROVE  LET scan == [stage |-> StageFor(r), results |-> r]
           IN  scan \in Scan /\ Matches(scan) /\ scan.stage \notin {"Unknown", "ScanClient"}
BY SummaryStatusType, NoResultsAssumption DEF StageFor, Scan, ScanStages, Matches, VerdictOf

\* The scan of one name is set, the others stay.
LEMMA SetScanStep ==
    ASSUME ScansInv, NEW h \in Hubs, NEW n \in Shas, NEW scan \in Scan, Matches(scan),
           scan.stage # "Unknown", SetScan(h, n, scan)
    PROVE  /\ ScansInv' /\ KeepsScans
           /\ \A g \in Hubs \ {h} : Clients(g)' = Clients(g)
           /\ Clients(h)' \subseteq IF scan.stage = "ScanClient" THEN Clients(h) \cup {n}
                                    ELSE Clients(h) \ {n}
<1>1. /\ DOMAIN scans' = Hubs
      /\ scans'[h] = [m \in Names(h) \cup {n} |-> IF m = n THEN scan ELSE scans[h][m]]
      /\ \A g \in Hubs \ {h} : scans'[g] = scans[g]
  BY DEF SetScan, ScansInv, ScansTyped
<1>2. /\ Names(h)' = Names(h) \cup {n}
      /\ \A g \in Hubs \ {h} : Names(g)' = Names(g)
  BY <1>1 DEF Names
<1>3. ScansTyped'
  BY <1>1, <1>2 DEF ScansInv, ScansTyped
<1>4. ScansInv' /\ KeepsScans
  BY <1>1, <1>2, <1>3 DEF ScansInv, ScansTyped, KeepsScans, KeepsKnown
<1>5. \A g \in Hubs \ {h} : Clients(g)' = Clients(g)
  BY <1>1, <1>2 DEF Clients, InStage
<1>6. Clients(h)' \subseteq IF scan.stage = "ScanClient" THEN Clients(h) \cup {n}
                            ELSE Clients(h) \ {n}
  BY <1>1, <1>2 DEF Clients, InStage
<1> QED
  BY <1>4, <1>5, <1>6

\* No scan has a client that had none.
FewerClients == \A h \in Hubs : Clients(h)' \subseteq Clients(h)

\* A step that leaves the scans alone leaves the clients alone.
LEMMA NoScansStep ==
    ASSUME ScansInv, UNCHANGED scans
    PROVE  ScansInv' /\ KeepsScans /\ FewerClients
BY DEF ScansInv, ScansTyped, KeepsScans, KeepsKnown, FewerClients, Clients, InStage, Names

\* Listing the code locations only adds scans nothing is known of.
LEMMA ListingStep ==
    ASSUME ScansInv, TimerInv, NEW h \in Hubs, didFetchScans(h)
    PROVE  ScansInv' /\ KeepsScans /\ FewerClients
<1>1. PICK listed \in SUBSET Shas : scans' = [scans EXCEPT ![h] = Listed(h, listed)]
  <2>1. todo[h]["allScans"] \in SUBSET Shas
    BY DEF TimerInv, TimerTypes, Timers
  <2>2. scans' = [scans EXCEPT ![h] = Listed(h, todo[h]["allScans"])]
    BY DEF didFetchScans
  <2> QED
    BY <2>1, <2>2
<1>2. UnknownScan \in Scan /\ Matches(UnknownScan)
  BY DEF UnknownScan, Scan, ScanStages, Matches, VerdictOf
<1>3. /\ DOMAIN scans' = Hubs
      /\ scans'[h] = [n \in Names(h) \cup listed |->
                         IF n \in Names(h) THEN scans[h][n] ELSE UnknownScan]
      /\ \A g \in Hubs \ {h} : scans'[g] = scans[g]
  BY <1>1 DEF Listed, ScansInv, ScansTyped
<1>4. /\ Names(h)' = Names(h) \cup listed
      /\ \A g \in Hubs \ {h} : Names(g)' = Names(g)
  BY <1>3 DEF Names
<1>5. ScansTyped'
  BY <1>1, <1>2, <1>3, <1>4 DEF ScansInv, ScansTyped
<1>6. ScansInv' /\ KeepsScans
  BY <1>2, <1>3, <1>4, <1>5 DEF ScansInv, ScansTyped, KeepsScans, KeepsKnown
<1>7. FewerClients
  <2>1. UnknownScan.stage # "ScanClient"
    BY DEF UnknownScan
  <2>2. Clients(h)' \subseteq Clients(h)
    BY <1>3, <1>4, <2>1 DEF Clients, InStage
  <2>3. \A g \in Hubs \ {h} : Clients(g)' \subseteq Clients(g)
    BY <1>3, <1>4 DEF Clients, InStage
  <2> QED
    BY <2>2, <2>3 DEF FewerClients
<1> QED
  BY <1>6, <1>7

\* What a job reports of a scan ends its stage ScanClient, if it has it.
LEMMA ReportStep ==
    ASSUME ScansInv, TimerInv, NEW h \in Hubs, NEW t \in Ticking, Report(h, t)
    PROVE  ScansInv' /\ KeepsScans /\ FewerClients
<1>1. PICK u \in Answer : u = answer[h][t] /\ Reportable(t, u)
  BY DEF Report, TimerInv, HasAnswer
<1>2. u.name \in Shas /\ u.results \in ScanResults
  BY DEF Answer
<1>3. CASE t = "unknown"
  <2>1. SetScan(h, u.name, [stage |-> StageFor(u.results), results |-> u.results])
    BY <1>1, <1>3 DEF Report, didFetchScanResults
  <2> QED
    BY <1>2, <2>1, StageForMatches, SetScanStep DEF FewerClients
<1>4. CASE t = "completion" /\ UNCHANGED scans
  BY <1>4, NoScansStep
<1>5. CASE t = "completion" /\ scans' # scans
  <2>1. SetScan(h, u.name, [stage |-> "Complete", results |-> u.results])
    BY <1>1, <1>5 DEF Report, scanDidFinish
  <2>2. ScanSummaryStatus(u.results) \in {"Success", "Failure"}
    BY <1>1, <1>5, SummaryStatusType DEF Reportable
  <2>3. [stage |-> "Complete", results |-> u.results] \in Scan
    BY <1>2 DEF Scan, ScanStages
  <2>4. Matches([stage |-> "Complete", results |-> u.results])
    BY <1>2, <2>2, NoResultsAssumption DEF Matches, VerdictOf
  <2> QED
    BY <1>2, <2>1, <2>3, <2>4, SetScanStep DEF FewerClients
<1> QED
  BY <1>3, <1>4, <1>5 DEF Ticking

\* StartScanClient gives a client to that scan only.
LEMMA StartStep ==
    ASSUME ScansInv, NEW h \in Hubs, NEW n \in Shas, StartScanClient(h, n)
    PROVE  /\ ScansInv' /\ KeepsScans
           /\ Clients(h)' \subseteq Clients(h) \cup {n}
           /\ \A g \in Hubs \ {h} : Clients(g)' \subseteq Clients(g)
<1>1. [stage |-> "ScanClient", results |-> NoResults] \in Scan
  BY DEF Scan, ScanStages
<1>2. Matches([stage |-> "ScanClient", results |-> NoResults])
  BY DEF Matches, VerdictOf
<1> QED
  BY <1>1, <1>2, SetScanStep DEF StartScanClient

\* FinishScanClient takes the client from the scan.
LEMMA FinishStep ==
    ASSUME ScansInv, NEW h \in Hubs, NEW n \in Shas, NEW failed \in BOOLEAN,
           FinishScanClient(h, n, failed)
    PROVE  /\ ScansInv' /\ KeepsScans /\ FewerClients
           /\ n \notin Clients(h)'
<1>1. CASE n \notin InStage(h, {"ScanClient"}) /\ UNCHANGED scans
  BY <1>1, NoScansStep DEF Clients, FewerClients
<1>2. CASE /\ n \in InStage(h, {"ScanClient"})
           /\ scans' = [scans EXCEPT ![h][n].stage = IF failed THEN "Failure" ELSE "HubScan"]
  <2>1. n \in Names(h) /\ scans[h][n].stage = "ScanClient" /\ scans[h][n] \in Scan
    BY <1>2 DEF InStage, ScansInv, ScansTyped
  <2>2. PICK s \in {"Failure", "HubScan"} :
           scans' = [scans EXCEPT ![h] = [scans[h] EXCEPT ![n] = [scans[h][n] EXCEPT !.stage = s]]]
    BY <1>2
  <2>3. PICK scan : scan = [scans[h][n] EXCEPT !.stage = s]
    OBVIOUS
  <2>4. scan \in Scan /\ scan.stage = s /\ scan.results = scans[h][n].results
    BY <2>1, <2>2, <2>3 DEF Scan, ScanStages
  <2>5. Matches(scan)
    BY <2>1, <2>2, <2>4 DEF Matches, VerdictOf, ScansInv
  <2>6. SetScan(h, n, scan)
    <3>1. [scans[h] EXCEPT ![n] = scan]
             = [m \in Names(h) \cup {n} |-> IF m = n THEN scan ELSE scans[h][m]]
      BY <2>1 DEF ScansInv, ScansTyped
    <3> QED
      BY <2>2, <2>3, <3>1 DEF SetScan
  <2> QED
    BY <2>2, <2>4, <2>5, <2>6, SetScanStep DEF FewerClients
<1> QED
  BY <1>1, <1>2 DEF FinishScanClient

\* What happens to the scans of hub clients by themselves, or when an update is
\* read, or a scan uploaded.
HubChores ==
    \/ \E h \in Hubs : HubInternal(h)
    \/ \E h \in Hubs, n \in Shas : Upload(h, n)
    \/ \E u \in Answer : Deliver(u)

\* None of that gives a client to a scan.
LEMMA ChoresStep ==
    ASSUME ScansInv, TimerInv, HubChores
    PROVE  ScansInv' /\ KeepsScans /\ FewerClients
<1>1. ASSUME UNCHANGED scans
      PROVE  ScansInv' /\ KeepsScans /\ FewerClients
  BY <1>1, NoScansStep
<1> QED
  BY <1>1, ListingStep, ReportStep
     DEF HubChores, HubInternal, LoginFails, LoginSucceeds, fetchAllScans, JobStep, Tick,
         Return, Ask, fetchScan, Upload, RemoteFinish, Deliver

\* Every step keeps the scans and their results in order, and every scan.
LEMMA ScansStep ==
    ASSUME ScansInv, TimerInv, [HubMoves]_hubVars
    PROVE  ScansInv' /\ KeepsScans
<1>1. CASE UNCHANGED hubVars
  BY <1>1, NoScansStep DEF hubVars
<1> QED
  BY <1>1, ChoresStep, StartStep, FinishStep DEF HubMoves, HubNext, HubChores

-----------------------------------------------------------------------------
(* Updates.                                                                *)

\* Whatever is counted, with a count of at least one, makes a bag.
LEMMA CountsMakeABag ==
    ASSUME NEW S, NEW counts \in [S -> Nat \ {0}]
    PROVE  IsABag(counts) /\ DOMAIN counts = S
<1>1. Nat \ {0} = {n \in Nat : n > 0}
  OBVIOUS
<1> QED
  BY <1>1 DEF IsABag

\* An update in flight more or less leaves the others in flight, and counted.
LEMMA BagSteps ==
    ASSUME NEW B, IsABag(B), NEW x
    PROVE  /\ IsABag(BagAdd(B, x)) /\ DOMAIN BagAdd(B, x) = DOMAIN B \cup {x}
           /\ IsABag(BagRemove(B, x)) /\ DOMAIN BagRemove(B, x) \subseteq DOMAIN B
           /\ DOMAIN B \ {x} \subseteq DOMAIN BagRemove(B, x)
<1>1. B \in [DOMAIN B -> Nat \ {0}]
  BY DEF IsABag
<1>2. BagAdd(B, x) \in [DOMAIN B \cup {x} -> Nat \ {0}]
  <2>1. CASE x \in DOMAIN B
    <3>1. \A e \in DOMAIN B : B[e] \in Nat \ {0} /\ B[e] + 1 \in Nat \ {0}
      BY <1>1
    <3>2. BagAdd(B, x) \in [DOMAIN B -> Nat \ {0}]
      BY <2>1, <3>1 DEF BagAdd
    <3>3. DOMAIN B \cup {x} = DOMAIN B
      BY <2>1
    <3> QED
      BY <3>2, <3>3
  <2>2. CASE x \notin DOMAIN B
    BY <1>1, <2>2 DEF BagAdd
  <2> QED
    BY <2>1, <2>2
<1>3. \E S : /\ S \subseteq DOMAIN B /\ DOMAIN B \ {x} \subseteq S
             /\ BagRemove(B, x) \in [S -> Nat \ {0}]
  <2>1. CASE x \in DOMAIN B /\ B[x] = 1
    <3>1. BagRemove(B, x) \in [DOMAIN B \ {x} -> Nat \ {0}]
      BY <1>1, <2>1 DEF BagRemove
    <3> QED
      BY <3>1
  <2>2. CASE x \in DOMAIN B /\ B[x] # 1
    <3>1. B[x] - 1 \in Nat \ {0}
      BY <1>1, <2>2
    <3>2. BagRemove(B, x) \in [DOMAIN B -> Nat \ {0}]
      BY <1>1, <2>2, <3>1 DEF BagRemove
    <3> QED
      BY <3>2
  <2>3. CASE x \notin DOMAIN B
    BY <1>1, <2>3 DEF BagRemove
  <2> QED
    BY <2>1, <2>2, <2>3
<1> QED
  BY <1>2, <1>3, CountsMakeABag

\* Every step keeps the updates in flight a bag of answers.
LEMMA UpdatesStep ==
    ASSUME UpdatesInv, TimerInv, [HubMoves]_hubVars
    PROVE  UpdatesInv'
<1>1. ASSUME NEW h \in Hubs, NEW t \in Ticking, Report(h, t)
      PROVE  UpdatesInv'
  <2>1. answer[h][t] \in Answer
    BY <1>1 DEF Report, TimerInv, HasAnswer
  <2>2. updates' = updates \/ updates' = BagAdd(updates, answer[h][t])
    BY <1>1 DEF Report, didFetchScanResults, scanDidFinish, publish
  <2>3. /\ IsABag(BagAdd(updates, answer[h][t]))
        /\ DOMAIN BagAdd(updates, answer[h][t]) = DOMAIN updates \cup {answer[h][t]}
    BY BagSteps DEF UpdatesInv
  <2> QED
    BY <2>1, <2>2, <2>3 DEF UpdatesInv
<1>2. ASSUME NEW u \in Answer, Deliver(u)
      PROVE  UpdatesInv'
  BY <1>2, BagSteps DEF Deliver, UpdatesInv
<1>3. ASSUME UNCHANGED updates
      PROVE  UpdatesInv'
  BY <1>3 DEF UpdatesInv
<1> QED
  BY <1>1, <1>2, <1>3
     DEF HubMoves, HubNext, HubInternal, hubVars, LoginFails, LoginSucceeds, fetchAllScans, didFetchScans,
         JobStep, Tick, Return, Ask, fetchScan, StartScanClient, FinishScanClient, Upload,
         RemoteFinish

-----------------------------------------------------------------------------
(* The theorems.                                                           *)

\* The inductive invariant.
HInv == TimerInv /\ RemoteInv /\ ScansInv /\ UpdatesInv

\* Every step keeps the invariant, and every scan.
LEMMA HubStepInv == HInv /\ [HubMoves]_hubVars => HInv' /\ KeepsScans
BY TimerStep, RemoteStep, ScansStep, UpdatesStep DEF HInv, ScansInv

\* The invariant holds when a hub client is made, whatever its Black Duck has.
LEMMA FreshHub ==
    NewHub(status, timer, pauseQueued, todo, answer, scans, hasFetched, updates) /\ RemoteInv => HInv
<1> SUFFICES ASSUME NewHub(status, timer, pauseQueued, todo, answer, scans, hasFetched, updates),
                    RemoteInv
             PROVE  HInv
  OBVIOUS
<1> USE DEF NewHub
<1>1. TimerInv
  BY DEF TimerInv, TimerTypes, TimerStates, Timers, Ticking, Running, Follows, HasAnswer
<1>2. \A h \in Hubs : Names(h) = {}
  BY DEF Names
<1>3. ScansInv
  BY <1>2 DEF ScansInv, ScansTyped
<1>4. UpdatesInv
  BY DEF UpdatesInv, IsABag
<1> QED
  BY <1>1, <1>3, <1>4 DEF HInv

\* So it does at the start.
LEMMA HubAtStart == HubInit => HInv
<1>1. HubInit => RemoteInv
  BY RemoteInitsAssumption DEF HubInit, RemoteInv, Located
<1> QED
  BY <1>1, FreshHub DEF HubInit

\* The invariant holds in every state of a hub client.
LEMMA HubInvariance == HubSpec => []HInv
<1>1. [HubNext]_hubVars => [HubMoves]_hubVars
  BY DEF HubMoves
<1> QED
  BY <1>1, HubAtStart, HubStepInv, PTL DEF HubSpec

\* Every variable of a hub client has its type: no job takes up what nobody
\* fetched, and a scan has the name of an image (pkg/hub).
THEOREM HubTypeCorrect == HubSpec => []HubTypeOK
<1>1. HInv => HubTypeOK
  BY DEF HInv, TimerInv, TimerTypes, ScansInv, ScansTyped, UpdatesInv, HubTypeOK
<1> QED
  BY <1>1, HubInvariance, PTL

\* The stage of a scan and its results agree, whatever jobs and requests raced
\* for it (model.go: scanDidFinish, didFetchScanResults, FinishScanClient).
THEOREM StageMatchesResultsCorrect == HubSpec => []StageMatchesResults
<1>1. HInv => StageMatchesResults
  BY DEF HInv, ScansInv, ScansTyped, Scan, ScanStages, Matches, VerdictOf, StageMatchesResults
<1> QED
  BY <1>1, HubInvariance, PTL

\* While a hub cannot be logged in to, none of its timers starts a job, and one
\* that is at work will pause (hub.go: login; timer.go: Pause and Resume).
THEOREM TimersFollowLoginCorrect == HubSpec => []TimersFollowLogin
<1>1. HInv => TimersFollowLogin
  BY DEF HInv, TimerInv, Follows, TimersFollowLogin
<1> QED
  BY <1>1, HubInvariance, PTL

\* A hub client forgets no scan, and none becomes unknown again.
THEOREM ScansAreKeptCorrect == HubSpec => ScansAreKept
<1>1. HInv /\ [HubNext]_hubVars => [KeepsScans]_hubVars
  BY HubStepInv DEF HubMoves
<1>2. [KeepsScans]_hubVars =>
        [\A h \in Hubs : \A n \in Names(h) :
             /\ n \in Names(h)'
             /\ scans[h][n].stage # "Unknown" => scans'[h][n].stage # "Unknown"]_hubVars
  BY DEF KeepsScans, KeepsKnown
<1> QED
  BY <1>1, <1>2, HubInvariance, PTL DEF HubSpec, ScansAreKept
=============================================================================
