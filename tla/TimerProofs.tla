----------------------------- MODULE TimerProofs -----------------------------
(***************************************************************************)
(* Theorems about Timer, for any set of timers.                            *)
(***************************************************************************)
EXTENDS Timer, TLAPS

\* The inductive invariant: type and consistency together.
TInv == TimerTypeOK /\ TimerConsistent

\* What TimerConsistent says of one timer.
ConsistentAt(t) ==
    Loops(t) =>
        /\ action[t] # "None" => timerState[t] = "RunningAction"
        /\ timerState[t] = "RunningAction" => action[t] # "None" \/ t \in closed
        /\ ticker[t] <=> timerState[t] # "Paused"

\* A step of timer t that keeps the types leaves the others as they are.
LEMMA OthersAreLeft ==
    ASSUME TimerTypeOK, NEW t \in Timers,
           LoopStep(t) \/ ActionStep(t) \/ Close(t) \/ \E c \in Calls : Call(t, c)
    PROVE  /\ TimerTypeOK'
           /\ \A u \in Timers \ {t} :
                 /\ timerState'[u] = timerState[u] /\ ticker'[u] = ticker[u]
                 /\ pauseQueued'[u] = pauseQueued[u] /\ action'[u] = action[u]
                 /\ u \in closed' <=> u \in closed
<1> USE DEF TimerTypeOK, TimerStates, Calls, Loops
<1>1. CASE Tick(t)
  BY <1>1 DEF Tick, executeAction
<1>2. CASE didFinishAction(t)
  BY <1>2 DEF didFinishAction
<1>3. CASE TakePause(t)
  BY <1>3 DEF TakePause, Answer
<1>4. CASE TakeResume(t)
  BY <1>4 DEF TakeResume, Answer, executeAction
<1>5. CASE Stop(t)
  BY <1>5 DEF Stop
<1>6. CASE ActionReturns(t)
  BY <1>6 DEF ActionReturns
<1>7. CASE ActionIsLeft(t)
  BY <1>7 DEF ActionIsLeft
<1>8. CASE Close(t)
  BY <1>8 DEF Close
<1>9. ASSUME NEW c \in Calls, Call(t, c)
      PROVE  /\ TimerTypeOK'
             /\ \A u \in Timers \ {t} :
                   /\ timerState'[u] = timerState[u] /\ ticker'[u] = ticker[u]
                   /\ pauseQueued'[u] = pauseQueued[u] /\ action'[u] = action[u]
                   /\ u \in closed' <=> u \in closed
  BY <1>9 DEF Call
<1> QED
  BY <1>1, <1>2, <1>3, <1>4, <1>5, <1>6, <1>7, <1>8, <1>9 DEF LoopStep, ActionStep

\* A step of timer t keeps its state and its goroutines consistent.
LEMMA ConsistentStep ==
    ASSUME TimerTypeOK, NEW t \in Timers, ConsistentAt(t),
           LoopStep(t) \/ ActionStep(t) \/ Close(t) \/ \E c \in Calls : Call(t, c)
    PROVE  ConsistentAt(t)'
<1> USE DEF TimerTypeOK, TimerStates, Calls, Loops, ConsistentAt
<1>1. CASE Tick(t)
  BY <1>1 DEF Tick, executeAction
<1>2. CASE didFinishAction(t)
  <2>1. /\ timerState'[t] = IF pauseQueued[t] THEN "Paused" ELSE "Ready"
        /\ ticker'[t] = ~pauseQueued[t] /\ action'[t] = "None"
    BY <1>2 DEF didFinishAction
  <2>2. pauseQueued[t] \in BOOLEAN
    OBVIOUS
  <2> QED
    BY <2>1, <2>2
<1>3. CASE TakePause(t)
  BY <1>3 DEF TakePause, Answer
<1>4. CASE TakeResume(t)
  BY <1>4 DEF TakeResume, Answer, executeAction
<1>5. CASE Stop(t)
  BY <1>5 DEF Stop
<1>6. CASE ActionReturns(t)
  BY <1>6 DEF ActionReturns
<1>7. CASE ActionIsLeft(t)
  BY <1>7 DEF ActionIsLeft
<1>8. CASE Close(t)
  BY <1>8 DEF Close
<1>9. CASE \E c \in Calls : Call(t, c)
  BY <1>9 DEF Call
<1> QED
  BY <1>1, <1>2, <1>3, <1>4, <1>5, <1>6, <1>7, <1>8, <1>9 DEF LoopStep, ActionStep

\* Every step keeps the invariant.
LEMMA TimerStepInv == TInv /\ [TimerNext]_timerVars => TInv'
<1> SUFFICES ASSUME TInv, [TimerNext]_timerVars
             PROVE  TInv'
  OBVIOUS
<1>1. TimerTypeOK /\ \A u \in Timers : ConsistentAt(u)
  BY DEF TInv, TimerConsistent, ConsistentAt
<1>2. CASE TimerNext
  <2> PICK t \in Timers :
          LoopStep(t) \/ ActionStep(t) \/ Close(t) \/ \E c \in Calls : Call(t, c)
    BY <1>2 DEF TimerNext
  <2>1. TimerTypeOK' /\ ConsistentAt(t)'
    BY <1>1, OthersAreLeft, ConsistentStep
  <2>2. \A u \in Timers \ {t} : ConsistentAt(u)'
    BY <1>1, OthersAreLeft DEF ConsistentAt, Loops
  <2> QED
    BY <2>1, <2>2 DEF TInv, TimerConsistent, ConsistentAt
<1>3. CASE UNCHANGED timerVars
  BY <1>3 DEF timerVars, TInv, TimerTypeOK, TimerConsistent, Loops
<1> QED
  BY <1>2, <1>3

\* The invariant holds in every state: the state of each timer and what its
\* goroutines do belong together (pkg/util/timer.go).
THEOREM TimerInvariance == TimerSpec => []TInv
<1>1. NewTimer => TInv
  BY DEF NewTimer, TInv, TimerTypeOK, TimerConsistent, Loops, TimerStates
<1> QED
  BY <1>1, TimerStepInv, PTL DEF TimerSpec

\* Every variable of a timer keeps its type.
THEOREM TimerTypeCorrect == TimerSpec => []TimerTypeOK
BY TimerInvariance, PTL DEF TInv

\* No two actions of a timer overlap, and ticks come exactly when one may lead to
\* an action, in whatever order pauses, resumes, stops and ends of actions meet.
THEOREM TimerConsistencyCorrect == TimerSpec => []TimerConsistent
BY TimerInvariance, PTL DEF TInv

-----------------------------------------------------------------------------
(* Timers are pausable jobs.                                               *)

AtWork(t) == action[t] # "None"
PutOff(t) == pauseQueued[t] /\ ~Retired(t)

\* What the jobs of PausableJob are to the timers, but for t.
OthersSame(t) ==
    \A u \in Timers \ {t} :
        ModeOf(u)' = ModeOf(u) /\ AtWork(u)' = AtWork(u) /\ PutOff(u)' = PutOff(u)

\* A step of timer t is not seen by the other jobs.
LEMMA OtherJobsAreLeft ==
    ASSUME TimerTypeOK, NEW t \in Timers,
           LoopStep(t) \/ ActionStep(t) \/ Close(t) \/ \E c \in Calls : Call(t, c)
    PROVE  OthersSame(t)
BY OthersAreLeft DEF OthersSame, ModeOf, AtWork, PutOff, Retired, Loops

\* The mode of a timer, by cases.
LEMMA Modes ==
    ASSUME NEW t \in Timers
    PROVE  /\ Retired(t) => ModeOf(t) = "Retired"
           /\ ~Retired(t) /\ timerState[t] = "RunningAction" => ModeOf(t) = "AtWork"
           /\ ~Retired(t) /\ timerState[t] # "RunningAction" => ModeOf(t) = timerState[t]
BY DEF ModeOf

\* The functions that stand for the jobs after a step that changes one of them.
LEMMA JobsAfter ==
    ASSUME NEW t \in Timers, OthersSame(t)
    PROVE  /\ [u \in Timers |-> ModeOf(u)]'
                = [[u \in Timers |-> ModeOf(u)] EXCEPT ![t] = ModeOf(t)']
           /\ [u \in Timers |-> AtWork(u)]'
                = [[u \in Timers |-> AtWork(u)] EXCEPT ![t] = AtWork(t)']
           /\ [u \in Timers |-> PutOff(u)]'
                = [[u \in Timers |-> PutOff(u)] EXCEPT ![t] = PutOff(t)']
BY DEF OthersSame

\* Each step of a timer is a step of its job, or the job does not see it.
LEMMA TimerStepIsJobStep ==
    ASSUME TInv, NEW t \in Timers,
           LoopStep(t) \/ ActionStep(t) \/ Close(t) \/ \E c \in Calls : Call(t, c)
    PROVE  Job!JobNext \/ UNCHANGED Job!jobVars
<1> DEFINE mode == [u \in Timers |-> ModeOf(u)]
           workers == [u \in Timers |-> AtWork(u)]
           putOff == [u \in Timers |-> PutOff(u)]
           m == ModeOf(t)
           w == AtWork(t)
           p == PutOff(t)
<1>1. /\ mode' = [mode EXCEPT ![t] = m'] /\ mode[t] = m
      /\ workers' = [workers EXCEPT ![t] = w'] /\ workers[t] = w
      /\ putOff' = [putOff EXCEPT ![t] = p'] /\ putOff[t] = p
  BY OtherJobsAreLeft, JobsAfter DEF TInv
<1>2. /\ TimerTypeOK /\ ConsistentAt(t) /\ TimerTypeOK'
  BY OthersAreLeft DEF TInv, TimerConsistent, ConsistentAt
<1>3. Job!jobVars = <<mode, workers, putOff>>
  BY DEF Job!jobVars, AtWork, PutOff
<1>4. Job!jobVars' = <<mode', workers', putOff'>>
  BY DEF Job!jobVars, AtWork, PutOff
<1>5. ASSUME m' = m, w' = w, p' = p
      PROVE  UNCHANGED Job!jobVars
  <2>1. mode' = mode /\ workers' = workers /\ putOff' = putOff
    BY <1>1, <1>5
  <2> QED
    BY <2>1, <1>3, <1>4
<1> DEFINE Begins == /\ ~workers[t]
                     /\ mode' = [mode EXCEPT ![t] = "AtWork"]
                     /\ workers' = [workers EXCEPT ![t] = TRUE]
                     /\ putOff' = [putOff EXCEPT ![t] = FALSE]
<1>6. /\ mode[t] = "Ready" /\ Begins => Job!Work(t)
      /\ mode[t] = "Paused" /\ Begins => Job!Resume(t)
  BY DEF Job!Work, Job!Resume, Job!Begin, AtWork, PutOff
<1>7. /\ mode[t] = "AtWork"
      /\ mode' = [mode EXCEPT ![t] = IF putOff[t] THEN "Paused" ELSE "Ready"]
      /\ workers' = [workers EXCEPT ![t] = FALSE]
      /\ putOff' = putOff
      => Job!Done(t)
  BY DEF Job!Done, AtWork, PutOff
<1>8. /\ mode[t] = "Ready" /\ mode' = [mode EXCEPT ![t] = "Paused"]
      /\ workers' = workers /\ putOff' = putOff
      => Job!Pause(t)
  BY DEF Job!Pause, AtWork, PutOff
<1>9. /\ mode[t] = "AtWork" /\ putOff' = [putOff EXCEPT ![t] = TRUE]
      /\ mode' = mode /\ workers' = workers
      => Job!Pause(t)
  BY DEF Job!Pause, AtWork, PutOff
<1>10. /\ mode[t] = "Paused" /\ mode' = [mode EXCEPT ![t] = "Ready"]
       /\ workers' = workers /\ putOff' = putOff
       => Job!Resume(t)
  BY DEF Job!Resume, AtWork, PutOff
<1>11. /\ mode[t] # "Retired" /\ mode' = [mode EXCEPT ![t] = "Retired"]
       /\ putOff' = [putOff EXCEPT ![t] = FALSE]
       /\ workers' = workers \/ workers' = [workers EXCEPT ![t] = FALSE]
       => Job!Retire(t)
  BY DEF Job!Retire, AtWork, PutOff
<1>12. /\ mode[t] = "Retired" /\ workers[t]
       /\ workers' = [workers EXCEPT ![t] = FALSE]
       /\ mode' = mode /\ putOff' = putOff
       => Job!Leave(t)
  BY DEF Job!Leave, AtWork, PutOff
<1>13. Job!Work(t) \/ Job!Done(t) \/ Job!Pause(t) \/ Job!Resume(t) \/ Job!Retire(t) \/ Job!Leave(t)
         => Job!JobNext
  BY DEF Job!JobNext
<1>14. /\ m' = m => mode' = mode
       /\ w' = w => workers' = workers
       /\ p' = p => putOff' = putOff
  BY <1>1
<1> HIDE DEF mode, workers, putOff
<1>15. CASE Tick(t)
  <2>1. m = "Ready" /\ w = FALSE /\ m' = "AtWork" /\ w' = TRUE /\ p' = FALSE
    BY <1>2, <1>15, Modes DEF Tick, executeAction, AtWork, PutOff, Retired, Loops,
                               TimerTypeOK, ConsistentAt, ModeOf
  <2> QED
    BY <2>1, <1>1, <1>6, <1>13
<1>16. CASE didFinishAction(t)
  <2>1. action[t] = "Reporting" /\ timerState[t] = "RunningAction" /\ ~Retired(t)
    BY <1>2, <1>16 DEF didFinishAction, ConsistentAt, Retired
  <2>2. /\ timerState'[t] = IF pauseQueued[t] THEN "Paused" ELSE "Ready"
        /\ action'[t] = "None" /\ pauseQueued' = pauseQueued
    BY <1>2, <1>16 DEF didFinishAction, TimerTypeOK
  <2>3. ~Retired(t)'
    BY <2>2 DEF Retired, Loops
  <2>4. /\ m = "AtWork" /\ (p <=> pauseQueued[t]) /\ (p' <=> p)
        /\ m' = IF p THEN "Paused" ELSE "Ready"
    BY <2>1, <2>2, <2>3 DEF ModeOf, PutOff
  <2>5. p' = p
    BY <2>4 DEF PutOff
  <2>6. w' = FALSE
    BY <2>2 DEF AtWork
  <2> QED
    BY <2>4, <2>5, <2>6, <1>1, <1>7, <1>13, <1>14
<1>17. CASE TakePause(t)
  <2>1. /\ action' = action /\ Loops(t) /\ Loops(t)' /\ w' = w
    BY <1>2, <1>17 DEF TakePause, Loops, AtWork, TimerTypeOK
  <2>2. CASE timerState[t] = "Ready"
    <3>1. m = "Ready" /\ m' = "Paused" /\ p' = p
      BY <2>1, <2>2, <1>2, <1>17 DEF TakePause, ModeOf, PutOff, Retired, Loops, TimerTypeOK
    <3> QED
      BY <3>1, <2>1, <1>1, <1>8, <1>13, <1>14
  <2>3. CASE timerState[t] = "RunningAction" /\ Retired(t)
    <3>1. m' = m /\ p' = p
      BY <2>1, <2>3, <1>2, <1>17 DEF TakePause, ModeOf, PutOff, Retired, Loops, TimerTypeOK
    <3> QED
      BY <3>1, <2>1, <1>5
  <2>4. CASE timerState[t] = "RunningAction" /\ ~Retired(t)
    <3>1. m = "AtWork" /\ m' = m /\ p' = TRUE
      BY <2>1, <2>4, <1>2, <1>17 DEF TakePause, ModeOf, PutOff, Retired, Loops, TimerTypeOK
    <3> QED
      BY <3>1, <2>1, <1>1, <1>9, <1>13, <1>14
  <2>5. CASE timerState[t] = "Paused"
    <3>1. m' = m /\ p' = p
      BY <2>1, <2>5, <1>2, <1>17 DEF TakePause, ModeOf, PutOff, Retired, Loops
    <3> QED
      BY <3>1, <2>1, <1>5
  <2> QED
    BY <1>17, <2>2, <2>3, <2>4, <2>5 DEF TakePause
<1>18. CASE TakeResume(t)
  <2>1. CASE timerState[t] # "Paused"
    <3>1. m' = m /\ w' = w /\ p' = p
      BY <2>1, <1>18 DEF TakeResume, ModeOf, PutOff, AtWork, Retired, Loops
    <3> QED
      BY <3>1, <1>5
  <2>2. CASE timerState[t] = "Paused" /\ executeAction(t)
    <3>1. m = "Paused" /\ w = FALSE /\ m' = "AtWork" /\ w' = TRUE /\ p' = FALSE
      BY <1>2, <2>2, <1>18, Modes DEF executeAction, AtWork, PutOff, Retired, Loops,
                                      TimerTypeOK, ConsistentAt, ModeOf
    <3> QED
      BY <3>1, <1>1, <1>6, <1>13
  <2>3. CASE /\ timerState[t] = "Paused"
             /\ timerState' = [timerState EXCEPT ![t] = "Ready"]
             /\ UNCHANGED <<pauseQueued, action>>
    <3>1. timerState'[t] = "Ready" /\ action' = action /\ pauseQueued' = pauseQueued
      BY <1>2, <2>3 DEF TimerTypeOK
    <3>2. ~Retired(t) /\ ~Retired(t)'
      BY <2>3, <3>1 DEF Retired, Loops
    <3>3. m = "Paused" /\ m' = "Ready"
      BY <2>3, <3>1, <3>2 DEF ModeOf
    <3>4. w' = w
      BY <3>1 DEF AtWork
    <3>5. p' = p
      BY <3>1, <3>2 DEF PutOff
    <3> QED
      BY <3>3, <3>4, <3>5, <1>1, <1>10, <1>13, <1>14
  <2> QED
    BY <1>18, <2>1, <2>2, <2>3 DEF TakeResume
<1>19. CASE Stop(t)
  <2>1. m' = "Retired" /\ w' = w /\ p' = FALSE
    BY <1>2, <1>19 DEF Stop, ModeOf, AtWork, PutOff, Retired, Loops, TimerTypeOK
  <2>2. CASE Retired(t)
    <3>1. m' = m /\ p' = p
      BY <2>1, <2>2 DEF ModeOf, PutOff
    <3> QED
      BY <3>1, <2>1, <1>5
  <2>3. CASE ~Retired(t)
    <3>1. m # "Retired"
      BY <1>2, <2>3 DEF ModeOf, Retired, Loops, TimerTypeOK, TimerStates
    <3> QED
      BY <3>1, <2>1, <1>1, <1>11, <1>13, <1>14
  <2> QED
    BY <2>2, <2>3
<1>20. CASE ActionReturns(t)
  <2>1. m' = m /\ w' = w /\ p' = p
    BY <1>2, <1>20 DEF ActionReturns, ModeOf, AtWork, PutOff, Retired, Loops, TimerTypeOK
  <2> QED
    BY <2>1, <1>5
<1>21. CASE ActionIsLeft(t)
  <2>1. /\ action[t] = "Reporting" /\ action'[t] = "None" /\ w /\ w' = FALSE
        /\ timerState' = timerState /\ pauseQueued' = pauseQueued
    BY <1>2, <1>21 DEF ActionIsLeft, AtWork, TimerTypeOK
  <2>2. Retired(t)'
    BY <1>2, <2>1 DEF Retired, Loops, ConsistentAt
  <2>3. m' = "Retired" /\ p' = FALSE
    BY <2>2 DEF ModeOf, PutOff
  <2>4. CASE Retired(t)
    <3>1. m = "Retired" /\ m' = m /\ p' = p
      BY <2>3, <2>4 DEF ModeOf, PutOff
    <3> QED
      BY <3>1, <2>1, <1>1, <1>12, <1>13, <1>14
  <2>5. CASE ~Retired(t)
    <3>1. m # "Retired"
      BY <1>2, <2>5 DEF ModeOf, Retired, Loops, TimerTypeOK, TimerStates
    <3> QED
      BY <3>1, <2>1, <2>3, <1>1, <1>11, <1>13
  <2> QED
    BY <2>4, <2>5
<1>22. CASE Close(t) \/ \E c \in Calls : Call(t, c)
  <2>1. m' = m /\ w' = w /\ p' = p
    BY <1>22 DEF Close, Call, ModeOf, AtWork, PutOff, Retired, Loops
  <2> QED
    BY <2>1, <1>5
<1> QED
  BY <1>15, <1>16, <1>17, <1>18, <1>19, <1>20, <1>21, <1>22 DEF LoopStep, ActionStep

\* The timers of pkg/util are pausable jobs, which is all that the hub knows of
\* them: no step of a timer is more than a step of its job.
THEOREM TimerRefinement == TimerSpec => ImplementsJob
<1>1. NewTimer => Job!JobInit
  BY DEF NewTimer, Job!JobInit, ModeOf, Retired, Loops
<1>2. TInv /\ [TimerNext]_timerVars => [Job!JobNext]_(Job!jobVars)
  <2> SUFFICES ASSUME TInv, [TimerNext]_timerVars
               PROVE  [Job!JobNext]_(Job!jobVars)
    OBVIOUS
  <2>1. CASE TimerNext
    BY <2>1, TimerStepIsJobStep DEF TimerNext
  <2>2. CASE UNCHANGED timerVars
    BY <2>2 DEF timerVars, Job!jobVars, ModeOf, Retired, Loops
  <2> QED
    BY <2>1, <2>2
<1> QED
  BY <1>1, <1>2, TimerInvariance, PTL DEF TimerSpec, ImplementsJob, Job!JobSpec
=============================================================================
