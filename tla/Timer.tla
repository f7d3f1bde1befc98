------------------------------- MODULE Timer -------------------------------
(***************************************************************************)
(* pkg/util.Timer: a goroutine that runs an action whenever its ticker     *)
(* ticks, and can be paused, resumed and stopped.  The action runs in a    *)
(* goroutine of its own.  Pause and Resume hand the goroutine a call and   *)
(* wait for the answer; stopping it is closing a channel, which it finds   *)
(* closed when `select' happens to look.                                   *)
(*                                                                         *)
(* SetDelay changes nothing but the period, and is left out.               *)
(***************************************************************************)
CONSTANTS Timers

VARIABLES timerState,    \* timer -> timer.state
          ticker,        \* timer -> does the ticker run?
          pauseQueued,   \* timer -> shouldPauseAfterRunningAction
          action,        \* timer -> the goroutine of the action
          call,          \* timer -> the call that waits for an answer
          closed         \* the timers whose channel `stop' is closed

timerVars == <<timerState, ticker, pauseQueued, action, call, closed>>

TimerStates == {"Ready", "RunningAction", "Paused", "Stopped"}
Calls == {"Pause", "Resume", "ResumeNow"}

NewTimer ==
    /\ timerState = [t \in Timers |-> "Paused"]
    /\ ticker = [t \in Timers |-> FALSE]
    /\ pauseQueued = [t \in Timers |-> FALSE]
    /\ action = [t \in Timers |-> "None"]
    /\ call = [t \in Timers |-> "None"]
    /\ closed = {}

Loops(t) == timerState[t] # "Stopped"

executeAction(t) ==
    /\ timerState' = [timerState EXCEPT ![t] = "RunningAction"]
    /\ pauseQueued' = [pauseQueued EXCEPT ![t] = FALSE]
    /\ action' = [action EXCEPT ![t] = "Running"]

\* A tick that meets a running action is dropped.
Tick(t) ==
    /\ Loops(t) /\ ticker[t] /\ timerState[t] = "Ready"
    /\ executeAction(t)
    /\ UNCHANGED <<ticker, call, closed>>

ActionReturns(t) ==
    /\ action[t] = "Running"
    /\ action' = [action EXCEPT ![t] = "Reporting"]
    /\ UNCHANGED <<timerState, ticker, pauseQueued, call, closed>>

\* Mutant of didFinishAction: the ticker runs on when the timer is paused.
didFinishActionOnly(t) ==
    /\ Loops(t) /\ action[t] = "Reporting"
    /\ action' = [action EXCEPT ![t] = "None"]
    /\ timerState' = [timerState EXCEPT ![t] = IF pauseQueued[t] THEN "Paused" ELSE "Ready"]
    /\ UNCHANGED <<ticker, pauseQueued, call, closed>>

didFinishAction(t) ==
    /\ Loops(t) /\ action[t] = "Reporting"
    /\ action' = [action EXCEPT ![t] = "None"]
    /\ timerState' = [timerState EXCEPT ![t] = IF pauseQueued[t] THEN "Paused" ELSE "Ready"]
    /\ ticker' = [ticker EXCEPT ![t] = ~pauseQueued[t]]
    /\ UNCHANGED <<pauseQueued, call, closed>>

\* Nobody may be left to report to.
ActionIsLeft(t) ==
    /\ action[t] = "Reporting" /\ t \in closed
    /\ action' = [action EXCEPT ![t] = "None"]
    /\ UNCHANGED <<timerState, ticker, pauseQueued, call, closed>>

Answer(t) == call' = [call EXCEPT ![t] = "None"]

\* Mutant of TakePause: a running timer is paused like any other.
TakePauseAtOnce(t) ==
    /\ Loops(t) /\ call[t] = "Pause" /\ Answer(t)
    /\ timerState' = [timerState EXCEPT ![t] = "Paused"]
    /\ ticker' = [ticker EXCEPT ![t] = FALSE]
    /\ UNCHANGED <<pauseQueued, action, closed>>

\* A timer that is ready is paused, a running one when its action is done; a
\* second pause of a running one, or one of a paused one, is answered by an error.
TakePause(t) ==
    /\ Loops(t) /\ call[t] = "Pause" /\ Answer(t)
    /\ \/ /\ timerState[t] = "Ready"
          /\ timerState' = [timerState EXCEPT ![t] = "Paused"]
          /\ ticker' = [ticker EXCEPT ![t] = FALSE]
          /\ UNCHANGED pauseQueued
       \/ /\ timerState[t] = "RunningAction"
          /\ pauseQueued' = [pauseQueued EXCEPT ![t] = TRUE]
          /\ UNCHANGED <<timerState, ticker>>
       \/ timerState[t] = "Paused" /\ UNCHANGED <<timerState, ticker, pauseQueued>>
    /\ UNCHANGED <<action, closed>>

\* Only a paused timer is resumed; any other is answered by an error.
TakeResume(t) ==
    /\ Loops(t) /\ call[t] \in {"Resume", "ResumeNow"} /\ Answer(t)
    /\ \/ /\ timerState[t] = "Paused"
          /\ ticker' = [ticker EXCEPT ![t] = TRUE]
          /\ \/ call[t] = "ResumeNow" /\ executeAction(t)
             \/ /\ call[t] = "Resume"
                /\ timerState' = [timerState EXCEPT ![t] = "Ready"]
                /\ UNCHANGED <<pauseQueued, action>>
       \/ /\ timerState[t] # "Paused"
          /\ UNCHANGED <<timerState, ticker, pauseQueued, action>>
    /\ UNCHANGED closed

\* Mutant of Stop: only a timer that is ready is stopped.
StopReady(t) ==
    /\ timerState[t] = "Ready" /\ t \in closed
    /\ timerState' = [timerState EXCEPT ![t] = "Stopped"]
    /\ ticker' = [ticker EXCEPT ![t] = FALSE]
    /\ UNCHANGED <<pauseQueued, action, call, closed>>

\* A ticker that meets a running action is not stopped.
Stop(t) ==
    /\ Loops(t) /\ t \in closed
    /\ timerState' = [timerState EXCEPT ![t] = "Stopped"]
    /\ ticker' = [ticker EXCEPT ![t] = @ /\ timerState[t] = "RunningAction"]
    /\ UNCHANGED <<pauseQueued, action, call, closed>>

\* Pause and Resume, up to the answer; and closing `stop'.
Call(t, c) ==
    /\ call[t] = "None"
    /\ call' = [call EXCEPT ![t] = c]
    /\ UNCHANGED <<timerState, ticker, pauseQueued, action, closed>>

Close(t) ==
    /\ closed' = closed \cup {t}
    /\ UNCHANGED <<timerState, ticker, pauseQueued, action, call>>

\* The goroutine of the timer, and the one of its action.
LoopStep(t) ==
    Tick(t) \/ didFinishAction(t) \/ TakePause(t) \/ TakeResume(t) \/ Stop(t)

ActionStep(t) == ActionReturns(t) \/ ActionIsLeft(t)

TimerNext ==
    \E t \in Timers :
        LoopStep(t) \/ ActionStep(t) \/ Close(t) \/ \E c \in Calls : Call(t, c)

TimerSpec == NewTimer /\ [][TimerNext]_timerVars

-----------------------------------------------------------------------------
(* Properties.                                                             *)

\* Every variable has its type.
TimerTypeOK ==
    /\ timerState \in [Timers -> TimerStates]
    /\ ticker \in [Timers -> BOOLEAN]
    /\ pauseQueued \in [Timers -> BOOLEAN]
    /\ action \in [Timers -> {"None", "Running", "Reporting"}]
    /\ call \in [Timers -> Calls \cup {"None"}]
    /\ closed \subseteq Timers

\* The state of a timer says what its goroutines do, until it is told to stop:
\* an action is in hand exactly when the state says so, and ticks come exactly
\* when one may lead to an action.  So no action overlaps another of its timer,
\* whenever a pause, a resume, a stop and the end of an action meet.
TimerConsistent ==
    \A t \in Timers :
        Loops(t) =>
            /\ action[t] # "None" => timerState[t] = "RunningAction"
            /\ timerState[t] = "RunningAction" => action[t] # "None" \/ t \in closed
            /\ ticker[t] <=> timerState[t] # "Paused"

\* No action will be run: the timer has stopped, or its last action was left.
Retired(t) == ~Loops(t) \/ (timerState[t] = "RunningAction" /\ action[t] = "None")

ModeOf(t) ==
    CASE Retired(t) -> "Retired"
      [] ~Retired(t) /\ timerState[t] = "RunningAction" -> "AtWork"
      [] OTHER -> timerState[t]

\* The timers are jobs as module Hub sees them.
Job == INSTANCE PausableJob
    WITH Jobs <- Timers,
         mode <- [t \in Timers |-> ModeOf(t)],
         workers <- [t \in Timers |-> action[t] # "None"],
         putOff <- [t \in Timers |-> pauseQueued[t] /\ ~Retired(t)]

ImplementsJob == Job!JobSpec
=============================================================================
