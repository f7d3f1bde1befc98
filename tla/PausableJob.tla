---------------------------- MODULE PausableJob ----------------------------
(***************************************************************************)
(* What pkg/hub relies on in its timers, and all that module Hub knows of  *)
(* them: a job that is ready, at work or paused, that nobody works on      *)
(* twice at a time, whose pause is put off while it is at work, and that   *)
(* never starts again once it is retired.                                  *)
(***************************************************************************)
CONSTANTS Jobs

VARIABLES mode,       \* job -> "Paused", "Ready", "AtWork" or "Retired"
          workers,    \* job -> is somebody at work on it?
          putOff      \* job -> is it paused as soon as the work is done?

jobVars == <<mode, workers, putOff>>

JobInit ==
    /\ mode = [t \in Jobs |-> "Paused"]
    /\ workers = [t \in Jobs |-> FALSE]
    /\ putOff = [t \in Jobs |-> FALSE]

Begin(t) ==
    /\ ~workers[t]
    /\ mode' = [mode EXCEPT ![t] = "AtWork"]
    /\ workers' = [workers EXCEPT ![t] = TRUE]
    /\ putOff' = [putOff EXCEPT ![t] = FALSE]

Work(t) == mode[t] = "Ready" /\ Begin(t)

Done(t) ==
    /\ mode[t] = "AtWork"
    /\ mode' = [mode EXCEPT ![t] = IF putOff[t] THEN "Paused" ELSE "Ready"]
    /\ workers' = [workers EXCEPT ![t] = FALSE]
    /\ UNCHANGED putOff

Pause(t) ==
    \/ /\ mode[t] = "Ready"
       /\ mode' = [mode EXCEPT ![t] = "Paused"]
       /\ UNCHANGED <<workers, putOff>>
    \/ /\ mode[t] = "AtWork"
       /\ putOff' = [putOff EXCEPT ![t] = TRUE]
       /\ UNCHANGED <<mode, workers>>

Resume(t) ==
    /\ mode[t] = "Paused"
    /\ \/ Begin(t)
       \/ mode' = [mode EXCEPT ![t] = "Ready"] /\ UNCHANGED <<workers, putOff>>

\* The work that is in hand is left, then or later.
Retire(t) ==
    /\ mode[t] # "Retired"
    /\ mode' = [mode EXCEPT ![t] = "Retired"]
    /\ putOff' = [putOff EXCEPT ![t] = FALSE]
    /\ workers' = workers \/ workers' = [workers EXCEPT ![t] = FALSE]

Leave(t) ==
    /\ mode[t] = "Retired" /\ workers[t]
    /\ workers' = [workers EXCEPT ![t] = FALSE]
    /\ UNCHANGED <<mode, putOff>>

JobNext ==
    \E t \in Jobs : Work(t) \/ Done(t) \/ Pause(t) \/ Resume(t) \/ Retire(t) \/ Leave(t)

JobSpec == JobInit /\ [][JobNext]_jobVars
=============================================================================
