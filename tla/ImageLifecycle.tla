-------------------------- MODULE ImageLifecycle --------------------------
(***************************************************************************)
(* What the core model promises of an image, without queue, priorities or  *)
(* pods: an image is learned of once, waits, is worked on, may go back to  *)
(* waiting, and is done with a report that later reports may refresh.      *)
(* Before that no report is visible.                                       *)
(***************************************************************************)
CONSTANTS Shas, Results, NoResults

VARIABLES stage,   \* sha -> where the image is
          report   \* sha -> the report that is published for it

lifecycleVars == <<stage, report>>

Init ==
    /\ stage = [s \in Shas |-> "Absent"]
    /\ report = [s \in Shas |-> NoResults]

\* One request may name several new images.
Learn(S) ==
    /\ S # {} /\ \A s \in S : stage[s] = "Absent"
    /\ stage' = [s \in Shas |-> IF s \in S THEN "Waiting" ELSE stage[s]]
    /\ UNCHANGED report

Begin(s) ==
    /\ stage[s] = "Waiting"
    /\ stage' = [stage EXCEPT ![s] = "Working"]
    /\ UNCHANGED report

GiveUp(s) ==
    /\ stage[s] = "Working"
    /\ stage' = [stage EXCEPT ![s] = "Waiting"]
    /\ UNCHANGED report

Finish(s, r) ==
    /\ stage[s] \in {"Waiting", "Working"}
    /\ stage' = [stage EXCEPT ![s] = "Done"]
    /\ report' = [report EXCEPT ![s] = r]

Refresh(s, r) ==
    /\ stage[s] = "Done"
    /\ report' = [report EXCEPT ![s] = r]
    /\ UNCHANGED stage

Next ==
    \/ \E S \in SUBSET Shas : Learn(S)
    \/ \E s \in Shas : Begin(s) \/ GiveUp(s)
    \/ \E s \in Shas, r \in Results : Finish(s, r) \/ Refresh(s, r)

Spec == Init /\ [][Next]_lifecycleVars
=============================================================================
