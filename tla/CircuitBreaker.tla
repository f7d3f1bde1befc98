--------------------------- MODULE CircuitBreaker ---------------------------
(***************************************************************************)
(* The circuit breaker that every request of a hub client but login goes   *)
(* through.  It has no lock: the goroutines of several timers and the one  *)
(* that serves a reset read and write its fields, one after the other.     *)
(* `Undisturbed' says that none of them is interrupted inside a method of  *)
(* the breaker, which nothing in the code ensures.                         *)
(*                                                                         *)
(* A goroutine's `writes' are the assignments to fields that the method it *)
(* is in has still to make.                                                *)
(***************************************************************************)
EXTENDS Integers, Sequences

CONSTANTS Requesters,   \* the goroutines
          Nil,          \* no time is set
          Undisturbed,  \* do methods of the breaker never overlap?
          Second,       \* a second, in units of time.Duration
          MaxBackoff,   \* maxBackoffDuration, in these units
          Word,         \* a Duration has values -Word/2 .. Word/2 - 1
          MaxFailures   \* bound: the count of failures stops here

VARIABLES state,        \* cb.state
          nextCheck,    \* how far off nextCheckTime is; -1 when it has passed
          failures,     \* cb.consecutiveFailures
          pc,           \* requester -> where its request is
          writes,       \* requester -> assignments its method has still to make
          hubUp,        \* does the hub answer requests?
          rested        \* history: the time since nextCheckTime was last set

breakerVars == <<state, nextCheck, failures, pc, writes, hubUp, rested>>

BreakerStates == {"Enabled", "Disabled", "Checking"}
PCs == {"Idle", "Reading", "Marking", "Deciding", "Requesting",
        "Succeeded", "Failed", "Panicked"}
Writes == {"Enable", "Disable", "ClearFailures", "FirstFailure", "CountFailure",
           "SetTime", "ClearTime"}

ASSUME DurationsAssumption ==
    /\ Second \in Nat \ {0} /\ MaxBackoff \in Nat \ {0}
    /\ Word \in Nat \ {0} /\ 2 * MaxBackoff < Word

\* Known to TLC, and to the provers only if they are told.
ASSUME PowersAssumption == \A n \in 0 .. MaxFailures : 2 ^ n \in Nat

ASSUME MaxFailuresAssumption == MaxFailures \in Nat \ {0}
ASSUME NilAssumption == Nil \notin Int
ASSUME UndisturbedAssumption == Undisturbed \in BOOLEAN

NewCircuitBreaker ==
    /\ state = "Enabled" /\ nextCheck = Nil /\ failures = 0
    /\ pc = [p \in Requesters |-> "Idle"]
    /\ writes = [p \in Requesters |-> <<>>]
    /\ hubUp = TRUE
    /\ rested = 0

-----------------------------------------------------------------------------
(* Time.                                                                   *)

\* An integer as a Duration holds it.
Wrapped(d) == LET m == d % Word IN IF 2 * m < Word THEN m ELSE m - Word

MinDuration(d, e) == IF d < e THEN d ELSE e

\* A time that has passed already is not told from another.
NotBefore(d) == IF d < 0 THEN -1 ELSE d

\* The pause after n failures: 2^n seconds, an integer that overflows, or the
\* longest pause if that is shorter.
Backoff(n) == MinDuration(MaxBackoff, Wrapped(2 ^ n * Second))

\* 2^n seconds are still a Duration.
Fits(n) == 2 ^ n * Second < Word \div 2

Elapse ==
    /\ nextCheck # Nil /\ nextCheck >= 0
    /\ nextCheck' = nextCheck - 1
    /\ rested' = rested + 1
    /\ UNCHANGED <<state, failures, pc, writes, hubUp>>

-----------------------------------------------------------------------------
(* The methods.                                                            *)

Inside(p) == pc[p] \in {"Reading", "Marking", "Deciding"} \/ writes[p] # <<>>

\* A panic takes all of perceptor down.
Running(p) ==
    /\ \A q \in Requesters : pc[q] # "Panicked"
    /\ Undisturbed => \A q \in Requesters \ {p} : ~Inside(q)

Goto(p, l) == pc' = [pc EXCEPT ![p] = l]

\* isAbleToIssueRequest reads the state,
IssueRequest(p) ==
    /\ Running(p) /\ pc[p] = "Idle" /\ writes[p] = <<>>
    /\ Goto(p, IF state = "Disabled" THEN "Reading" ELSE "Deciding")
    /\ UNCHANGED <<state, nextCheck, failures, writes, hubUp, rested>>

\* Mutant of MayCheck: it is never too early to look.
MayCheckAlways == TRUE

MayCheck == nextCheck < 0

\* if that was Disabled the time, through a pointer that may be nil by now,
ReadTime(p) ==
    /\ Running(p) /\ pc[p] = "Reading"
    /\ Goto(p, IF nextCheck = Nil THEN "Panicked"
               ELSE IF MayCheck THEN "Marking" ELSE "Deciding")
    /\ UNCHANGED <<state, nextCheck, failures, writes, hubUp, rested>>

\* changes the state when the time has come,
StartChecking(p) ==
    /\ Running(p) /\ pc[p] = "Marking"
    /\ state' = "Checking"
    /\ Goto(p, "Deciding")
    /\ UNCHANGED <<nextCheck, failures, writes, hubUp, rested>>

\* and reads the state again to let the request through or to refuse it.
IsEnabled(p) ==
    /\ Running(p) /\ pc[p] = "Deciding"
    /\ Goto(p, IF state # "Disabled" THEN "Requesting" ELSE "Failed")
    /\ UNCHANGED <<state, nextCheck, failures, writes, hubUp, rested>>

\* Mutant of resets: the time stays.
resetsButTime == <<"Enable", "ClearFailures">>

resets == <<"Enable", "ClearFailures", "ClearTime">>

\* Mutant of success: a check that succeeds is not acted upon.
successIgnored == <<>>

success == IF state = "Checking" THEN resets ELSE <<>>

failure ==
    CASE state = "Enabled" -> <<"Disable", "FirstFailure", "SetTime">>
      [] state = "Checking" -> <<"Disable", "CountFailure", "SetTime">>
      [] state = "Disabled" -> <<>>

\* The request returns, however long ago it was let through; success or
\* failure reads the state and knows what it has to assign.
Answered(p) ==
    /\ Running(p) /\ pc[p] = "Requesting"
    /\ Goto(p, IF hubUp THEN "Succeeded" ELSE "Failed")
    /\ writes' = [writes EXCEPT ![p] = IF hubUp THEN success ELSE failure]
    /\ UNCHANGED <<state, nextCheck, failures, hubUp, rested>>

Reset(p) ==
    /\ Running(p) /\ pc[p] = "Idle" /\ writes[p] = <<>>
    /\ writes' = [writes EXCEPT ![p] = resets]
    /\ UNCHANGED <<state, nextCheck, failures, pc, hubUp, rested>>

\* The count stops where the pauses no longer change.
OneMore(n) == IF n < MaxFailures THEN n + 1 ELSE n

Assign(w) ==
    /\ state' = CASE w = "Enable" -> "Enabled" [] w = "Disable" -> "Disabled"
                  [] OTHER -> state
    /\ failures' = CASE w = "ClearFailures" -> 0 [] w = "FirstFailure" -> 1
                     [] w = "CountFailure" -> OneMore(failures) [] OTHER -> failures
    /\ nextCheck' = CASE w = "SetTime" -> NotBefore(Backoff(failures))
                      [] w = "ClearTime" -> Nil [] OTHER -> nextCheck
    /\ rested' = IF w \in {"SetTime", "ClearTime"} THEN 0 ELSE rested

AssignNext(p) ==
    /\ Running(p) /\ writes[p] # <<>>
    /\ Assign(Head(writes[p]))
    /\ writes' = [writes EXCEPT ![p] = Tail(@)]
    /\ UNCHANGED <<pc, hubUp>>

\* What IssueRequest returned has been looked at.
Return(p) ==
    /\ Running(p) /\ pc[p] \in {"Succeeded", "Failed"} /\ writes[p] = <<>>
    /\ Goto(p, "Idle")
    /\ UNCHANGED <<state, nextCheck, failures, writes, hubUp, rested>>

\* The hub goes down or comes back (external).
HubChanges ==
    /\ hubUp' = ~hubUp
    /\ UNCHANGED <<state, nextCheck, failures, pc, writes, rested>>

-----------------------------------------------------------------------------
MethodStep(p) ==
    ReadTime(p) \/ StartChecking(p) \/ IsEnabled(p) \/ AssignNext(p)

BreakerStep(p) == IssueRequest(p) \/ MethodStep(p) \/ Answered(p) \/ Reset(p)

BreakerNext ==
    \/ \E p \in Requesters : BreakerStep(p) \/ Return(p)
    \/ Elapse \/ HubChanges

BreakerSpec == NewCircuitBreaker /\ [][BreakerNext]_breakerVars

-----------------------------------------------------------------------------
(* Properties.                                                             *)

\* Every field has its type; at most the assignments of one method are left.
BreakerTypeOK ==
    /\ state \in BreakerStates
    /\ nextCheck \in (-1 .. MaxBackoff) \cup {Nil}
    /\ failures \in 0 .. MaxFailures
    /\ pc \in [Requesters -> PCs]
    /\ \A p \in Requesters : writes[p] \in Seq(Writes) /\ Len(writes[p]) <= 3
    /\ hubUp \in BOOLEAN
    /\ rested \in 0 .. MaxBackoff + 1

\* The three fields agree whenever no method is at work on them: the breaker is
\* enabled if and only if there is no failure to count and no time to wait for,
\* and it checks only after that time.  A reset in the middle of requests, or
\* the late answer to one that was let through in another state, does not part
\* them.  A disabled breaker without a time would let the next request panic.
FieldsAgree ==
    (\A p \in Requesters : ~Inside(p)) =>
        /\ state = "Enabled" <=> nextCheck = Nil
        /\ state = "Enabled" <=> failures = 0
        /\ state = "Checking" => nextCheck = -1

\* "Reset reenables the circuit breaker regardless of its current state, and
\* clears out ConsecutiveFailures and NextCheckTime" (circuitbreaker.go): when no
\* method is at work, a breaker whose time was cleared out is enabled.  If it is
\* not, the next request goes through a nil pointer and perceptor with it.
ResetReenables ==
    (\A p \in Requesters : ~Inside(p)) /\ nextCheck = Nil => state = "Enabled"

\* A request is let through after a failure only when the pause is over: all
\* 2^n seconds of it after n failures in a row, or the longest pause, as long as
\* the pause is one a Duration can hold.
BacksOff ==
    [][\A p \in Requesters :
          pc[p] = "Deciding" /\ pc'[p] = "Requesting" /\ failures > 0 /\ Fits(failures)
            => rested > MinDuration(MaxBackoff, 2 ^ failures * Second)]_breakerVars

\* A hub that is back for good gets its requests through for good, whatever
\* answers of its outage arrive late.
HubIsUsedAgain == <>[]hubUp => <>[](state = "Enabled")
=============================================================================
