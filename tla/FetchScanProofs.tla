---------------------------- MODULE FetchScanProofs ----------------------------
(***************************************************************************)
(* Theorems about CircuitBreaker and FetchScan, for any number of          *)
(* requesters and of fetches that are made at the same time, any           *)
(* durations and any width of a Duration.                                  *)
(***************************************************************************)
EXTENDS FetchScan, TLAPS

-----------------------------------------------------------------------------
(***************************************************************************)
(* The circuit breaker.                                                    *)
(***************************************************************************)

\* The assignments that a method may have left, each with what the fields are
\* while they are left: what the method has done already, nobody has undone.
LeftToDo(w) ==
    \/ w = <<>>
    \/ w = <<"Enable", "ClearFailures", "ClearTime">>
    \/ w = <<"ClearFailures", "ClearTime">> /\ state = "Enabled"
    \/ w = <<"ClearTime">> /\ state = "Enabled" /\ failures = 0
    \/ w = <<"Disable", "FirstFailure", "SetTime">>
    \/ w = <<"FirstFailure", "SetTime">> /\ state = "Disabled"
    \/ w = <<"Disable", "CountFailure", "SetTime">>
    \/ w = <<"CountFailure", "SetTime">> /\ state = "Disabled"
    \/ w = <<"SetTime">> /\ state = "Disabled" /\ failures > 0

\* The shape of what is left, without what the fields are.
Leftovers == {<<>>, <<"Enable", "ClearFailures", "ClearTime">>, <<"ClearFailures", "ClearTime">>,
              <<"ClearTime">>, <<"Disable", "FirstFailure", "SetTime">>,
              <<"FirstFailure", "SetTime">>, <<"Disable", "CountFailure", "SetTime">>,
              <<"CountFailure", "SetTime">>, <<"SetTime">>}

Fields == /\ state \in BreakerStates
          /\ nextCheck \in (-1 .. MaxBackoff) \cup {Nil}
          /\ failures \in 0 .. MaxFailures
          /\ hubUp \in BOOLEAN
          /\ nextCheck # Nil => rested + nextCheck <= MaxBackoff
          /\ rested \in 0 .. MaxBackoff + 1

\* The type invariant with the time that was set and has elapsed.
TypeInv == /\ Fields
           /\ pc \in [Requesters -> PCs]
           /\ writes \in [Requesters -> Leftovers]

\* The pause is a time of at most MaxBackoff, or one that has passed already.
LEMMA BackoffType ==
    ASSUME NEW n \in 0 .. MaxFailures
    PROVE  NotBefore(Backoff(n)) \in -1 .. MaxBackoff
<1> DEFINE d == 2 ^ n
           x == d * Second
           r == x % Word
<1>1. d \in Nat
  BY PowersAssumption
<1> HIDE DEF d
<1>2. x \in Int
  BY <1>1, DurationsAssumption
<1> HIDE DEF x
<1>3. r \in Nat /\ r < Word
  BY <1>2, DurationsAssumption
<1> HIDE DEF r
<1>4. Wrapped(x) = IF 2 * r < Word THEN r ELSE r - Word
  BY DEF Wrapped, r
<1>5. Wrapped(x) \in Int
  BY <1>3, <1>4, DurationsAssumption
<1>6. Backoff(n) = IF MaxBackoff < Wrapped(x) THEN MaxBackoff ELSE Wrapped(x)
  BY DEF Backoff, MinDuration, x, d
<1> QED
  BY <1>5, <1>6, DurationsAssumption DEF NotBefore

\* The first assignment of each, and what is left after it.
LEMMA HeadsAndTails ==
    /\ \A a, b, c : Head(<<a, b, c>>) = a /\ Tail(<<a, b, c>>) = <<b, c>>
    /\ \A a, b : Head(<<a, b>>) = a /\ Tail(<<a, b>>) = <<b>>
    /\ \A a : Head(<<a>>) = a /\ Tail(<<a>>) = <<>>
OBVIOUS

\* One assignment takes the first of what is left away, and keeps the types.
LEMMA AssignType ==
    ASSUME Fields, NEW w \in Leftovers, w # <<>>, Assign(Head(w)), UNCHANGED hubUp
    PROVE  Fields' /\ Tail(w) \in Leftovers
<1>1. Head(w) \in Writes /\ Tail(w) \in Leftovers
  <2>1. CASE \E a, b, c : w = <<a, b, c>>
    BY <2>1, HeadsAndTails DEF Leftovers, Writes
  <2>2. CASE \E a, b : w = <<a, b>>
    BY <2>2, HeadsAndTails DEF Leftovers, Writes
  <2>3. CASE \E a : w = <<a>>
    BY <2>3, HeadsAndTails DEF Leftovers, Writes
  <2> QED
    BY <2>1, <2>2, <2>3 DEF Leftovers
<1>2. PICK h \in Writes : h = Head(w)
  BY <1>1
<1>3. Assign(h)
  BY <1>2
<1>4. CASE h = "SetTime"
  <2>1. nextCheck' = NotBefore(Backoff(failures)) /\ rested' = 0
    BY <1>3, <1>4 DEF Assign
  <2>2. NotBefore(Backoff(failures)) \in -1 .. MaxBackoff
    BY BackoffType DEF Fields
  <2>3. state' = state /\ failures' = failures
    BY <1>3, <1>4 DEF Assign
  <2> QED
    BY <1>1, <2>1, <2>2, <2>3, DurationsAssumption, NilAssumption DEF Fields
<1>5. CASE h # "SetTime"
  <2>1. \/ nextCheck' = nextCheck /\ rested' = rested
        \/ nextCheck' = Nil /\ rested' = 0
    BY <1>3, <1>5 DEF Assign
  <2>2. state' \in BreakerStates
    BY <1>3 DEF Assign, Fields, BreakerStates
  <2>3. failures' \in 0 .. MaxFailures
    BY <1>3, MaxFailuresAssumption DEF Assign, Fields, OneMore
  <2> QED
    BY <1>1, <2>1, <2>2, <2>3, DurationsAssumption, NilAssumption DEF Fields
<1> QED
  BY <1>4, <1>5

\* Every step keeps the types.
LEMMA TypeStep == TypeInv /\ [BreakerNext]_breakerVars => TypeInv'
<1> SUFFICES ASSUME TypeInv, [BreakerNext]_breakerVars
             PROVE  TypeInv'
  OBVIOUS
<1> USE DEF TypeInv
<1>1. ASSUME NEW p \in Requesters, IssueRequest(p)
      PROVE  TypeInv'
  BY <1>1 DEF IssueRequest, Goto, PCs, Fields
<1>2. ASSUME NEW p \in Requesters, ReadTime(p)
      PROVE  TypeInv'
  BY <1>2 DEF ReadTime, Goto, PCs, Fields
<1>3. ASSUME NEW p \in Requesters, StartChecking(p)
      PROVE  TypeInv'
  BY <1>3 DEF StartChecking, Goto, PCs, Fields, BreakerStates
<1>4. ASSUME NEW p \in Requesters, IsEnabled(p)
      PROVE  TypeInv'
  BY <1>4 DEF IsEnabled, Goto, PCs, Fields
<1>5. ASSUME NEW p \in Requesters, AssignNext(p)
      PROVE  TypeInv'
  <2>1. Fields' /\ Tail(writes[p]) \in Leftovers
    BY <1>5, AssignType DEF AssignNext
  <2> QED
    BY <1>5, <2>1 DEF AssignNext
<1>6. ASSUME NEW p \in Requesters, Answered(p)
      PROVE  TypeInv'
  <2>1. success \in Leftovers /\ failure \in Leftovers
    BY DEF success, resets, failure, Leftovers, Fields, BreakerStates
  <2> QED
    BY <1>6, <2>1 DEF Answered, Goto, PCs, Fields
<1>7. ASSUME NEW p \in Requesters, Reset(p)
      PROVE  TypeInv'
  BY <1>7 DEF Reset, resets, Leftovers, Fields
<1>8. ASSUME NEW p \in Requesters, Return(p)
      PROVE  TypeInv'
  BY <1>8 DEF Return, Goto, PCs, Fields
<1>9. CASE Elapse
  BY <1>9, NilAssumption, DurationsAssumption DEF Elapse, Fields
<1>10. CASE HubChanges
  BY <1>10 DEF HubChanges, Fields
<1>11. CASE UNCHANGED breakerVars
  BY <1>11 DEF breakerVars, Fields
<1> QED
  BY <1>1, <1>2, <1>3, <1>4, <1>5, <1>6, <1>7, <1>8, <1>9, <1>10, <1>11
     DEF BreakerNext, BreakerStep, MethodStep

\* The types are right at the start.
LEMMA TypeAtStart == NewCircuitBreaker => TypeInv
BY DurationsAssumption, NilAssumption, MaxFailuresAssumption
   DEF NewCircuitBreaker, TypeInv, Fields, BreakerStates, PCs, Leftovers

\* What is left are at most three assignments.
LEMMA LeftoversType == \A w \in Leftovers : w \in Seq(Writes) /\ Len(w) <= 3
<1>1. /\ \A a, b, c \in Writes : <<a, b, c>> \in Seq(Writes) /\ Len(<<a, b, c>>) = 3
      /\ \A a, b \in Writes : <<a, b>> \in Seq(Writes) /\ Len(<<a, b>>) = 2
      /\ \A a \in Writes : <<a>> \in Seq(Writes) /\ Len(<<a>>) = 1
      /\ <<>> \in Seq(Writes) /\ Len(<<>>) = 0
  OBVIOUS
<1>2. {"Enable", "Disable", "ClearFailures", "FirstFailure", "CountFailure",
       "SetTime", "ClearTime"} \subseteq Writes
  BY DEF Writes
<1> TAKE w \in Leftovers
<1>3. CASE \E a, b, c \in Writes : w = <<a, b, c>>
  BY <1>1, <1>3
<1>4. CASE \E a, b \in Writes : w = <<a, b>>
  BY <1>1, <1>4
<1>5. CASE \E a \in Writes : w = <<a>>
  BY <1>1, <1>5
<1>6. CASE w = <<>>
  BY <1>1, <1>6
<1> QED
  BY <1>2, <1>3, <1>4, <1>5, <1>6 DEF Leftovers

\* Every field of the breaker keeps its type, whatever methods overlap: the time
\* to check again is never farther off than maxBackoffDuration.
THEOREM BreakerTypeCorrect == BreakerSpec => []BreakerTypeOK
<1>1. TypeInv => BreakerTypeOK
  BY LeftoversType DEF TypeInv, Fields, BreakerTypeOK
<1> QED
  BY <1>1, TypeAtStart, TypeStep, PTL DEF BreakerSpec

-----------------------------------------------------------------------------
(* The fields agree, when methods do not overlap.                          *)

Agree == /\ state = "Enabled" <=> nextCheck = Nil
         /\ state = "Enabled" <=> failures = 0
         /\ state = "Checking" => nextCheck = -1

\* At most one requester is inside a method.
Alone == \A p, q \in Requesters : Inside(p) /\ Inside(q) => p = q

\* What a requester has read is still so.
StillSo(p) == /\ pc[p] # "Panicked"
              /\ pc[p] \in {"Reading", "Marking", "Deciding", "Requesting"} => writes[p] = <<>>
              /\ pc[p] = "Reading" => state = "Disabled"
              /\ pc[p] = "Marking" => state = "Disabled" /\ nextCheck = -1

\* The inductive invariant: the fields agree when nothing is left to assign, and
\* are on their way to it otherwise.
AgreeInv == /\ Alone
            /\ \A p \in Requesters : LeftToDo(writes[p]) /\ StillSo(p)
            /\ (\A p \in Requesters : writes[p] = <<>>) => Agree

\* The one that takes a step is the only one inside a method, then and after.
LEMMA OneAtATime ==
    ASSUME Undisturbed, TypeInv, NEW p \in Requesters, Running(p),
           NEW newPc, NEW newWrites,
           pc' = [pc EXCEPT ![p] = newPc], writes' = [writes EXCEPT ![p] = newWrites]
    PROVE  /\ Alone'
           /\ \A q \in Requesters \ {p} :
                 /\ writes[q] = <<>> /\ writes'[q] = <<>> /\ pc'[q] = pc[q]
                 /\ pc[q] \notin {"Reading", "Marking", "Deciding"}
BY DEF Running, Inside, Alone, TypeInv

\* A step of a requester that runs keeps the invariant: it suffices to look at
\* this requester and at the fields.
LEMMA AgreeFrom ==
    ASSUME Undisturbed, TypeInv, AgreeInv, NEW p \in Requesters, Running(p),
           NEW newPc, NEW newWrites,
           pc' = [pc EXCEPT ![p] = newPc], writes' = [writes EXCEPT ![p] = newWrites],
           LeftToDo(newWrites)', StillSo(p)', newWrites = <<>> => Agree'
    PROVE  AgreeInv'
<1>1. /\ Alone'
      /\ \A q \in Requesters \ {p} :
            /\ writes[q] = <<>> /\ writes'[q] = <<>> /\ pc'[q] = pc[q]
            /\ pc[q] \notin {"Reading", "Marking", "Deciding"}
  BY OneAtATime
<1>2. pc'[p] = newPc /\ writes'[p] = newWrites
  BY DEF TypeInv
<1>3. \A q \in Requesters \ {p} : LeftToDo(writes[q])' /\ StillSo(q)'
  BY <1>1 DEF LeftToDo, StillSo, AgreeInv
<1>4. LeftToDo(writes[p])'
  BY <1>2 DEF LeftToDo
<1> QED
  BY <1>1, <1>2, <1>3, <1>4 DEF AgreeInv

\* When nobody has anything left, which is so before a method begins and while
\* it only reads, the fields agree.
LEMMA AgreeNow ==
    ASSUME Undisturbed, TypeInv, AgreeInv, NEW p \in Requesters, Running(p), writes[p] = <<>>
    PROVE  Agree
BY DEF Running, Inside, AgreeInv

\* What is left after one assignment is on its way to fields that agree, too.
LEMMA LeftAfter ==
    ASSUME Fields, Fields', NEW w \in Leftovers, w # <<>>, LeftToDo(w), Assign(Head(w))
    PROVE  LeftToDo(Tail(w))' /\ (Tail(w) = <<>> => Agree')
<1>1. PICK h, t : h = Head(w) /\ t = Tail(w)
  OBVIOUS
<1>2. Assign(h)
  BY <1>1
<1> SUFFICES LeftToDo(t)' /\ (t = <<>> => Agree')
  BY <1>1
<1>3. CASE w = <<"Enable", "ClearFailures", "ClearTime">>
  <2>1. h = "Enable" /\ t = <<"ClearFailures", "ClearTime">>
    BY <1>1, <1>3, HeadsAndTails
  <2>2. state' = "Enabled"
    BY <1>2, <2>1 DEF Assign
  <2> QED
    BY <2>1, <2>2 DEF LeftToDo
<1>4. CASE w = <<"ClearFailures", "ClearTime">>
  <2>1. h = "ClearFailures" /\ t = <<"ClearTime">> /\ state = "Enabled"
    BY <1>1, <1>4, HeadsAndTails DEF LeftToDo
  <2>2. state' = "Enabled" /\ failures' = 0
    BY <1>2, <2>1 DEF Assign
  <2> QED
    BY <2>1, <2>2 DEF LeftToDo
<1>5. CASE w = <<"ClearTime">>
  <2>1. h = "ClearTime" /\ t = <<>> /\ state = "Enabled" /\ failures = 0
    BY <1>1, <1>5, HeadsAndTails DEF LeftToDo
  <2>2. state' = "Enabled" /\ failures' = 0 /\ nextCheck' = Nil
    BY <1>2, <2>1 DEF Assign
  <2> QED
    BY <2>1, <2>2 DEF LeftToDo, Agree
<1>6. ASSUME NEW a \in {"FirstFailure", "CountFailure"}, w = <<"Disable", a, "SetTime">>
      PROVE  LeftToDo(t)' /\ (t = <<>> => Agree')
  <2>1. h = "Disable" /\ t = <<a, "SetTime">>
    BY <1>1, <1>6, HeadsAndTails
  <2>2. state' = "Disabled"
    BY <1>2, <2>1 DEF Assign
  <2>3. t # <<>>
    BY <2>1
  <2>4. CASE a = "FirstFailure"
    BY <2>1, <2>2, <2>3, <2>4 DEF LeftToDo
  <2>5. CASE a = "CountFailure"
    BY <2>1, <2>2, <2>3, <2>5 DEF LeftToDo
  <2> QED
    BY <1>6, <2>4, <2>5
<1>7. ASSUME NEW a \in {"FirstFailure", "CountFailure"}, w = <<a, "SetTime">>
      PROVE  LeftToDo(t)' /\ (t = <<>> => Agree')
  <2>1. h = a /\ t = <<"SetTime">>
    BY <1>1, <1>7, HeadsAndTails
  <2>2. w # <<>> /\ w # <<"SetTime">> /\ w # <<"ClearTime">>
    BY <1>7
  <2>3. CASE a = "FirstFailure"
    <3>1. w = <<"FirstFailure", "SetTime">>
      BY <1>7, <2>3
    <3>2. state = "Disabled"
      BY <3>1 DEF LeftToDo
    <3>3. state' = "Disabled" /\ failures' = 1
      BY <1>2, <2>1, <2>3, <3>2 DEF Assign
    <3> QED
      BY <2>1, <3>3 DEF LeftToDo
  <2>4. CASE a = "CountFailure"
    <3>1. w = <<"CountFailure", "SetTime">>
      BY <1>7, <2>4
    <3>2. state = "Disabled"
      BY <3>1 DEF LeftToDo
    <3>3. state' = "Disabled" /\ failures' = OneMore(failures)
      BY <1>2, <2>1, <2>4, <3>2 DEF Assign
    <3>4. OneMore(failures) > 0
      BY MaxFailuresAssumption DEF OneMore, Fields
    <3>5. failures' > 0
      BY <3>3, <3>4
    <3> QED
      BY <2>1, <3>3, <3>5 DEF LeftToDo
  <2> QED
    BY <1>7, <2>3, <2>4
<1>8. CASE w = <<"SetTime">>
  <2>1. h = "SetTime" /\ t = <<>> /\ state = "Disabled" /\ failures > 0
    BY <1>1, <1>8, HeadsAndTails DEF LeftToDo
  <2>2. state' = "Disabled" /\ failures' = failures /\ nextCheck' = NotBefore(Backoff(failures))
    BY <1>2, <2>1 DEF Assign
  <2>3. nextCheck' # Nil
    BY <2>2, BackoffType, NilAssumption DEF Fields
  <2> QED
    BY <2>1, <2>2, <2>3 DEF LeftToDo, Agree, Fields
<1> QED
  BY <1>3, <1>4, <1>5, <1>6, <1>7, <1>8 DEF Leftovers

\* The assignments of a method, one by one, lead to fields that agree.
LEMMA AssignAgree ==
    ASSUME Undisturbed, TypeInv, TypeInv', AgreeInv, NEW p \in Requesters, AssignNext(p)
    PROVE  AgreeInv'
<1>1. PICK w : w = writes[p]
  OBVIOUS
<1>2. /\ w \in Leftovers /\ w # <<>> /\ Running(p) /\ LeftToDo(w) /\ StillSo(p)
      /\ Assign(Head(w)) /\ writes' = [writes EXCEPT ![p] = Tail(w)] /\ pc' = pc
  BY <1>1 DEF AssignNext, TypeInv, AgreeInv
<1>3. pc' = [pc EXCEPT ![p] = pc[p]] /\ pc'[p] = pc[p] /\ writes'[p] = Tail(w)
  BY <1>2 DEF TypeInv
<1>4. StillSo(p)'
  BY <1>1, <1>2, <1>3 DEF StillSo
<1>5. LeftToDo(Tail(w))' /\ (Tail(w) = <<>> => Agree')
  BY <1>2, LeftAfter DEF TypeInv
<1> QED
  BY <1>2, <1>3, <1>4, <1>5, AgreeFrom

\* A step that assigns no field, inside a method or at its beginning or end.
LEMMA ReadingAgree ==
    ASSUME Undisturbed, TypeInv, AgreeInv, NEW p \in Requesters, Running(p),
           writes[p] = <<>>, NEW newPc, pc' = [pc EXCEPT ![p] = newPc],
           UNCHANGED <<state, nextCheck, failures, writes>>,
           newPc # "Panicked", newPc = "Reading" => state = "Disabled",
           newPc = "Marking" => state = "Disabled" /\ nextCheck = -1
    PROVE  AgreeInv'
<1>1. writes' = [writes EXCEPT ![p] = <<>>] /\ writes'[p] = <<>> /\ pc'[p] = newPc
  BY DEF TypeInv
<1>2. Agree'
  BY AgreeNow DEF Agree
<1>3. StillSo(p)'
  BY <1>1 DEF StillSo
<1>4. LeftToDo(<<>>)'
  BY DEF LeftToDo
<1> QED
  BY <1>1, <1>2, <1>3, <1>4, AgreeFrom

\* A step at which a method learns what it has to assign.
LEMMA LearningAgree ==
    ASSUME Undisturbed, TypeInv, AgreeInv, NEW p \in Requesters, Running(p),
           writes[p] = <<>>, NEW newPc \in {"Idle", "Succeeded", "Failed"},
           pc' = [pc EXCEPT ![p] = newPc],
           NEW w \in {<<>>, <<"Enable", "ClearFailures", "ClearTime">>,
                      <<"Disable", "FirstFailure", "SetTime">>,
                      <<"Disable", "CountFailure", "SetTime">>},
           writes' = [writes EXCEPT ![p] = w],
           UNCHANGED <<state, nextCheck, failures>>
    PROVE  AgreeInv'
<1>1. writes'[p] = w /\ pc'[p] = newPc
  BY DEF TypeInv
<1>2. Agree'
  BY AgreeNow DEF Agree
<1>3. StillSo(p)'
  BY <1>1 DEF StillSo
<1>4. LeftToDo(w)'
  BY DEF LeftToDo
<1> QED
  BY <1>1, <1>2, <1>3, <1>4, AgreeFrom

\* Every step keeps the invariant, when methods do not overlap.
LEMMA AgreeStep ==
    ASSUME Undisturbed, TypeInv, TypeInv', AgreeInv, [BreakerNext]_breakerVars
    PROVE  AgreeInv'
<1>1. ASSUME NEW p \in Requesters, IssueRequest(p)
      PROVE  AgreeInv'
  <2>1. PICK l : l = IF state = "Disabled" THEN "Reading" ELSE "Deciding"
    OBVIOUS
  <2>2. pc' = [pc EXCEPT ![p] = l] /\ Running(p) /\ writes[p] = <<>>
    BY <1>1, <2>1 DEF IssueRequest, Goto
  <2> QED
    BY <1>1, <2>1, <2>2, ReadingAgree DEF IssueRequest
<1>2. ASSUME NEW p \in Requesters, ReadTime(p)
      PROVE  AgreeInv'
  <2>1. Running(p) /\ writes[p] = <<>> /\ state = "Disabled"
    BY <1>2 DEF ReadTime, AgreeInv, StillSo
  <2>2. nextCheck # Nil
    BY <2>1, AgreeNow DEF Agree
  <2>3. MayCheck => nextCheck = -1
    BY <2>2 DEF MayCheck, TypeInv, Fields
  <2>4. PICK l : l = IF MayCheck THEN "Marking" ELSE "Deciding"
    OBVIOUS
  <2>5. pc' = [pc EXCEPT ![p] = l]
    BY <1>2, <2>2, <2>4 DEF ReadTime, Goto
  <2> QED
    BY <1>2, <2>1, <2>3, <2>4, <2>5, ReadingAgree DEF ReadTime
<1>3. ASSUME NEW p \in Requesters, StartChecking(p)
      PROVE  AgreeInv'
  <2>1. Running(p) /\ writes[p] = <<>> /\ state = "Disabled" /\ nextCheck = -1
    BY <1>3 DEF StartChecking, AgreeInv, StillSo
  <2>2. Agree
    BY <2>1, AgreeNow
  <2>3. /\ pc' = [pc EXCEPT ![p] = "Deciding"] /\ state' = "Checking"
        /\ UNCHANGED <<nextCheck, failures, writes>>
    BY <1>3 DEF StartChecking, Goto
  <2>4. Agree'
    BY <2>1, <2>2, <2>3 DEF Agree
  <2>5. /\ writes' = [writes EXCEPT ![p] = <<>>] /\ writes'[p] = <<>>
        /\ pc'[p] = "Deciding"
    BY <2>1, <2>3 DEF TypeInv
  <2>6. StillSo(p)'
    BY <2>5 DEF StillSo
  <2>7. LeftToDo(<<>>)'
    BY DEF LeftToDo
  <2> QED
    BY <2>1, <2>3, <2>4, <2>5, <2>6, <2>7, AgreeFrom
<1>4. ASSUME NEW p \in Requesters, IsEnabled(p)
      PROVE  AgreeInv'
  <2>1. PICK l : l = IF state # "Disabled" THEN "Requesting" ELSE "Failed"
    OBVIOUS
  <2>2. pc' = [pc EXCEPT ![p] = l] /\ Running(p) /\ writes[p] = <<>>
    BY <1>4, <2>1 DEF IsEnabled, Goto, AgreeInv, StillSo
  <2> QED
    BY <1>4, <2>1, <2>2, ReadingAgree DEF IsEnabled
<1>5. ASSUME NEW p \in Requesters, AssignNext(p)
      PROVE  AgreeInv'
  BY <1>5, AssignAgree
<1>6. ASSUME NEW p \in Requesters, Answered(p)
      PROVE  AgreeInv'
  <2>1. PICK l : l = IF hubUp THEN "Succeeded" ELSE "Failed"
    OBVIOUS
  <2>2. PICK w : w = IF hubUp THEN success ELSE failure
    OBVIOUS
  <2>3. /\ pc' = [pc EXCEPT ![p] = l] /\ writes' = [writes EXCEPT ![p] = w]
        /\ Running(p) /\ writes[p] = <<>> /\ UNCHANGED <<state, nextCheck, failures>>
    BY <1>6, <2>1, <2>2 DEF Answered, Goto, AgreeInv, StillSo
  <2>4. w \in {<<>>, <<"Enable", "ClearFailures", "ClearTime">>,
               <<"Disable", "FirstFailure", "SetTime">>,
               <<"Disable", "CountFailure", "SetTime">>}
    BY <2>2 DEF success, resets, failure, TypeInv, Fields, BreakerStates
  <2> QED
    BY <2>1, <2>3, <2>4, LearningAgree
<1>7. ASSUME NEW p \in Requesters, Reset(p)
      PROVE  AgreeInv'
  <2>1. pc' = [pc EXCEPT ![p] = "Idle"]
    BY <1>7 DEF Reset, TypeInv
  <2> QED
    BY <1>7, <2>1, LearningAgree DEF Reset, resets
<1>8. ASSUME NEW p \in Requesters, Return(p)
      PROVE  AgreeInv'
  BY <1>8, ReadingAgree DEF Return, Goto
<1>9. CASE Elapse
  <2>1. nextCheck # -1 /\ nextCheck # Nil /\ nextCheck' # Nil
    BY <1>9, NilAssumption DEF Elapse, TypeInv, Fields
  <2>2. Alone' /\ \A p \in Requesters : LeftToDo(writes[p])' /\ StillSo(p)'
    BY <1>9, <2>1 DEF Elapse, AgreeInv, Alone, Inside, StillSo, LeftToDo
  <2>3. Agree => Agree'
    BY <1>9, <2>1 DEF Elapse, Agree
  <2> QED
    BY <1>9, <2>2, <2>3 DEF Elapse, AgreeInv
<1>10. CASE HubChanges
  BY <1>10 DEF HubChanges, AgreeInv, Alone, Inside, StillSo, LeftToDo, Agree
<1>11. CASE UNCHANGED breakerVars
  BY <1>11 DEF breakerVars, AgreeInv, Alone, Inside, StillSo, LeftToDo, Agree
<1> QED
  BY <1>1, <1>2, <1>3, <1>4, <1>5, <1>6, <1>7, <1>8, <1>9, <1>10, <1>11
     DEF BreakerNext, BreakerStep, MethodStep

\* The fields agree at the start.
LEMMA AgreeAtStart == NewCircuitBreaker => AgreeInv
BY DEF NewCircuitBreaker, AgreeInv, Alone, Inside, LeftToDo, StillSo, Agree

\* When methods do not overlap, the invariant holds of every state.
LEMMA AgreeInvariance == Undisturbed /\ BreakerSpec => [](TypeInv /\ AgreeInv)
<1>1. Undisturbed /\ TypeInv /\ AgreeInv /\ [BreakerNext]_breakerVars
        => (TypeInv /\ AgreeInv)'
  BY TypeStep, AgreeStep
<1>2. CASE Undisturbed
  <2>1. TypeInv /\ AgreeInv /\ [BreakerNext]_breakerVars => (TypeInv /\ AgreeInv)'
    BY <1>1, <1>2
  <2> QED
    BY <2>1, TypeAtStart, AgreeAtStart, PTL DEF BreakerSpec
<1>3. CASE ~Undisturbed
  BY <1>3
<1> QED
  BY <1>2, <1>3

\* The fields of the breaker agree whenever no method is at work on them, if
\* methods do not overlap, for any number of goroutines: no reset and no late
\* answer of a request parts them.
THEOREM FieldsStayTogether == Undisturbed /\ BreakerSpec => []FieldsAgree
<1>1. TypeInv /\ AgreeInv => FieldsAgree
  BY DEF AgreeInv, FieldsAgree, Agree, Inside
<1> QED
  BY <1>1, AgreeInvariance, PTL

\* No request then goes through a time that is nil.
THEOREM NoRequestPanics ==
    Undisturbed /\ BreakerSpec => [](\A p \in Requesters : pc[p] # "Panicked")
<1>1. AgreeInv => \A p \in Requesters : pc[p] # "Panicked"
  BY DEF AgreeInv, StillSo
<1> QED
  BY <1>1, AgreeInvariance, PTL

\* A breaker that has no time to wait for is enabled, then too: what the comment
\* of Reset promises, and what breaks when methods overlap.
THEOREM ResetReenablesIt == Undisturbed /\ BreakerSpec => []ResetReenables
<1>1. FieldsAgree => ResetReenables
  BY DEF FieldsAgree, ResetReenables
<1> QED
  BY <1>1, FieldsStayTogether, PTL

\* The pause after n failures, when it fits into a Duration.
Pause(n) == MinDuration(MaxBackoff, 2 ^ n * Second)

\* What is left of the pause and what has elapsed of it make up the pause.
RestInv ==
    (\A p \in Requesters : writes[p] = <<>>) /\ nextCheck # Nil /\ Fits(failures)
        => nextCheck + rested = Pause(failures)

\* A pause that fits is set as it is.
LEMMA PauseIsSet ==
    ASSUME NEW n \in 0 .. MaxFailures, Fits(n)
    PROVE  NotBefore(Backoff(n)) = Pause(n) /\ Pause(n) \in Nat
<1> DEFINE x == 2 ^ n * Second
           half == Word \div 2
<1>1. x \in Nat
  BY PowersAssumption, DurationsAssumption
<1>2. x < half
  BY DEF Fits
<1> HIDE DEF x
<1>3. half \in Nat /\ 2 * half <= Word
  BY DurationsAssumption
<1> HIDE DEF half
<1>4. x < Word /\ 2 * x < Word
  BY <1>1, <1>2, <1>3, DurationsAssumption
<1>5. x % Word = x
  BY <1>1, <1>4, DurationsAssumption
<1>6. Wrapped(x) = x
  BY <1>4, <1>5 DEF Wrapped
<1>7. Backoff(n) = Pause(n)
  BY <1>6 DEF Backoff, Pause, x
<1>8. Pause(n) \in Nat
  BY <1>1, DurationsAssumption DEF Pause, MinDuration, x
<1> QED
  BY <1>7, <1>8 DEF NotBefore

\* The last assignment of a method sets the time of the failures counted by then,
\* or clears it: so it restarts the pause, and all else leaves it as it is.
LEMMA RestStep ==
    ASSUME TypeInv, AgreeInv, RestInv, [BreakerNext]_breakerVars
    PROVE  RestInv'
<1>1. ASSUME NEW p \in Requesters, AssignNext(p)
      PROVE  RestInv'
  <2>1. PICK w \in Leftovers : w = writes[p]
    BY DEF TypeInv
  <2>2. Assign(Head(w)) /\ w # <<>> /\ writes'[p] = Tail(w)
    BY <1>1, <2>1 DEF AssignNext, TypeInv
  <2>3. CASE Tail(w) # <<>>
    BY <2>2, <2>3 DEF RestInv
  <2>4. CASE w = <<"SetTime">>
    <3>1. nextCheck' = NotBefore(Backoff(failures)) /\ rested' = 0 /\ failures' = failures
      BY <2>2, <2>4, HeadsAndTails DEF Assign
    <3>2. failures \in 0 .. MaxFailures
      BY DEF TypeInv, Fields
    <3>3. Fits(failures) => nextCheck' = Pause(failures) /\ Pause(failures) \in Nat
      BY <3>1, <3>2, PauseIsSet
    <3> QED
      BY <3>1, <3>3 DEF RestInv, Fits, Pause, MinDuration
  <2>5. CASE w = <<"ClearTime">>
    BY <2>2, <2>5, HeadsAndTails DEF Assign, RestInv
  <2>6. \/ \E a, b, c : w = <<a, b, c>>
        \/ \E a, b : w = <<a, b>>
        \/ w \in {<<"SetTime">>, <<"ClearTime">>}
    BY <2>1, <2>2 DEF Leftovers
  <2>7. CASE \E a, b, c : w = <<a, b, c>>
    <3>1. PICK a, b, c : w = <<a, b, c>>
      BY <2>7
    <3>2. Tail(w) = <<b, c>>
      BY <3>1, HeadsAndTails
    <3> QED
      BY <2>3, <3>2
  <2>8. CASE \E a, b : w = <<a, b>>
    <3>1. PICK a, b : w = <<a, b>>
      BY <2>8
    <3>2. Tail(w) = <<b>>
      BY <3>1, HeadsAndTails
    <3> QED
      BY <2>3, <3>2
  <2> QED
    BY <2>4, <2>5, <2>6, <2>7, <2>8
<1>2. CASE Elapse
  <2>1. nextCheck' = nextCheck - 1 /\ rested' = rested + 1
    BY <1>2 DEF Elapse
  <2>2. nextCheck \in Int /\ rested \in Int
    BY <1>2, DurationsAssumption DEF Elapse, TypeInv, Fields
  <2>3. nextCheck' + rested' = nextCheck + rested
    BY <2>1, <2>2
  <2>4. UNCHANGED <<failures, writes>> /\ nextCheck # Nil
    BY <1>2 DEF Elapse
  <2> QED
    BY <2>3, <2>4 DEF RestInv, Fits, Pause, MinDuration
<1>3. ASSUME UNCHANGED <<nextCheck, rested, failures>>,
             (\A p \in Requesters : writes'[p] = <<>>) => \A p \in Requesters : writes[p] = <<>>
      PROVE  RestInv'
  BY <1>3 DEF RestInv, Fits, Pause, MinDuration
<1>4. ASSUME NEW p \in Requesters, Answered(p) \/ Reset(p)
      PROVE  RestInv'
  <2>1. \A q \in Requesters \ {p} : writes'[q] = writes[q]
    BY <1>4 DEF Answered, Reset, TypeInv
  <2>2. writes[p] = <<>>
    BY <1>4 DEF Answered, Reset, AgreeInv, StillSo
  <2> QED
    BY <1>3, <1>4, <2>1, <2>2 DEF Answered, Reset
<1>5. ASSUME NEW p \in Requesters,
             IssueRequest(p) \/ ReadTime(p) \/ StartChecking(p) \/ IsEnabled(p) \/ Return(p)
      PROVE  RestInv'
  BY <1>3, <1>5 DEF IssueRequest, ReadTime, StartChecking, IsEnabled, Return
<1>6. CASE HubChanges \/ UNCHANGED breakerVars
  BY <1>3, <1>6 DEF HubChanges, breakerVars
<1> QED
  BY <1>1, <1>2, <1>4, <1>5, <1>6 DEF BreakerNext, BreakerStep, MethodStep

\* When methods do not overlap, the invariant of the pauses holds of every state.
LEMMA RestInvariance ==
    Undisturbed /\ BreakerSpec => [](TypeInv /\ AgreeInv /\ RestInv)
<1>1. NewCircuitBreaker => RestInv
  BY DEF NewCircuitBreaker, RestInv
<1>2. TypeInv /\ AgreeInv /\ RestInv /\ [BreakerNext]_breakerVars => RestInv'
  BY RestStep
<1> QED
  BY <1>1, <1>2, AgreeInvariance, PTL DEF BreakerSpec

\* After n failures in a row no request gets through before the whole pause of 2^n
\* seconds, or the longest pause, is over, as long as it fits into a Duration
\* (circuitbreaker.go: isAbleToIssueRequest, setNextCheckTime, failure).
THEOREM RequestsBackOff == Undisturbed /\ BreakerSpec => BacksOff
<1>1. ASSUME TypeInv, AgreeInv, RestInv, Undisturbed, BreakerNext, NEW p \in Requesters,
             pc[p] = "Deciding", pc'[p] = "Requesting", failures > 0, Fits(failures)
      PROVE  rested > Pause(failures)
  <2>1. IsEnabled(p)
    BY <1>1 DEF BreakerNext, BreakerStep, MethodStep, IssueRequest, ReadTime, StartChecking,
                IsEnabled, AssignNext, Answered, Reset, Return, Elapse, HubChanges, Goto,
                TypeInv, PCs
  <2>2. \A q \in Requesters : writes[q] = <<>>
    BY <1>1, <2>1 DEF IsEnabled, Running, Inside, AgreeInv, StillSo
  <2>3. Agree /\ state # "Disabled"
    BY <1>1, <2>1, <2>2 DEF IsEnabled, Goto, AgreeInv, TypeInv
  <2>4. nextCheck = -1 /\ nextCheck # Nil
    BY <1>1, <2>3, NilAssumption DEF Agree, TypeInv, Fields, BreakerStates
  <2>5. failures \in 0 .. MaxFailures /\ rested \in Nat
    BY <1>1, DurationsAssumption DEF TypeInv, Fields
  <2>6. nextCheck + rested = Pause(failures) /\ Pause(failures) \in Nat
    BY <1>1, <2>2, <2>4, <2>5, PauseIsSet DEF RestInv
  <2> QED
    BY <2>4, <2>5, <2>6
<1>2. TypeInv /\ AgreeInv /\ RestInv /\ Undisturbed /\ [BreakerNext]_breakerVars =>
        [\A p \in Requesters :
            pc[p] = "Deciding" /\ pc'[p] = "Requesting" /\ failures > 0 /\ Fits(failures)
              => rested > MinDuration(MaxBackoff, 2 ^ failures * Second)]_breakerVars
  BY <1>1 DEF Pause
<1>3. CASE Undisturbed
  <2>1. TypeInv /\ AgreeInv /\ RestInv /\ [BreakerNext]_breakerVars =>
          [\A p \in Requesters :
              pc[p] = "Deciding" /\ pc'[p] = "Requesting" /\ failures > 0 /\ Fits(failures)
                => rested > MinDuration(MaxBackoff, 2 ^ failures * Second)]_breakerVars
    BY <1>2, <1>3
  <2> QED
    BY <2>1, RestInvariance, PTL DEF BreakerSpec, BacksOff
<1>4. CASE ~Undisturbed
  BY <1>4
<1> QED
  BY <1>3, <1>4

-----------------------------------------------------------------------------
(***************************************************************************)
(* Fetches of a scan, through a breaker that others use, too.              *)
(***************************************************************************)

\* A fetch has read stages in the order of its requests, none from before it
\* began and none that the Black Duck has not reached.
ReadsOf(p) ==
    /\ reads[p] \in Seq(RemoteStages) /\ Len(reads[p]) <= 5
    /\ began[p] <= remote
    /\ \A i \in 1 .. Len(reads[p]) : began[p] <= reads[p][i] /\ reads[p][i] <= remote
    /\ \A i, j \in 1 .. Len(reads[p]) : i <= j => reads[p][i] <= reads[p][j]
    /\ Len(reads[p]) = 5 => pc[p] = "Succeeded"
    /\ reads[p] = <<>> => pc[p] # "Succeeded"

\* What it returned is what these reads amount to.
AnswerOf(p) ==
    \/ answer[p] \in {Fetching, Error}
    \/ answer[p] = Nothing /\ began[p] <= Empty
    \/ /\ answer[p] \in ResultsSet
       /\ began[p] <= answer[p].profile
       /\ answer[p].profile <= answer[p].policy
       /\ answer[p].policy <= answer[p].summaries
       /\ answer[p].summaries <= remote

\* What a fetch may have returned.
Returned == {Fetching, Nothing, Error} \cup ResultsSet

FetchTypes ==
    /\ remote \in RemoteStages
    /\ reads \in [Fetchers -> Seq(RemoteStages)]
    /\ began \in [Fetchers -> RemoteStages]
    /\ answer \in [Fetchers -> Returned]
    /\ pc \in [Requesters -> PCs]

FetchInv == FetchTypes /\ \A p \in Fetchers : ReadsOf(p) /\ AnswerOf(p)

\* A fetch is a request after the other to the breaker, and nothing but the
\* breaker's own steps touches the breaker.
LEMMA FetchStepsAreBreakerSteps == [FetchNext]_clientVars => [BreakerNext]_breakerVars
BY FetchersAssumption
   DEF FetchNext, FetcherStep, OtherStep, BreakerNext, BreakerStep, MethodStep, Request,
       Response, FetchOn, RemoteProceeds, clientVars

\* So a client's breaker behaves as a breaker.
LEMMA FetchBreaker == FetchSpec => BreakerSpec
<1>1. FetchInit => NewCircuitBreaker
  BY DEF FetchInit
<1> QED
  BY <1>1, FetchStepsAreBreakerSteps, PTL DEF FetchSpec, BreakerSpec

\* The answers can be told apart.
LEMMA AnswerKinds ==
    /\ Fetching # Error /\ Fetching # Nothing /\ Nothing # Error
    /\ \A r \in ResultsSet : r \notin {Fetching, Error, Nothing} /\ r.is = "Results"
    /\ Fetching.is # "Results" /\ Error.is # "Results" /\ Nothing.is # "Results"
<1>1. Fetching.is = "Fetching" /\ Error.is = "Error" /\ Nothing.is = "Nothing"
  BY DEF Fetching, Error, Nothing
<1>2. \A r \in ResultsSet : r.is = "Results"
  BY DEF ResultsSet
<1> QED
  BY <1>1, <1>2

\* What a fetch returns fits what it read.
LEMMA OutcomeFits ==
    ASSUME FetchTypes, NEW p \in Fetchers, ReadsOf(p), reads[p] # <<>>
    PROVE  LET o == Outcome(reads[p])
           IN  /\ \/ o = Fetching
                  \/ o = Nothing /\ began[p] <= Empty
                  \/ /\ o \in ResultsSet
                     /\ began[p] <= o.profile /\ o.profile <= o.policy
                     /\ o.policy <= o.summaries /\ o.summaries <= remote
               /\ Len(reads[p]) = 5 => o # Fetching
<1> DEFINE read == reads[p]
<1>1. Len(Chain) = 5
  BY DEF Chain
<1>2. /\ read \in Seq(RemoteStages) /\ Len(read) \in Nat /\ Len(read) > 0
      /\ \A i \in 1 .. Len(read) : began[p] <= read[i] /\ read[i] <= remote /\ read[i] \in RemoteStages
      /\ \A i, j \in 1 .. Len(read) : i <= j => read[i] <= read[j]
      /\ began[p] \in RemoteStages
  BY DEF ReadsOf, FetchTypes
<1> HIDE DEF read
<1>3. CASE Len(read) = 5
  <2>1. /\ read[3] \in RemoteStages /\ read[4] \in RemoteStages /\ read[5] \in RemoteStages
        /\ began[p] <= read[3] /\ read[3] <= read[4] /\ read[4] <= read[5] /\ read[5] <= remote
        /\ began[p] <= read[5]
    BY <1>2, <1>3
  <2>2. CASE read[5] <= Empty
    <3>0. ~(read[5] > Empty)
      BY <2>1, <2>2 DEF RemoteStages, Absent, Done, Empty
    <3>1. Outcome(read) = Nothing
      BY <1>1, <1>3, <2>2, <3>0 DEF Outcome
    <3>2. began[p] <= Empty
      BY <1>2, <2>1, <2>2 DEF RemoteStages, Absent, Done, Empty
    <3> QED
      BY <3>1, <3>2, AnswerKinds DEF read
  <2>3. CASE ~(read[5] <= Empty)
    <3>1. read[5] > Empty
      BY <2>1, <2>3 DEF RemoteStages, Absent, Done, Empty
    <3>2. Outcome(read) = Results(read)
      BY <1>1, <1>3, <2>3, <3>1 DEF Outcome
    <3>3. /\ Results(read) \in ResultsSet /\ Results(read).profile = read[3]
          /\ Results(read).policy = read[4] /\ Results(read).summaries = read[5]
      BY <2>1 DEF Results, ResultsSet
    <3> QED
      BY <2>1, <3>2, <3>3, AnswerKinds DEF read
  <2> QED
    BY <2>2, <2>3
<1>4. CASE Len(read) # 5
  <2>1. Outcome(read) = IF Len(read) = 1 /\ read[1] = Absent THEN Nothing ELSE Fetching
    BY <1>1, <1>4 DEF Outcome
  <2>2. read[1] = Absent => began[p] <= Empty
    BY <1>2 DEF RemoteStages, Absent, Done, Empty
  <2> QED
    BY <1>4, <2>1, <2>2 DEF read
<1> QED
  BY <1>3, <1>4

\* A step of one fetch leaves the others as they are.
Untouched(p) == /\ \A q \in Fetchers \ {p} :
                      /\ reads'[q] = reads[q] /\ answer'[q] = answer[q]
                      /\ began'[q] = began[q] /\ pc'[q] = pc[q]
                /\ remote' = remote

\* So it is enough to look at that one.
LEMMA OthersStay ==
    ASSUME FetchInv, FetchTypes', NEW p \in Requesters, Untouched(p),
           p \in Fetchers => ReadsOf(p)' /\ AnswerOf(p)'
    PROVE  FetchInv'
<1>1. \A q \in Fetchers \ {p} : ReadsOf(q)' /\ AnswerOf(q)'
  BY DEF FetchInv, ReadsOf, AnswerOf, Untouched
<1> QED
  BY <1>1 DEF FetchInv

\* A step of the breaker moves at most one requester, and where to.
LEMMA BreakerMoves ==
    ASSUME pc \in [Requesters -> PCs], NEW p \in Requesters, BreakerStep(p) \/ Return(p)
    PROVE  /\ pc' \in [Requesters -> PCs] /\ \A q \in Requesters \ {p} : pc'[q] = pc[q]
           /\ MethodStep(p) => pc'[p] = "Succeeded" <=> pc[p] = "Succeeded"
BY DEF BreakerStep, MethodStep, IssueRequest, ReadTime, StartChecking, IsEnabled, AssignNext,
       Answered, Reset, Return, Goto, PCs

\* A step of a fetch changes its part of the variables.
LEMMA OneFetch ==
    ASSUME FetchTypes, NEW p \in Fetchers, BreakerStep(p) \/ Return(p),
           NEW r \in Seq(RemoteStages), NEW b \in RemoteStages, NEW a \in Returned,
           reads' = [reads EXCEPT ![p] = r],
           answer' = [answer EXCEPT ![p] = a],
           began' = [began EXCEPT ![p] = b], remote' = remote
    PROVE  /\ FetchTypes' /\ Untouched(p) /\ p \in Requesters
           /\ reads'[p] = r /\ answer'[p] = a /\ began'[p] = b
<1>1. p \in Requesters
  BY FetchersAssumption
<1>2. /\ pc' \in [Requesters -> PCs]
      /\ \A q \in Requesters \ {p} : pc'[q] = pc[q]
  BY <1>1, BreakerMoves DEF FetchTypes
<1> QED
  BY <1>1, <1>2, FetchersAssumption DEF FetchTypes, Untouched

\* One more read keeps reads in order.
LEMMA ReadOneMore ==
    ASSUME FetchTypes, FetchTypes', NEW p \in Fetchers, ReadsOf(p), Len(reads[p]) < 5,
           reads'[p] = Append(reads[p], remote), began'[p] = began[p], remote' = remote,
           pc'[p] = "Succeeded"
    PROVE  ReadsOf(p)'
<1> DEFINE r == reads[p]
           n == Len(r)
<1>1. r \in Seq(RemoteStages) /\ n \in Nat /\ n < 5 /\ remote \in 0 .. 3 /\ remote \in RemoteStages
  BY DEF ReadsOf, FetchTypes, RemoteStages, Absent, Done
<1>2. /\ \A i \in 1 .. n : began[p] <= r[i] /\ r[i] <= remote
      /\ \A i, j \in 1 .. n : i <= j => r[i] <= r[j]
      /\ began[p] <= remote
  BY DEF ReadsOf
<1> HIDE DEF r, n
<1>3. PICK e : e = Append(r, remote)
  OBVIOUS
<1>4. reads'[p] = e
  BY <1>3 DEF r
<1>5. /\ e \in Seq(RemoteStages) /\ Len(e) = n + 1 /\ e # <<>>
      /\ \A i \in 1 .. n : e[i] = r[i]
      /\ e[n + 1] = remote
  BY <1>1, <1>3 DEF n
<1>6. \A i \in 1 .. n + 1 : began[p] <= e[i] /\ e[i] <= remote
  BY <1>1, <1>2, <1>5
<1>7. \A i, j \in 1 .. n + 1 : i <= j => e[i] <= e[j]
  BY <1>1, <1>2, <1>5
<1> QED
  BY <1>1, <1>2, <1>4, <1>5, <1>6, <1>7 DEF ReadsOf

\* Every step keeps what was read and returned in order.
LEMMA FetchStepInv == FetchInv /\ [FetchNext]_clientVars => FetchInv'
<1> SUFFICES ASSUME FetchInv, [FetchNext]_clientVars
             PROVE  FetchInv'
  OBVIOUS
<1> USE DEF FetchInv
<1>1. ASSUME NEW p \in Fetchers, Request(p)
      PROVE  FetchInv'
  <2>1. PICK v \in RemoteStages : v = IF reads[p] = <<>> THEN remote ELSE began[p]
    BY DEF FetchTypes
  <2>2. /\ BreakerStep(p) /\ pc[p] = "Idle" /\ reads' = [reads EXCEPT ![p] = reads[p]]
        /\ answer' = [answer EXCEPT ![p] = Fetching] /\ remote' = remote
        /\ began' = [began EXCEPT ![p] = v]
    BY <1>1, <2>1 DEF Request, BreakerStep, IssueRequest, FetchTypes
  <2>3. reads[p] \in Seq(RemoteStages) /\ Fetching \in Returned
    BY DEF FetchTypes, Returned
  <2>4. /\ FetchTypes' /\ Untouched(p) /\ p \in Requesters
        /\ reads'[p] = reads[p] /\ answer'[p] = Fetching /\ began'[p] = v
    BY <2>2, <2>3, OneFetch
  <2>5. pc'[p] # "Succeeded" /\ Len(reads[p]) # 5
    BY <1>1, <2>2, <2>4 DEF Request, IssueRequest, Goto, FetchTypes, ReadsOf
  <2>6. v <= remote /\ (reads[p] # <<>> => v = began[p])
    BY <2>1 DEF ReadsOf, FetchTypes, RemoteStages, Absent, Done
  <2>7. ReadsOf(p)'
    <3>1. CASE reads[p] = <<>>
      BY <2>2, <2>3, <2>4, <2>5, <2>6, <3>1 DEF ReadsOf
    <3>2. CASE reads[p] # <<>>
      BY <2>2, <2>4, <2>5, <2>6, <3>2 DEF ReadsOf
    <3> QED
      BY <3>1, <3>2
  <2>8. AnswerOf(p)'
    BY <2>4 DEF AnswerOf
  <2> QED
    BY <2>4, <2>7, <2>8, OthersStay
<1>2. ASSUME NEW p \in Fetchers, Response(p)
      PROVE  FetchInv'
  <2>1. PICK r \in Seq(RemoteStages) :
           /\ r = IF hubUp THEN Append(reads[p], remote) ELSE reads[p]
           /\ reads' = [reads EXCEPT ![p] = r]
    <3>1. reads[p] \in Seq(RemoteStages) /\ remote \in RemoteStages
      BY DEF FetchTypes
    <3>2. PICK e : e = Append(reads[p], remote)
      OBVIOUS
    <3>3. e \in Seq(RemoteStages)
      BY <3>1, <3>2
    <3>4. CASE hubUp
      <4>1. reads' = [reads EXCEPT ![p] = e]
        BY <1>2, <3>2, <3>4 DEF Response
      <4> QED
        BY <3>2, <3>3, <3>4, <4>1
    <3>5. CASE ~hubUp
      <4>1. reads' = [reads EXCEPT ![p] = reads[p]]
        BY <1>2, <3>5 DEF Response
      <4> QED
        BY <3>1, <3>5, <4>1
    <3> QED
      BY <3>4, <3>5
  <2>2. /\ BreakerStep(p) /\ pc[p] = "Requesting" /\ reads' = [reads EXCEPT ![p] = r]
        /\ answer' = [answer EXCEPT ![p] = answer[p]] /\ remote' = remote
        /\ began' = [began EXCEPT ![p] = began[p]]
    BY <1>2, <2>1 DEF Response, BreakerStep, Answered, FetchTypes
  <2>3. began[p] \in RemoteStages /\ answer[p] \in Returned
    BY DEF FetchTypes
  <2>4. /\ FetchTypes' /\ Untouched(p) /\ p \in Requesters
        /\ reads'[p] = r /\ answer'[p] = answer[p] /\ began'[p] = began[p]
    BY <2>2, <2>3, OneFetch
  <2>5. pc'[p] = IF hubUp THEN "Succeeded" ELSE "Failed"
    BY <1>2, <2>4 DEF Response, Answered, Goto, FetchTypes
  <2>6. Len(reads[p]) < 5
    <3>1. PICK n : n = Len(reads[p])
      OBVIOUS
    <3>2. n \in Nat /\ n <= 5
      BY <3>1 DEF ReadsOf
    <3>3. n # 5
      BY <2>2, <3>1 DEF ReadsOf
    <3>4. n < 5
      BY <3>2, <3>3
    <3> QED
      BY <3>1, <3>4
  <2>7. ReadsOf(p)'
    <3>1. CASE hubUp
      BY <2>1, <2>2, <2>4, <2>5, <2>6, <3>1, ReadOneMore
    <3>2. CASE ~hubUp
      BY <2>1, <2>2, <2>4, <2>5, <2>6, <3>2 DEF ReadsOf
    <3> QED
      BY <3>1, <3>2
  <2>8. AnswerOf(p)'
    BY <2>2, <2>4 DEF AnswerOf
  <2> QED
    BY <2>4, <2>7, <2>8, OthersStay
<1>3. ASSUME NEW p \in Fetchers, FetchOn(p)
      PROVE  FetchInv'
  <2>1. /\ Return(p) /\ pc[p] \in {"Succeeded", "Failed"} /\ remote' = remote
        /\ began' = [began EXCEPT ![p] = began[p]]
        /\ \/ pc[p] = "Failed" /\ answer' = [answer EXCEPT ![p] = Error]
           \/ pc[p] = "Succeeded" /\ answer' = [answer EXCEPT ![p] = Outcome(reads[p])]
           \/ pc[p] = "Succeeded" /\ answer' = [answer EXCEPT ![p] = Error]
    BY <1>3 DEF FetchOn, Return, FetchTypes, Broken
  <2>2. PICK a : /\ answer' = [answer EXCEPT ![p] = a]
                 /\ \/ a = Error
                    \/ pc[p] = "Succeeded" /\ a = Outcome(reads[p])
    BY <2>1
  <2>3. answer'[p] = a
    BY <2>2 DEF FetchTypes
  <2>4. PICK r \in Seq(RemoteStages) : r = IF a = Fetching THEN reads[p] ELSE <<>>
    <3>1. reads[p] \in Seq(RemoteStages) /\ <<>> \in Seq(RemoteStages)
      BY DEF FetchTypes
    <3> QED
      BY <3>1
  <2>5. reads' = [reads EXCEPT ![p] = r]
    BY <1>3, <2>3, <2>4 DEF FetchOn
  <2>6. began[p] \in RemoteStages
    BY DEF FetchTypes
  <2>7. /\ \/ a = Fetching \/ a = Error
           \/ a = Nothing /\ began[p] <= Empty
           \/ /\ a \in ResultsSet
              /\ began[p] <= a.profile /\ a.profile <= a.policy
              /\ a.policy <= a.summaries /\ a.summaries <= remote
        /\ Len(reads[p]) = 5 => a # Fetching
    <3>1. CASE a = Error
      BY <3>1, AnswerKinds
    <3>2. CASE pc[p] = "Succeeded" /\ a = Outcome(reads[p])
      <4>1. reads[p] # <<>>
        BY <3>2 DEF ReadsOf
      <4> QED
        BY <3>2, <4>1, OutcomeFits
    <3> QED
      BY <2>2, <3>1, <3>2
  <2>8. /\ FetchTypes' /\ Untouched(p) /\ p \in Requesters
        /\ reads'[p] = r /\ began'[p] = began[p]
    BY <2>1, <2>2, <2>5, <2>6, <2>7, OneFetch DEF Returned
  <2>9. pc'[p] = "Idle"
    BY <2>1, <2>8 DEF Return, Goto, FetchTypes
  <2>10. ReadsOf(p)'
    <3>1. CASE a = Fetching
      BY <2>1, <2>4, <2>8, <2>9, <2>7, <3>1 DEF ReadsOf
    <3>2. CASE a # Fetching
      <4>1. r = <<>> /\ Len(r) = 0 /\ began[p] <= remote
        BY <2>4, <3>2 DEF ReadsOf
      <4> QED
        BY <2>1, <2>8, <2>9, <4>1 DEF ReadsOf
    <3> QED
      BY <3>1, <3>2
  <2>11. AnswerOf(p)'
    BY <2>1, <2>3, <2>8, <2>7 DEF AnswerOf
  <2> QED
    BY <2>8, <2>10, <2>11, OthersStay
<1>4. ASSUME NEW p \in Fetchers, MethodStep(p), UNCHANGED fetchVars
      PROVE  FetchInv'
  <2>1. p \in Requesters /\ FetchTypes' /\ Untouched(p)
        /\ (pc'[p] = "Succeeded" <=> pc[p] = "Succeeded")
    BY <1>4, BreakerMoves, FetchersAssumption
       DEF FetchTypes, Untouched, fetchVars, BreakerStep
  <2>2. ReadsOf(p)' /\ AnswerOf(p)'
    BY <1>4, <2>1 DEF ReadsOf, AnswerOf, fetchVars
  <2> QED
    BY <2>1, <2>2, OthersStay
<1>5. ASSUME NEW p \in Requesters \ Fetchers, OtherStep(p)
      PROVE  FetchInv'
  <2>1. FetchTypes' /\ Untouched(p)
    BY <1>5, BreakerMoves, FetchersAssumption DEF OtherStep, FetchTypes, Untouched, fetchVars
  <2> QED
    BY <2>1, OthersStay
<1>6. CASE (Elapse \/ HubChanges) /\ UNCHANGED fetchVars
  BY <1>6 DEF Elapse, HubChanges, fetchVars, FetchTypes, ReadsOf, AnswerOf
<1>7. CASE RemoteProceeds
  <2>1. /\ remote \in 0 .. 2 /\ remote' = remote + 1
        /\ UNCHANGED <<breakerVars, reads, answer, began>>
    BY <1>7 DEF RemoteProceeds, FetchTypes, RemoteStages, Absent, Done
  <2>2. FetchTypes'
    BY <2>1 DEF FetchTypes, RemoteStages, Absent, Done, breakerVars
  <2>3. ASSUME NEW p \in Fetchers
        PROVE  ReadsOf(p)' /\ AnswerOf(p)'
    <3>1. ReadsOf(p) /\ AnswerOf(p) /\ began[p] \in 0 .. 3 /\ reads[p] \in Seq(0 .. 3)
      BY DEF FetchTypes, RemoteStages, Absent, Done
    <3>2. \A i \in 1 .. Len(reads[p]) : reads[p][i] \in 0 .. 3
      BY <3>1
    <3>3. ReadsOf(p)'
      BY <2>1, <3>1, <3>2 DEF ReadsOf, breakerVars
    <3>4. \A a \in ResultsSet : a.summaries \in 0 .. 3
      BY DEF ResultsSet, RemoteStages, Absent, Done
    <3>5. AnswerOf(p)'
      BY <2>1, <3>1, <3>4 DEF AnswerOf
    <3> QED
      BY <3>3, <3>5
  <2> QED
    BY <2>2, <2>3
<1>8. CASE UNCHANGED clientVars
  BY <1>8 DEF clientVars, breakerVars, fetchVars, FetchTypes, ReadsOf, AnswerOf
<1> QED
  BY <1>1, <1>2, <1>3, <1>4, <1>5, <1>6, <1>7, <1>8 DEF FetchNext, FetcherStep

\* The invariant holds before anything is fetched.
LEMMA FetchAtStart == FetchInit => FetchInv
<1> SUFFICES ASSUME FetchInit
             PROVE  FetchInv
  OBVIOUS
<1>1. FetchTypes
  <2>1. Fetching \in Returned /\ Absent \in RemoteStages /\ <<>> \in Seq(RemoteStages)
    BY DEF Returned, RemoteStages, Absent, Done
  <2> QED
    BY <2>1 DEF FetchInit, NewCircuitBreaker, FetchTypes, PCs
<1>2. ASSUME NEW p \in Fetchers
      PROVE  ReadsOf(p) /\ AnswerOf(p)
  <2>1. /\ reads[p] = <<>> /\ Len(reads[p]) = 0 /\ began[p] = remote /\ remote = 0
        /\ answer[p] = Fetching /\ pc[p] = "Idle"
    BY FetchersAssumption DEF FetchInit, NewCircuitBreaker, Absent
  <2>2. ReadsOf(p)
    BY <1>1, <2>1 DEF ReadsOf, FetchTypes
  <2> QED
    BY <2>1, <2>2 DEF AnswerOf
<1> QED
  BY <1>1, <1>2 DEF FetchInv

\* The invariant holds in every state of a client.
LEMMA FetchInvariance == FetchSpec => []FetchInv
BY FetchAtStart, FetchStepInv, PTL DEF FetchSpec

\* A scan whose summaries were there before the fetch began is never reported
\* missing, whatever the breaker refuses and however the Black Duck gets on
\* between the requests (fetcher.go: fetchScan).
THEOREM NothingMeansAbsentCorrect == FetchSpec => []NothingMeansAbsent
<1>1. FetchInv => NothingMeansAbsent
  BY AnswerKinds DEF FetchInv, AnswerOf, NothingMeansAbsent
<1> QED
  BY <1>1, FetchInvariance, PTL

\* The parts of the results are as new as their requests: the summaries, which
\* decide what becomes of the scan, are the newest.
THEOREM VerdictIsNewestCorrect == FetchSpec => []VerdictIsNewest
<1>1. FetchInv => VerdictIsNewest
  BY AnswerKinds DEF FetchInv, AnswerOf, VerdictIsNewest
<1> QED
  BY <1>1, FetchInvariance, PTL

\* Every variable of a client and of its breaker has its type.
THEOREM FetchTypeCorrect == FetchSpec => []FetchTypeOK
<1>1. FetchInv /\ BreakerTypeOK => FetchTypeOK
  <2> SUFFICES ASSUME FetchInv, BreakerTypeOK
               PROVE  FetchTypeOK
    OBVIOUS
  <2>1. Len(Chain) = 5
    BY DEF Chain
  <2>2. ASSUME NEW p \in Fetchers
        PROVE  /\ Len(reads[p]) <= 5
               /\ \A i \in DOMAIN reads[p] : reads[p][i] \in RemoteStages
               /\ answer[p] \in {Fetching, Nothing, Error} \cup ResultsSet
    BY DEF FetchInv, FetchTypes, ReadsOf, AnswerOf
  <2> QED
    BY <2>1, <2>2 DEF FetchInv, FetchTypes, FetchTypeOK
<1> QED
  BY <1>1, FetchInvariance, FetchBreaker, BreakerTypeCorrect, PTL

\* The fields of the breaker that these requests share stay together, as long
\* as its methods do not overlap.
THEOREM FetchFieldsAgree == Undisturbed /\ FetchSpec => []FieldsAgree
BY FetchBreaker, FieldsStayTogether, PTL

\* So do its pauses: fetches and other requests back off together.
THEOREM FetchesBackOff == Undisturbed /\ FetchSpec => BacksOff
BY FetchBreaker, RequestsBackOff, PTL
=============================================================================
