-------------------------- MODULE EventuallyProofs --------------------------
(***************************************************************************)
(* Proofs of the safety properties of Eventually, for any number of        *)
(* background goroutines: how many attempts a call of Assert makes is      *)
(* bounded by nothing in the code.                                         *)
(***************************************************************************)
EXTENDS Eventually, TLAPS

InFlight(a) == call[a] # "none"

\* The ticker is armed only while no attempt and no report is pending, so
\* there is at most one of either.
SerialInv ==
  /\ armed => ch = <<>> /\ \A a \in Attempts : ~InFlight(a)
  /\ AttemptsDoNotPileUp

\* A success is only ever reported for a call of f that succeeded.
SuccessInv ==
  /\ ch # <<>> /\ ~Head(ch) => succeeded
  /\ \A c \in Calls :
       call[c] = "done" /\ ~failed[c] => succeeded

\* The final call, and what it makes of the surrounding test.
FinalInv ==
  /\ main = "select" => call[Final] = "none" /\ ~failed[Final] /\ ~realFailed
  /\ main = "final" => fired /\ (realFailed <=> failed[Final])
  /\ call[Final] = "running" => main = "final"
  /\ main = "returned" => /\ verdict \in {"true", "false"}
                          /\ realFailed <=> verdict = "false"
  /\ main = "exited" => realFailed /\ fired
  /\ verdict = "false" => fired
  /\ FinalCallDecides
  /\ main \in {"select", "final"} => verdict = "none"

\* The inductive invariant.
IInv == TypeOK /\ SerialInv /\ SuccessInv /\ FinalInv

-----------------------------------------------------------------------------

\* What a channel of capacity 1 holds after a send to it, and after a receive.
LEMMA SendToEmpty ==
  ASSUME NEW S, NEW x \in S
  PROVE  /\ Append(<<>>, x) \in Seq(S) /\ Append(<<>>, x) # <<>>
         /\ Len(Append(<<>>, x)) = 1 /\ Head(Append(<<>>, x)) = x
  OBVIOUS

LEMMA ReceiveLast ==
  ASSUME NEW S, NEW s \in Seq(S), s # <<>>, Len(s) <= 1
  PROVE  Tail(s) = <<>>
  OBVIOUS


\* Initially nothing is in flight.
LEMMA InitIInv == Init => IInv
<1> SUFFICES ASSUME Init
             PROVE  IInv
  OBVIOUS
<1> USE FinalAssumption DEF Init, Calls
<1>1. ch \in Seq(BOOLEAN) /\ Len(ch) = 0
  OBVIOUS
<1>2. TypeOK
  <2>1. Len(ch) <= Capacity
    BY <1>1 DEF Capacity
  <2> QED
    BY <1>1, <2>1 DEF TypeOK
<1>3. SerialInv
  BY DEF SerialInv, AttemptsDoNotPileUp, InFlight
<1>4. SuccessInv /\ FinalInv
  BY DEF SuccessInv, FinalInv, FinalCallDecides
<1> QED
  BY <1>2, <1>3, <1>4 DEF IInv

\* Every step of the caller, of a call of f and of time preserves it.
LEMMA NextIInv == IInv /\ [Next]_vars => IInv'
<1> SUFFICES ASSUME IInv, [Next]_vars
             PROVE  IInv'
  OBVIOUS
<1> USE FinalAssumption DEF IInv, Calls
<1>1. CASE Tick
  <2>1. TypeOK'
    BY <1>1 DEF Tick, TypeOK
  <2>2. SerialInv'
    BY <1>1 DEF Tick, TypeOK, SerialInv, AttemptsDoNotPileUp, InFlight
  <2>3. SuccessInv'
    BY <1>1 DEF Tick, TypeOK, SuccessInv
  <2>4. FinalInv'
    BY <1>1 DEF Tick, TypeOK, FinalInv, FinalCallDecides
  <2> QED
    BY <2>1, <2>2, <2>3, <2>4
<1>2. CASE FireTimer
  <2>1. TypeOK'
    BY <1>2 DEF FireTimer, TypeOK
  <2>2. SerialInv'
    BY <1>2 DEF FireTimer, TypeOK, SerialInv, AttemptsDoNotPileUp, InFlight
  <2>3. SuccessInv'
    BY <1>2 DEF FireTimer, TypeOK, SuccessInv
  <2>4. FinalInv'
    BY <1>2 DEF FireTimer, TypeOK, FinalInv, FinalCallDecides
  <2> QED
    BY <2>1, <2>2, <2>3, <2>4
<1>3. ASSUME NEW c \in Calls, Errorf(c)
      PROVE  IInv'
  <2>1. TypeOK'
    BY <1>3 DEF Errorf, RecordFailure, TypeOK
  <2>2. SerialInv'
    BY <1>3 DEF Errorf, RecordFailure, TypeOK, SerialInv, AttemptsDoNotPileUp, InFlight
  <2>3. SuccessInv'
    BY <1>3 DEF Errorf, RecordFailure, TypeOK, SuccessInv
  <2>4. FinalInv'
    BY <1>3 DEF Errorf, RecordFailure, TypeOK, FinalInv, FinalCallDecides
  <2> QED
    BY <2>1, <2>2, <2>3, <2>4
<1>4. ASSUME NEW c \in Calls, Return(c)
      PROVE  IInv'
  <2>1. TypeOK'
    BY <1>4 DEF Return, TypeOK
  <2>2. SerialInv'
    BY <1>4 DEF Return, TypeOK, SerialInv, AttemptsDoNotPileUp, InFlight
  <2>3. SuccessInv'
    BY <1>4 DEF Return, TypeOK, SuccessInv
  <2>4. FinalInv'
    BY <1>4 DEF Return, TypeOK, FinalInv, FinalCallDecides
  <2> QED
    BY <2>1, <2>2, <2>3, <2>4
<1>5. ASSUME NEW c \in Calls, FailNow(c)
      PROVE  IInv'
  <2>1. TypeOK'
    BY <1>5 DEF FailNow, RecordFailure, TypeOK
  <2>2. SerialInv'
    BY <1>5 DEF FailNow, RecordFailure, TypeOK, SerialInv, AttemptsDoNotPileUp, InFlight
  <2>3. SuccessInv'
    BY <1>5 DEF FailNow, RecordFailure, TypeOK, SuccessInv
  <2>4. FinalInv'
    BY <1>5 DEF FailNow, RecordFailure, TypeOK, FinalInv, FinalCallDecides
  <2> QED
    BY <2>1, <2>2, <2>3, <2>4
<1>6. ASSUME NEW a \in Attempts, Report(a)
      PROVE  IInv'
  <2>1. ch = <<>> /\ failed[a] \in BOOLEAN /\ ch' = Append(ch, failed[a])
    BY <1>6 DEF Report, TypeOK, SerialInv, AttemptsDoNotPileUp
  <2>2. ch' \in Seq(BOOLEAN) /\ Len(ch') = 1 /\ Head(ch') = failed[a]
    BY <2>1, SendToEmpty
  <2>3. TypeOK'
    BY <1>6, <2>2 DEF Report, Capacity, TypeOK
  <2>4. SerialInv'
    BY <1>6, <2>2 DEF Report, TypeOK, SerialInv, AttemptsDoNotPileUp,
       InFlight
  <2>5. SuccessInv'
    BY <1>6, <2>2 DEF Report, TypeOK, SuccessInv
  <2>6. FinalInv'
    BY <1>6 DEF Report, TypeOK, FinalInv, FinalCallDecides
  <2> QED
    BY <2>3, <2>4, <2>5, <2>6
<1>7. CASE StartAttempt
  <2>1. TypeOK'
    BY <1>7 DEF StartAttempt, TypeOK
  <2>2. SerialInv'
    BY <1>7 DEF StartAttempt, TypeOK, SerialInv, AttemptsDoNotPileUp, InFlight
  <2>3. SuccessInv'
    BY <1>7 DEF StartAttempt, TypeOK, SuccessInv
  <2>4. FinalInv'
    BY <1>7 DEF StartAttempt, TypeOK, FinalInv, FinalCallDecides
  <2> QED
    BY <2>1, <2>2, <2>3, <2>4
<1>8. CASE Receive
  <2>1. ch' = <<>>
    BY <1>8, ReceiveLast DEF Receive, TypeOK, SerialInv, Capacity
  <2>2. ch' \in Seq(BOOLEAN) /\ Len(ch') = 0
    BY <2>1
  <2>3. TypeOK'
    <3>1. Len(ch') <= Capacity
      BY <2>2 DEF Capacity
    <3> QED
      BY <1>8, <2>2, <3>1 DEF Receive, TypeOK
  <2>4. SerialInv'
    <3>1. \A a \in Attempts : call'[a] = "none"
      BY <1>8 DEF Receive, SerialInv, AttemptsDoNotPileUp
    <3> QED
      BY <2>1, <3>1 DEF SerialInv, AttemptsDoNotPileUp, InFlight
  <2>5. SuccessInv'
    BY <1>8, <2>1 DEF Receive, TypeOK, SuccessInv
  <2>6. FinalInv'
    BY <1>8 DEF Receive, TypeOK, FinalInv, FinalCallDecides
  <2> QED
    BY <2>3, <2>4, <2>5, <2>6
<1>9. CASE Timeout
  <2>1. TypeOK'
    BY <1>9 DEF Timeout, TypeOK
  <2>2. SerialInv'
    BY <1>9 DEF Timeout, TypeOK, SerialInv, AttemptsDoNotPileUp, InFlight
  <2>3. SuccessInv'
    BY <1>9 DEF Timeout, TypeOK, SuccessInv
  <2>4. FinalInv'
    BY <1>9 DEF Timeout, TypeOK, FinalInv, FinalCallDecides
  <2> QED
    BY <2>1, <2>2, <2>3, <2>4
<1>10. CASE FinalVerdict
  <2>1. TypeOK'
    BY <1>10 DEF FinalVerdict, TypeOK
  <2>2. SerialInv'
    BY <1>10 DEF FinalVerdict, TypeOK, SerialInv, AttemptsDoNotPileUp, InFlight
  <2>3. SuccessInv'
    BY <1>10 DEF FinalVerdict, TypeOK, SuccessInv
  <2>4. FinalInv'
    BY <1>10 DEF FinalVerdict, TypeOK, FinalInv, FinalCallDecides
  <2> QED
    BY <2>1, <2>2, <2>3, <2>4
<1>11. CASE Require
  <2>1. TypeOK'
    BY <1>11 DEF Require, TypeOK
  <2>2. SerialInv'
    BY <1>11 DEF Require, TypeOK, SerialInv, AttemptsDoNotPileUp, InFlight
  <2>3. SuccessInv'
    BY <1>11 DEF Require, TypeOK, SuccessInv
  <2>4. FinalInv'
    BY <1>11 DEF Require, TypeOK, FinalInv, FinalCallDecides
  <2> QED
    BY <2>1, <2>2, <2>3, <2>4
<1>12. CASE UNCHANGED vars
  BY <1>12 DEF vars, TypeOK, SerialInv, AttemptsDoNotPileUp, InFlight, SuccessInv,
     FinalInv, FinalCallDecides
<1> QED
  BY <1>1, <1>2, <1>3, <1>4, <1>5, <1>6, <1>7, <1>8, <1>9, <1>10, <1>11, <1>12
     DEF Next, CallStep, Select

\* The inductive invariant holds in every behaviour of Assert.
THEOREM Invariance == Spec => []IInv
  BY InitIInv, NextIInv, PTL DEF Spec

\* Every variable keeps its type, and the channel its one element.
THEOREM TypeCorrectness == Spec => []TypeOK
  BY Invariance, PTL DEF IInv

\* Attempts run one at a time, and none is ever blocked on its report: the
\* ticker is disarmed until the report of the last attempt was received.
THEOREM AttemptsAreSerial == Spec => []AttemptsDoNotPileUp
  BY Invariance, PTL DEF IInv, SerialInv

\* An attempt that still runs beside the final call changes neither what the
\* surrounding test comes to nor what Assert returns.
THEOREM TheFinalCallDecides == Spec => []FinalCallDecides
  BY Invariance, PTL DEF IInv, FinalInv

-----------------------------------------------------------------------------

\* A step of Assert is a step of its promise, or changes nothing of it.
LEMMA PromiseStep == IInv /\ [Next]_vars => [Promise!Next]_(Promise!vars)
<1> SUFFICES ASSUME IInv, [Next]_vars
             PROVE  [Promise!Next]_(Promise!vars)
  OBVIOUS
<1> USE FinalAssumption
    DEF IInv, Calls, TypeOK, FinalInv, FinalCallDecides, Outcome, Promise!Next, Promise!vars,
        Promise!Expire, Promise!Succeed, Promise!Blame, Promise!Pass, Promise!Fail
<1>1. CASE Tick
  BY <1>1 DEF Tick
<1>2. CASE FireTimer
  BY <1>2 DEF FireTimer
<1>3. ASSUME NEW c \in Calls, Errorf(c)
      PROVE  [Promise!Next]_(Promise!vars)
  BY <1>3 DEF Errorf, RecordFailure
<1>4. ASSUME NEW c \in Calls, Return(c)
      PROVE  [Promise!Next]_(Promise!vars)
  BY <1>4 DEF Return
<1>5. ASSUME NEW c \in Calls, FailNow(c)
      PROVE  [Promise!Next]_(Promise!vars)
  BY <1>5 DEF FailNow, RecordFailure
<1>6. ASSUME NEW a \in Attempts, Report(a)
      PROVE  [Promise!Next]_(Promise!vars)
  BY <1>6 DEF Report
<1>7. CASE StartAttempt
  BY <1>7 DEF StartAttempt
<1>8. CASE Receive
  BY <1>8 DEF Receive, SerialInv, SuccessInv
<1>9. CASE Timeout
  BY <1>9 DEF Timeout
<1>10. CASE FinalVerdict
  BY <1>10 DEF FinalVerdict, SuccessInv
<1>11. CASE Require
  BY <1>11 DEF Require
<1>12. CASE UNCHANGED vars
  BY <1>12 DEF vars
<1> QED
  BY <1>1, <1>2, <1>3, <1>4, <1>5, <1>6, <1>7, <1>8, <1>9, <1>10, <1>11, <1>12
     DEF Next, CallStep, Select

\* Assert passes only because a call of f succeeded, and fails the surrounding
\* test only after the timeout: the calls of the background never do.
THEOREM ImplementsRetry == Spec => RetrySpec
<1>1. Init => Promise!Init
  BY DEF Init, Promise!Init, Outcome
<1> QED
  BY <1>1, Invariance, PromiseStep, PTL DEF Spec, RetrySpec, Promise!Spec

=============================================================================
