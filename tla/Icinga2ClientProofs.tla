-------------------------- MODULE Icinga2ClientProofs --------------------------
(***************************************************************************)
(* Safety of Icinga2Client, for any number of callers and attempts, and    *)
(* its refinement of Request.                                              *)
(***************************************************************************)
EXTENDS Icinga2Client, TLAPS

-----------------------------------------------------------------------------
(* The inductive invariant: one conjunct for each kind of state a caller   *)
(* keeps, as callers share nothing.                                        *)

InDo == {"idle", "send", "flight", "rewind", "wait"}

\* Do returns a result once, and a helper looks at it only then.
ResultInv(c) ==
  /\ at[c] \in InDo <=> result[c] = "none"
  /\ at[c] \in {"check", "stopped"} => op[c] # "do"

\* What is sent is whole, as is what was sent.
BodyInv(c) ==
  /\ at[c] \in {"idle", "send", "wait"} => body[c] = "whole"
  /\ got[c] \subseteq {"whole"}

\* Where Do is says how many response bodies are open.
OpenInv(c) ==
  /\ at[c] \in {"idle", "send", "flight", "wait", "stopped"} => open[c] = 0
  /\ at[c] = "rewind" => open[c] = 1
  /\ at[c] \in {"check", "returned"} =>
       open[c] <= (IF result[c] # "error" THEN 1 ELSE 0)
  /\ at[c] = "returned" /\ op[c] # "do" => open[c] = 0

\* Another attempt begins only while some are left, with a body that can be
\* sent again.
AttemptInv(c) ==
  /\ at[c] \in {"rewind", "wait"} => attempt[c] < MaxAttempts
  /\ at[c] # "idle" /\ ~rewindable[c] => kind[c] \in {"buffer", "stream"}

\* The answer that Do has seen is the last one of the node, and the node was
\* asked again only after a 503; so it carried out what it answered with 200.
WireInv(c) ==
  /\ at[c] = "idle" => wire[c] = "nothing"
  /\ at[c] = "send" => wire[c] \in {"nothing", "503"}
  /\ at[c] \in {"rewind", "wait"} => wire[c] = "503"
  /\ at[c] = "flight" => wire[c] # "nothing"
  /\ result[c] \in Statuses => wire[c] = result[c]
  /\ carriedOut[c] = IF wire[c] = "200" THEN 1 ELSE 0

\* What a helper made of the result.
VerdictInv(c) ==
  at[c] \in {"returned", "stopped"} /\ op[c] # "do" => failed[c] = (result[c] # "200")

CallerInv(c) ==
  /\ ResultInv(c) /\ BodyInv(c) /\ OpenInv(c) /\ AttemptInv(c)
  /\ WireInv(c) /\ VerdictInv(c)
  /\ result[c] = "503" => \/ attempt[c] = MaxAttempts
                          \/ kind[c] = "stream"
                          \/ kind[c] = "buffer" /\ ~rewindable[c]

IInv == TypeOK /\ \A c \in Callers : CallerInv(c)

-----------------------------------------------------------------------------
(* Each step preserves it.                                                 *)

\* Nothing changes for d.
Same(d) ==
  /\ at'[d] = at[d] /\ op'[d] = op[d] /\ kind'[d] = kind[d]
  /\ rewindable'[d] = rewindable[d] /\ body'[d] = body[d] /\ attempt'[d] = attempt[d]
  /\ wire'[d] = wire[d] /\ got'[d] = got[d] /\ carriedOut'[d] = carriedOut[d]
  /\ open'[d] = open[d] /\ result'[d] = result[d] /\ failed'[d] = failed[d]

LEMMA SameKeeps ==
  ASSUME NEW d \in Callers, CallerInv(d), Same(d)
  PROVE  CallerInv(d)'
BY DEF CallerInv, ResultInv, BodyInv, OpenInv, AttemptInv, WireInv, VerdictInv, Same

\* It is enough to look at the caller that moves.
LEMMA OneCaller ==
  ASSUME IInv, TypeOK', NEW c \in Callers, CallerInv(c)',
         \A d \in Callers : d # c => Same(d)
  PROVE  IInv'
<1>1. ASSUME NEW d \in Callers PROVE CallerInv(d)'
  <2>1. CASE d = c
    BY <2>1
  <2>2. CASE d # c
    BY <2>2, SameKeeps DEF IInv
  <2> QED
    BY <2>1, <2>2
<1> QED
  BY <1>1 DEF IInv

LEMMA BeginKeeps ==
  ASSUME IInv, NEW c \in Callers, NEW o \in Operations, NEW k \in BodyKinds,
         Begin(c, o, k)
  PROVE  IInv'
<1>1. TypeOK'
  BY MaxAttemptsAssumption DEF Begin, Goto, TypeOK, IInv
<1>2. CallerInv(c)'
  <2>1. /\ at[c] = "idle" /\ at'[c] = "send" /\ kind'[c] = k
        /\ UNCHANGED <<body, wire, got, carriedOut, open, result>>
    BY DEF Begin, Goto, IInv, TypeOK
  <2>2. rewindable'[c] = (k # "stream")
    BY Zenon DEF Begin, IInv, TypeOK
  <2> QED
    BY <2>1, <2>2 DEF IInv, CallerInv, ResultInv, BodyInv, OpenInv, AttemptInv,
                      WireInv, VerdictInv, InDo, BodyKinds, Statuses
<1>3. \A d \in Callers : d # c => Same(d)
  BY DEF Begin, Goto, TypeOK, IInv, Same
<1> QED
  BY <1>1, <1>2, <1>3, OneCaller

LEMMA SendKeeps ==
  ASSUME IInv, NEW c \in Callers, Send(c)
  PROVE  IInv'
<1> USE DEF Send, Give, Goto, TypeOK, reqVars
<1>1. TypeOK'
  BY DEF IInv, CallerInv, BodyInv, Statuses
<1>2. CallerInv(c)'
  BY DEF IInv, CallerInv, ResultInv, BodyInv, OpenInv, AttemptInv, WireInv,
         VerdictInv, InDo, Operations, BodyKinds, Statuses
<1>3. \A d \in Callers : d # c => Same(d)
  BY DEF IInv, Same
<1> QED
  BY <1>1, <1>2, <1>3, OneCaller

LEMMA NodeAnswersKeeps ==
  ASSUME IInv, NEW c \in Callers, NEW status \in Statuses, NodeAnswers(c, status)
  PROVE  IInv'
<1> USE DEF NodeAnswers, TypeOK, reqVars
<1>1. TypeOK'
  BY DEF IInv
<1>2. CallerInv(c)'
  BY DEF IInv, CallerInv, ResultInv, BodyInv, OpenInv, AttemptInv, WireInv,
         VerdictInv, InDo, Operations, BodyKinds, Statuses
<1>3. \A d \in Callers : d # c => Same(d)
  BY DEF IInv, Same
<1> QED
  BY <1>1, <1>2, <1>3, OneCaller

LEMMA BreakKeeps ==
  ASSUME IInv, NEW c \in Callers, Break(c)
  PROVE  IInv'
<1> USE DEF Break, Give, Goto, TypeOK, reqVars
<1>1. TypeOK'
  BY DEF IInv
<1>2. CallerInv(c)'
  BY DEF IInv, CallerInv, ResultInv, BodyInv, OpenInv, AttemptInv, WireInv,
         VerdictInv, InDo, Operations, BodyKinds, Statuses
<1>3. \A d \in Callers : d # c => Same(d)
  BY DEF IInv, Same
<1> QED
  BY <1>1, <1>2, <1>3, OneCaller

LEMMA ReceiveKeeps ==
  ASSUME IInv, NEW c \in Callers, Receive(c)
  PROVE  IInv'
<1>0. ~MayRepeat(c) /\ wire[c] = "503" => attempt[c] = MaxAttempts \/ ~rewindable[c]
  <2>1. attempt[c] \in 0 .. MaxAttempts
    BY DEF IInv, TypeOK
  <2> QED
    BY <2>1, MaxAttemptsAssumption DEF MayRepeat
<1> USE DEF Receive, Give, Goto, TypeOK, reqVars
<1>1. TypeOK'
  BY DEF IInv
<1>2. CallerInv(c)'
  <2> USE DEF IInv, CallerInv, ResultInv, BodyInv, OpenInv, AttemptInv, WireInv,
              VerdictInv, InDo, Operations, BodyKinds, Statuses
  <2>1. open[c] = 0 /\ open'[c] = 1
    OBVIOUS
  <2>2. CASE MayRepeat(c)
    BY <2>1, <2>2, MaxAttemptsAssumption DEF MayRepeat
  <2>3. CASE ~MayRepeat(c)
    <3>1. /\ result'[c] = wire[c]
          /\ at'[c] = IF op[c] = "do" THEN "returned" ELSE "check"
      BY <2>3
    <3> QED
      BY <1>0, <2>1, <2>3, <3>1
  <2> QED
    BY <2>2, <2>3
<1>3. \A d \in Callers : d # c => Same(d)
  BY DEF IInv, Same
<1> QED
  BY <1>1, <1>2, <1>3, OneCaller

LEMMA RewindKeeps ==
  ASSUME IInv, NEW c \in Callers, Rewind(c)
  PROVE  IInv'
<1> USE DEF Rewind, Give, Goto, TypeOK, reqVars
<1>1. open[c] = 1 /\ result[c] = "none" /\ wire[c] = "503"
  BY DEF IInv, CallerInv, OpenInv, ResultInv, WireInv, InDo
<1>2. CASE op[c] = "do" /\ kind[c] = "buffer" /\ result' # result
  <2>1. /\ rewindable' = [rewindable EXCEPT ![c] = FALSE]
        /\ result' = [result EXCEPT ![c] = "503"]
        /\ at' = [at EXCEPT ![c] = "returned"]
        /\ UNCHANGED <<open, body>>
    BY <1>2
  <2>2. TypeOK'
    BY <2>1 DEF IInv, Statuses
  <2>3. /\ at'[c] = "returned" /\ result'[c] = "503"
        /\ op[c] = "do" /\ kind[c] = "buffer"
        /\ UNCHANGED <<op, kind, attempt, wire, got, carriedOut, failed>>
    BY <1>2, <2>1 DEF IInv
  <2>4. ~rewindable'[c]
    BY <2>1, Zenon DEF IInv
  <2>5. CallerInv(c)'
    BY <1>1, <2>1, <2>3, <2>4
       DEF IInv, CallerInv, ResultInv, BodyInv, OpenInv, AttemptInv, WireInv,
           VerdictInv, InDo, Statuses
  <2>6. \A d \in Callers : d # c => Same(d)
    BY <2>1 DEF IInv, Same
  <2> QED
    BY <2>2, <2>5, <2>6, OneCaller
<1>3. CASE result' = result
  <2>1. /\ open' = [open EXCEPT ![c] = 0]
        /\ body' = [body EXCEPT ![c] = "whole"]
        /\ at' = [at EXCEPT ![c] = "wait"]
        /\ UNCHANGED <<rewindable, result>>
    BY <1>1, <1>3 DEF IInv
  <2>2. TypeOK'
    BY <2>1 DEF IInv
  <2>3. CallerInv(c)'
    BY <1>1, <2>1
       DEF IInv, CallerInv, ResultInv, BodyInv, OpenInv, AttemptInv, WireInv,
           VerdictInv, InDo, Statuses
  <2>4. \A d \in Callers : d # c => Same(d)
    BY <2>1 DEF IInv, Same
  <2> QED
    BY <2>2, <2>3, <2>4, OneCaller
<1> QED
  BY <1>2, <1>3

LEMMA AwaitKeeps ==
  ASSUME IInv, NEW c \in Callers, Await(c)
  PROVE  IInv'
<1> USE DEF Await, Give, Goto, TypeOK, reqVars
<1>1. TypeOK'
  BY MaxAttemptsAssumption DEF IInv, CallerInv, AttemptInv
<1>2. CallerInv(c)'
  <2> USE DEF IInv, CallerInv, ResultInv, BodyInv, OpenInv, AttemptInv, WireInv,
              VerdictInv, InDo, Statuses
  <2>1. CASE UNCHANGED result
    <3>1. result[c] = "none" /\ at'[c] = "send" /\ UNCHANGED <<wire, body, open>>
      BY <2>1
    <3> QED
      BY <2>1, <3>1
  <2>2. CASE result' # result
    <3>1. /\ result'[c] = "error" /\ UNCHANGED <<wire, body, open, attempt>>
          /\ at'[c] = IF op[c] = "do" THEN "returned" ELSE "check"
      BY <2>2
    <3> QED
      BY <3>1
  <2> QED
    BY <2>1, <2>2
<1>3. \A d \in Callers : d # c => Same(d)
  BY DEF IInv, Same
<1> QED
  BY <1>1, <1>2, <1>3, OneCaller

LEMMA CancelKeeps ==
  ASSUME IInv, NEW c \in Callers, Cancel(c)
  PROVE  IInv'
<1>1. TypeOK'
  BY DEF Cancel, TypeOK, reqVars, IInv
<1>2. \A d \in Callers : Same(d)
  BY DEF Cancel, reqVars, Same
<1> QED
  BY <1>1, <1>2, SameKeeps DEF IInv

LEMMA CheckKeeps ==
  ASSUME IInv, NEW c \in Callers, Check(c)
  PROVE  IInv'
<1> USE DEF Check, Goto, TypeOK, reqVars
<1>1. TypeOK'
  BY DEF IInv
<1>2. CallerInv(c)'
  BY DEF IInv, CallerInv, ResultInv, BodyInv, OpenInv, AttemptInv, WireInv,
         VerdictInv, InDo, Operations, BodyKinds, Statuses
<1>3. \A d \in Callers : d # c => Same(d)
  BY DEF IInv, Same
<1> QED
  BY <1>1, <1>2, <1>3, OneCaller

LEMMA InitIInv == Init => IInv
BY MaxAttemptsAssumption
   DEF Init, IInv, TypeOK, CallerInv, ResultInv, BodyInv, OpenInv, AttemptInv,
       WireInv, VerdictInv, InDo, Operations, BodyKinds, Statuses

LEMMA NextIInv == IInv /\ [Next]_vars => IInv'
<1> SUFFICES ASSUME IInv, [Next]_vars
             PROVE  IInv'
  OBVIOUS
<1>1. ASSUME UNCHANGED vars
      PROVE  IInv'
  <2>1. TypeOK'
    BY <1>1 DEF vars, reqVars, IInv, TypeOK
  <2>2. \A d \in Callers : Same(d)
    BY <1>1 DEF vars, reqVars, Same
  <2> QED
    BY <2>1, <2>2, SameKeeps DEF IInv
<1> QED
  BY <1>1, BeginKeeps, SendKeeps, NodeAnswersKeeps, BreakKeeps, ReceiveKeeps,
     RewindKeeps, AwaitKeeps, CancelKeeps, CheckKeeps
     DEF Next, Step, Ended

-----------------------------------------------------------------------------

\* In every reachable state.
THEOREM Invariance == Spec => []IInv
  BY InitIInv, NextIInv, PTL DEF Spec

\* Every variable keeps its type, and no caller makes more than MaxAttempts
\* attempts.
THEOREM TypeCorrectness == Spec => []TypeOK
  BY Invariance, PTL DEF IInv

\* Every attempt sends the whole body, however often it is repeated.
THEOREM BodiesAreWhole == Spec => []WholeBody
<1>1. IInv => WholeBody
  BY DEF IInv, CallerInv, BodyInv, WholeBody
<1> QED
  BY <1>1, Invariance, PTL

\* No body of a response is left open on any way out of a helper.
THEOREM NoBodyIsForgotten == Spec => []BodiesClosed
<1>1. ASSUME IInv PROVE BodiesClosed
  <2> SUFFICES ASSUME NEW c \in Callers
               PROVE  open[c] <= (IF /\ \/ at[c] \in {"rewind", "check"}
                                        \/ at[c] = "returned" /\ op[c] = "do"
                                     /\ result[c] # "error"
                                  THEN 1 ELSE 0)
    BY DEF BodiesClosed
  <2>1. OpenInv(c) /\ ResultInv(c) /\ TypeOK
    BY <1>1 DEF IInv, CallerInv
  <2>2. CASE at[c] = "rewind"
    BY <2>1, <2>2 DEF OpenInv, ResultInv, InDo
  <2>3. CASE at[c] \in {"check", "returned"}
    BY <2>1, <2>3 DEF OpenInv, TypeOK
  <2>4. CASE at[c] \in {"idle", "send", "flight", "wait", "stopped"}
    BY <2>1, <2>4 DEF OpenInv
  <2> QED
    BY <2>1, <2>2, <2>3, <2>4 DEF TypeOK
<1> QED
  BY <1>1, Invariance, PTL

\* A 503 is passed on only after all attempts, or when the body is gone.
THEOREM EveryAttemptIsUsed == Spec => []GivesUpLate
<1>1. IInv => GivesUpLate
  BY DEF IInv, CallerInv, GivesUpLate
<1> QED
  BY <1>1, Invariance, PTL

\* What callers of Do and users of the helpers are told is what the node did.
THEOREM ReportsAreHonest == Spec => []ReportsHonestly
<1>1. IInv => ReportsHonestly
  BY DEF IInv, TypeOK, CallerInv, WireInv, ResultInv, VerdictInv, Statuses,
         InDo, ReportsHonestly, Success
<1> QED
  BY <1>1, Invariance, PTL

-----------------------------------------------------------------------------

\* A result that Do returns is an answer to the request.
LEMMA GiveAnswers ==
  ASSUME IInv, NEW c \in Callers, NEW x, Give(c, x), result[c] = "none",
         x = "error" \/ (x = wire[c] /\ x \in Statuses), UNCHANGED carriedOut
  PROVE  Promise!Next
<1> DEFINE what == IF x = "error" THEN "error"
                   ELSE IF x = "200" THEN "success" ELSE "refused"
<1>1. result' = [result EXCEPT ![c] = x]
  BY DEF Give
<1>2. /\ what \in {"success", "refused", "error"}
      /\ what = "success" => carriedOut[c] = 1
      /\ what = "refused" => carriedOut[c] = 0
  BY DEF IInv, CallerInv, WireInv, Statuses
<1>3. Outcome(c) = "pending" /\ Outcome(c)' = what
  BY <1>1 DEF IInv, TypeOK, Outcome, Statuses
<1>4. \A d \in Callers : d # c => Outcome(d)' = Outcome(d)
  BY <1>1 DEF IInv, TypeOK, Outcome
<1>5. [d \in Callers |-> Outcome(d)]' = [[d \in Callers |-> Outcome(d)] EXCEPT ![c] = what]
  BY <1>3, <1>4
<1>6. Promise!Answer(c, what)
  BY <1>2, <1>3, <1>5 DEF Promise!Answer
<1> QED
  BY <1>2, <1>6 DEF Promise!Next

\* A step of the client is a step of its promise, or changes nothing of it.
LEMMA PromiseStep == IInv /\ [Next]_vars => [Promise!Next]_(Promise!vars)
<1> SUFFICES ASSUME IInv, [Next]_vars
             PROVE  [Promise!Next]_(Promise!vars)
  OBVIOUS
<1> USE DEF Promise!vars
<1>1. ASSUME UNCHANGED <<carriedOut, result>>
      PROVE  UNCHANGED Promise!vars
  BY <1>1 DEF Outcome
<1>2. ASSUME NEW c \in Callers, NEW status \in Statuses, NodeAnswers(c, status)
      PROVE  [Promise!Next]_(Promise!vars)
  <2>1. CASE status = "200"
    <3>1. carriedOut[c] = 0 /\ result[c] \in {"none", "error"}
      BY <1>2 DEF NodeAnswers, IInv, TypeOK, CallerInv, WireInv, Statuses
    <3>2. Promise!CarryOut(c)
      BY <1>2, <2>1, <3>1 DEF NodeAnswers, IInv, TypeOK, Outcome, Promise!CarryOut
    <3> QED
      BY <3>2 DEF Promise!Next
  <2>2. CASE status # "200"
    <3>1. carriedOut' = carriedOut
      BY <1>2, <2>2 DEF NodeAnswers, IInv, TypeOK
    <3> QED
      BY <1>1, <1>2, <3>1 DEF NodeAnswers
  <2> QED
    BY <2>1, <2>2
<1>3. ASSUME NEW c \in Callers, Send(c)
      PROVE  [Promise!Next]_(Promise!vars)
  <2>1. result[c] = "none"
    BY <1>3 DEF Send, IInv, CallerInv, ResultInv, InDo
  <2> QED
    BY <1>1, <1>3, <2>1, GiveAnswers DEF Send, Give, Statuses
<1>4. ASSUME NEW c \in Callers, Break(c)
      PROVE  [Promise!Next]_(Promise!vars)
  <2>1. result[c] = "none"
    BY <1>4 DEF Break, IInv, CallerInv, ResultInv, InDo
  <2> QED
    BY <1>4, <2>1, GiveAnswers DEF Break
<1>5. ASSUME NEW c \in Callers, Receive(c)
      PROVE  [Promise!Next]_(Promise!vars)
  <2>1. result[c] = "none"
    BY <1>5 DEF Receive, IInv, CallerInv, ResultInv, InDo
  <2> QED
    BY <1>1, <1>5, <2>1, GiveAnswers DEF Receive
<1>6. ASSUME NEW c \in Callers, Rewind(c)
      PROVE  [Promise!Next]_(Promise!vars)
  <2>1. result[c] = "none" /\ wire[c] = "503"
    BY <1>6 DEF Rewind, IInv, CallerInv, ResultInv, WireInv, InDo
  <2> QED
    BY <1>1, <1>6, <2>1, GiveAnswers DEF Rewind, Statuses
<1>7. ASSUME NEW c \in Callers, Await(c)
      PROVE  [Promise!Next]_(Promise!vars)
  <2>1. result[c] = "none"
    BY <1>7 DEF Await, IInv, CallerInv, ResultInv, InDo
  <2> QED
    BY <1>1, <1>7, <2>1, GiveAnswers DEF Await
<1>8. ASSUME NEW c \in Callers,
             \/ \E o \in Operations, k \in BodyKinds : Begin(c, o, k)
             \/ Cancel(c) \/ Check(c)
      PROVE  [Promise!Next]_(Promise!vars)
  BY <1>1, <1>8 DEF Begin, Cancel, Check
<1>9. CASE UNCHANGED vars
  BY <1>1, <1>9 DEF vars
<1> QED
  BY <1>2, <1>3, <1>4, <1>5, <1>6, <1>7, <1>8, <1>9 DEF Next, Step, Ended

\* The client implements Request: however often an exchange is repeated or
\* breaks, the node carries the request out at most once, and no answer that
\* the caller gets is wrong.
THEOREM ImplementsRequest == Spec => RequestSpec
<1>1. Init => Promise!Init
  BY DEF Init, Promise!Init, Outcome
<1> QED
  BY <1>1, Invariance, PromiseStep, PTL DEF Spec, RequestSpec, Promise!Spec

=============================================================================
