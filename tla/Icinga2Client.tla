---------------------------- MODULE Icinga2Client ----------------------------
(***************************************************************************)
(* utils.Icinga2Client: requests to the API of an Icinga 2 node, which are *)
(* repeated while the node answers HTTP 503, and the helpers on top of Do  *)
(* that create, change and delete objects and report to the test.          *)
(*                                                                         *)
(* Every caller is a goroutine with one request of its own.  The node      *)
(* carries a request out and answers 200, or it answers 503 (it is loading *)
(* its configuration) or another status and does not.  An exchange fails   *)
(* when the connection breaks or the caller's context is cancelled; what   *)
(* the node makes of the request is then unknown.                          *)
(***************************************************************************)
EXTENDS Naturals

CONSTANTS
  Callers,
  MaxAttempts  \* 300 in the code

ASSUME MaxAttemptsAssumption == MaxAttempts \in Nat \ {0}

\* Do itself, helpers that go on after a wrong status (assert), and helpers
\* that stop the test (require).
Operations == {"do", "assert", "require"}

\* No body, one that NewRequest knows how to rewind, and any other reader.
BodyKinds == {"none", "buffer", "stream"}

Statuses == {"200", "503", "other"}

VARIABLES
  at,          \* program counter of each caller
  op,          \* the operation a caller performs
  kind,        \* the kind of its body
  rewindable,  \* req.GetBody is not nil and has not failed
  body,        \* req.Body: "whole" or "read"
  attempt,     \* number of the attempt
  cancelled,   \* the context of the request is done
  wire,        \* the request or its answer, on the wire
  got,         \* history: what the node got as bodies
  carriedOut,  \* history: how often the node carried out the request
  open,        \* response bodies not closed yet
  result,      \* what Do returned: a status, "error" or "none"
  failed       \* the test was marked as failed

vars == <<at, op, kind, rewindable, body, attempt, cancelled, wire, got,
          carriedOut, open, result, failed>>

reqVars == <<op, kind, rewindable>>

Init ==
  /\ at = [c \in Callers |-> "idle"]
  /\ op = [c \in Callers |-> "do"]
  /\ kind = [c \in Callers |-> "none"]
  /\ rewindable = [c \in Callers |-> FALSE]
  /\ body = [c \in Callers |-> "whole"]
  /\ attempt = [c \in Callers |-> 0]
  /\ cancelled = [c \in Callers |-> FALSE]
  /\ wire = [c \in Callers |-> "nothing"]
  /\ got = [c \in Callers |-> {}]
  /\ carriedOut = [c \in Callers |-> 0]
  /\ open = [c \in Callers |-> 0]
  /\ result = [c \in Callers |-> "none"]
  /\ failed = [c \in Callers |-> FALSE]

Goto(c, step) == at' = [at EXCEPT ![c] = step]

\* Do returns, to its caller or to the helper that called it.
Give(c, what) ==
  /\ result' = [result EXCEPT ![c] = what]
  /\ Goto(c, IF op[c] = "do" THEN "returned" ELSE "check")

-----------------------------------------------------------------------------
(* Do.                                                                     *)

\* A request without a body gets http.NoBody and a GetBody that returns it.
\* The helpers send no body or a bytes.Buffer.
Begin(c, o, k) ==
  /\ at[c] = "idle"
  /\ o # "do" => k # "stream"
  /\ op' = [op EXCEPT ![c] = o]
  /\ kind' = [kind EXCEPT ![c] = k]
  /\ rewindable' = [rewindable EXCEPT ![c] = k # "stream"]
  /\ attempt' = [attempt EXCEPT ![c] = 1]
  /\ Goto(c, "send")
  /\ UNCHANGED <<body, cancelled, wire, got, carriedOut, open, result, failed>>

\* RoundTrip addresses the request to the node and sends it; a transport
\* does not start when the context is done.
Send(c) ==
  /\ at[c] = "send"
  /\ IF cancelled[c]
     THEN Give(c, "error") /\ UNCHANGED <<body, wire, got>>
     ELSE /\ wire' = [wire EXCEPT ![c] = "request"]
          /\ got' = [got EXCEPT ![c] = @ \cup {body[c]}]
          /\ body' = [body EXCEPT ![c] = IF kind[c] = "none" THEN "whole" ELSE "read"]
          /\ Goto(c, "flight")
          /\ UNCHANGED result
  /\ UNCHANGED <<reqVars, attempt, cancelled, carriedOut, open, failed>>

\* The node, which may still do so when nobody waits for the answer.
NodeAnswers(c, status) ==
  /\ wire[c] = "request"
  /\ wire' = [wire EXCEPT ![c] = status]
  /\ carriedOut' = [carriedOut EXCEPT ![c] = @ + (IF status = "200" THEN 1 ELSE 0)]
  /\ UNCHANGED <<at, reqVars, body, attempt, cancelled, got, open, result, failed>>

\* Mutant: an error of the exchange is repeated like a 503.
BreakAndRepeat(c) ==
  /\ at[c] = "flight"
  /\ body' = [body EXCEPT ![c] = "whole"]
  /\ Goto(c, "wait")
  /\ UNCHANGED <<reqVars, attempt, cancelled, wire, got, carriedOut, open, result, failed>>

\* The connection breaks, or the context is done: Client.Do returns an error.
Break(c) ==
  /\ at[c] = "flight"
  /\ Give(c, "error")
  /\ UNCHANGED <<reqVars, body, attempt, cancelled, wire, got, carriedOut, open, failed>>

\* An answer is passed on unless it is a 503 that is worth another attempt.
MayRepeat(c) == wire[c] = "503" /\ rewindable[c] /\ attempt[c] < MaxAttempts

Receive(c) ==
  /\ at[c] = "flight"
  /\ wire[c] \in Statuses
  /\ open' = [open EXCEPT ![c] = @ + 1]
  /\ IF MayRepeat(c) THEN Goto(c, "rewind") /\ UNCHANGED result ELSE Give(c, wire[c])
  /\ UNCHANGED <<reqVars, body, attempt, cancelled, wire, got, carriedOut, failed>>

\* Mutant: the old body is sent again, and its response left open.
RewindNothing(c) ==
  /\ at[c] = "rewind"
  /\ Goto(c, "wait")
  /\ UNCHANGED <<reqVars, body, attempt, cancelled, wire, got, carriedOut, open,
                 result, failed>>

\* GetBody yields the body anew, or it is the caller's own and fails: then
\* the 503 is returned after all.
Rewind(c) ==
  /\ at[c] = "rewind"
  /\ \/ /\ open' = [open EXCEPT ![c] = @ - 1]
        /\ body' = [body EXCEPT ![c] = "whole"]
        /\ Goto(c, "wait")
        /\ UNCHANGED <<rewindable, result>>
     \/ /\ op[c] = "do" /\ kind[c] = "buffer"
        /\ rewindable' = [rewindable EXCEPT ![c] = FALSE]
        /\ Give(c, "503")
        /\ UNCHANGED <<open, body>>
  /\ UNCHANGED <<op, kind, attempt, cancelled, wire, got, carriedOut, failed>>

\* Mutant: the attempts are not counted.
AwaitUncounted(c) ==
  /\ at[c] = "wait"
  /\ Goto(c, "send")
  /\ UNCHANGED <<reqVars, body, attempt, cancelled, wire, got, carriedOut, open,
                 result, failed>>

\* A second passes, or the context is done: whichever the select takes.
Await(c) ==
  /\ at[c] = "wait"
  /\ \/ /\ attempt' = [attempt EXCEPT ![c] = @ + 1]
        /\ Goto(c, "send")
        /\ UNCHANGED result
     \/ cancelled[c] /\ Give(c, "error") /\ UNCHANGED attempt
  /\ UNCHANGED <<reqVars, body, cancelled, wire, got, carriedOut, open, failed>>

\* The caller of Do gives up; the helpers use a context that is never done.
Cancel(c) ==
  /\ op[c] = "do" /\ at[c] \in {"send", "flight", "rewind", "wait"}
  /\ ~cancelled[c]
  /\ cancelled' = [cancelled EXCEPT ![c] = TRUE]
  /\ UNCHANGED <<at, reqVars, body, attempt, wire, got, carriedOut, open, result, failed>>

-----------------------------------------------------------------------------
(* CreateObject, UpdateObject, DeleteObject, CreateConfigPackage, ...      *)

\* Mutant: the body is closed after the status was required to be 200.
CheckAndLeave(c) ==
  /\ at[c] = "check"
  /\ failed' = [failed EXCEPT ![c] = result[c] # "200"]
  /\ Goto(c, IF result[c] = "200" \/ op[c] = "assert" THEN "returned" ELSE "stopped")
  /\ open' = [open EXCEPT ![c] = IF at'[c] = "returned" THEN 0 ELSE @]
  /\ UNCHANGED <<reqVars, body, attempt, cancelled, wire, got, carriedOut, result>>

\* Mutant: the test only fails when there was no answer.
CheckErrorOnly(c) ==
  /\ at[c] = "check"
  /\ failed' = [failed EXCEPT ![c] = result[c] = "error"]
  /\ open' = [open EXCEPT ![c] = 0]
  /\ Goto(c, IF failed'[c] THEN "stopped" ELSE "returned")
  /\ UNCHANGED <<reqVars, body, attempt, cancelled, wire, got, carriedOut, result>>

\* An error stops the test, and so does a wrong status where it is required
\* to be 200; where it is asserted, the test fails and goes on.  The deferred
\* Close runs in either case.
Check(c) ==
  /\ at[c] = "check"
  /\ failed' = [failed EXCEPT ![c] = result[c] # "200"]
  /\ open' = [open EXCEPT ![c] = 0]
  /\ Goto(c, IF result[c] = "200" \/ (result[c] # "error" /\ op[c] = "assert")
             THEN "returned" ELSE "stopped")
  /\ UNCHANGED <<reqVars, body, attempt, cancelled, wire, got, carriedOut, result>>

-----------------------------------------------------------------------------
Step(c) ==
  \/ Send(c) \/ Receive(c) \/ Rewind(c) \/ Await(c) \/ Check(c)

Ended ==
  /\ \A c \in Callers : at[c] \in {"returned", "stopped"} /\ wire[c] # "request"
  /\ UNCHANGED vars

Next ==
  \/ \E c \in Callers :
       \/ \E o \in Operations, k \in BodyKinds : Begin(c, o, k)
       \/ \E status \in Statuses : NodeAnswers(c, status)
       \/ Step(c) \/ Break(c) \/ Cancel(c)
  \/ Ended

Spec == Init /\ [][Next]_vars

\* Go runs what can run, time passes, and an exchange comes to an end: the
\* client has no timeout, so this is the node's part, or the context's.
FairSpec ==
  /\ Spec
  /\ \A c \in Callers :
       /\ WF_vars(Step(c))
       /\ WF_vars(Break(c) \/ \E status \in Statuses : NodeAnswers(c, status))

-----------------------------------------------------------------------------
(* Properties.                                                             *)

\* Every variable has its type, and the attempts are bounded.
TypeOK ==
  /\ at \in [Callers -> {"idle", "send", "flight", "rewind", "wait", "check",
                         "returned", "stopped"}]
  /\ op \in [Callers -> Operations]
  /\ kind \in [Callers -> BodyKinds]
  /\ rewindable \in [Callers -> BOOLEAN]
  /\ body \in [Callers -> {"whole", "read"}]
  /\ attempt \in [Callers -> 0 .. MaxAttempts]
  /\ cancelled \in [Callers -> BOOLEAN]
  /\ wire \in [Callers -> {"nothing", "request"} \cup Statuses]
  /\ got \in [Callers -> SUBSET {"whole", "read"}]
  /\ carriedOut \in [Callers -> Nat]
  /\ open \in [Callers -> Nat]
  /\ result \in [Callers -> {"none", "error"} \cup Statuses]
  /\ failed \in [Callers -> BOOLEAN]

\* Every attempt sends the whole body: the node never gets one that an
\* earlier attempt has read already.
WholeBody == \A c \in Callers : got[c] \subseteq {"whole"}

\* No response body is forgotten: one is open only while Do looks at it and
\* when Do returned it, and the helpers leave none, whichever way they end.
BodiesClosed ==
  \A c \in Callers :
    LET mayBeOpen == \/ at[c] \in {"rewind", "check"}
                     \/ at[c] = "returned" /\ op[c] = "do"
    IN  open[c] <= (IF mayBeOpen /\ result[c] # "error" THEN 1 ELSE 0)

\* A 503 reaches the caller only after all attempts, or when the body cannot
\* be sent again.
GivesUpLate ==
  \A c \in Callers :
    result[c] = "503" => \/ attempt[c] = MaxAttempts
                         \/ kind[c] = "stream"
                         \/ kind[c] = "buffer" /\ ~rewindable[c]

\* What the caller of Do, or the test that called a helper, takes for success.
Success(c) == IF op[c] = "do" THEN result[c] = "200" ELSE ~failed[c]

\* What a caller learns in the end is what the node did: after a success, also
\* of a helper that neither failed nor stopped the test, it carried the request
\* out exactly once, and after a failure with an answer it did not.
ReportsHonestly ==
  \A c \in Callers : at[c] \in {"returned", "stopped"} =>
    /\ Success(c) => carriedOut[c] = 1
    /\ ~Success(c) /\ result[c] # "error" => carriedOut[c] = 0

\* Do returns, however long the node answers 503.
Returns ==
  \A c \in Callers : at[c] = "send" ~> at[c] \in {"returned", "stopped"}

\* The outcome as Request sees it.
Outcome(c) ==
  CASE result[c] = "none" -> "pending"
    [] result[c] = "200" -> "success"
    [] result[c] \in {"503", "other"} -> "refused"
    [] result[c] = "error" -> "error"

Promise == INSTANCE Request WITH outcome <- [c \in Callers |-> Outcome(c)]

\* The client implements Request: repeating never makes the node carry out a
\* request twice, and no answer is passed on that is not true.
RequestSpec == Promise!Spec

=============================================================================
