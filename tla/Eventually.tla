----------------------------- MODULE Eventually -----------------------------
(***************************************************************************)
(* eventually.Assert and Require: the caller's goroutine selects between   *)
(* a ticker, a timer and the channel on which background attempts report;  *)
(* each attempt calls the sub-test f with a wrapT that records failures.   *)
(*                                                                         *)
(* A call of f may fail any number of times with Errorf and ends by        *)
(* returning or with FailNow.  Time is what fires the ticker and the timer *)
(* and happens at any moment.                                              *)
(***************************************************************************)
EXTENDS Naturals, Sequences, FiniteSets

CONSTANTS
  Attempts,  \* goroutines that can be started in the background
  Final      \* the call of f by the caller's own goroutine

ASSUME FinalAssumption == Final \notin Attempts

Calls == Attempts \cup {Final}

VARIABLES
  main,        \* the caller: "select", "final", "returned" or "exited"
  armed,       \* tick = ticker.C and not nil
  tick,        \* a tick is waiting in ticker.C
  fired,       \* the timer has fired
  ch,          \* the channel of capacity 1: the failed flags sent to it
  call,        \* each call of f: "none", "running" or "done"
  failed,      \* wrapT.failed of each call
  realFailed,  \* the surrounding test has failed
  verdict,     \* what Assert returned
  succeeded,   \* history: some call of f has succeeded
  inTime       \* history: a success was reported before the timer fired

vars == <<main, armed, tick, fired, ch, call, failed, realFailed, verdict,
          succeeded, inTime>>

Capacity == 1  \* of ch

Init ==
  /\ main = "select"
  /\ armed = TRUE /\ tick = FALSE /\ fired = FALSE
  /\ ch = <<>>
  /\ call = [c \in Calls |-> "none"]
  /\ failed = [c \in Calls |-> FALSE]
  /\ realFailed = FALSE
  /\ verdict = "none"
  /\ succeeded = FALSE /\ inTime = FALSE

-----------------------------------------------------------------------------
(* Time.                                                                   *)

\* A ticker drops its tick when the last one has not been taken.
Tick ==
  /\ main = "select"
  /\ ~tick
  /\ tick' = TRUE
  /\ UNCHANGED <<main, armed, fired, ch, call, failed, realFailed, verdict,
                 succeeded, inTime>>

FireTimer ==
  /\ main = "select"
  /\ ~fired
  /\ fired' = TRUE
  /\ UNCHANGED <<main, armed, tick, ch, call, failed, realFailed, verdict,
                 succeeded, inTime>>

-----------------------------------------------------------------------------
(* A call of f, with its wrapT.                                            *)

\* Mutant: every wrapT forwards to the surrounding test.
RecordAndForward(c) ==
  /\ failed' = [failed EXCEPT ![c] = TRUE]
  /\ realFailed' = TRUE

\* Only the final call forwards failures to the surrounding test.
RecordFailure(c) ==
  /\ failed' = [failed EXCEPT ![c] = TRUE]
  /\ realFailed' = (realFailed \/ c = Final)

Errorf(c) ==
  /\ call[c] = "running"
  /\ ~failed[c]
  /\ RecordFailure(c)
  /\ UNCHANGED <<main, armed, tick, fired, ch, call, verdict, succeeded, inTime>>

Return(c) ==
  /\ call[c] = "running"
  /\ call' = [call EXCEPT ![c] = "done"]
  /\ succeeded' = (succeeded \/ ~failed[c])
  /\ UNCHANGED <<main, armed, tick, fired, ch, failed, realFailed, verdict, inTime>>

\* runtime.Goexit: ends the goroutine of an attempt, whose deferred function
\* still reports, or that of the surrounding test.
FailNow(c) ==
  /\ call[c] = "running"
  /\ RecordFailure(c)
  /\ call' = [call EXCEPT ![c] = "done"]
  /\ main' = IF c = Final THEN "exited" ELSE main
  /\ UNCHANGED <<armed, tick, fired, ch, verdict, succeeded, inTime>>

\* Mutant: an attempt reports when f returns, and again when deferred.
ReportTwice(a) ==
  /\ call[a] = "done"
  /\ ch' = ch \o <<failed[a], failed[a]>>
  /\ call' = [call EXCEPT ![a] = "none"]
  /\ failed' = [failed EXCEPT ![a] = FALSE]
  /\ UNCHANGED <<main, armed, tick, fired, realFailed, verdict, succeeded, inTime>>

\* The deferred send, which would block on a full channel.
Report(a) ==
  /\ call[a] = "done"
  /\ Len(ch) < Capacity
  /\ ch' = Append(ch, failed[a])
  /\ call' = [call EXCEPT ![a] = "none"]
  /\ failed' = [failed EXCEPT ![a] = FALSE]
  /\ inTime' = (inTime \/ (~failed[a] /\ ~fired))
  /\ UNCHANGED <<main, armed, tick, fired, realFailed, verdict, succeeded>>

-----------------------------------------------------------------------------
(* The select loop of Assert: any case that is ready may be taken.         *)

\* Mutant: the ticker stays armed during an attempt.
StartAttemptArmed ==
  /\ main = "select" /\ armed /\ tick
  /\ tick' = FALSE
  /\ \E a \in Attempts :
       /\ call[a] = "none"
       /\ call' = [call EXCEPT ![a] = "running"]
  /\ UNCHANGED <<main, armed, fired, ch, failed, realFailed, verdict, succeeded,
                 inTime>>

StartAttempt ==
  /\ main = "select" /\ armed /\ tick
  /\ tick' = FALSE
  /\ armed' = FALSE
  /\ \E a \in Attempts :
       /\ call[a] = "none"
       /\ call' = [call EXCEPT ![a] = "running"]
  /\ UNCHANGED <<main, fired, ch, failed, realFailed, verdict, succeeded, inTime>>

Receive ==
  /\ main = "select" /\ ch # <<>>
  /\ ch' = Tail(ch)
  /\ IF Head(ch)
     THEN armed' = TRUE /\ UNCHANGED <<main, verdict>>
     ELSE main' = "returned" /\ verdict' = "true" /\ UNCHANGED armed
  /\ UNCHANGED <<tick, fired, call, failed, realFailed, succeeded, inTime>>

\* Mutant: the final call waits for the attempt in flight.
TimeoutWhenIdle ==
  /\ main = "select" /\ fired /\ armed
  /\ main' = "final"
  /\ call' = [call EXCEPT ![Final] = "running"]
  /\ UNCHANGED <<armed, tick, fired, ch, failed, realFailed, verdict, succeeded,
                 inTime>>

\* The timer case calls f once more, whatever an attempt in flight is doing.
Timeout ==
  /\ main = "select" /\ fired
  /\ main' = "final"
  /\ call' = [call EXCEPT ![Final] = "running"]
  /\ UNCHANGED <<armed, tick, fired, ch, failed, realFailed, verdict, succeeded,
                 inTime>>

\* Mutant: all calls share one wrapT, so that an attempt that fails late
\* decides.
FinalVerdictOfAll ==
  /\ main = "final" /\ call[Final] = "done"
  /\ main' = "returned"
  /\ verdict' = IF \E c \in Calls : failed[c] THEN "false" ELSE "true"
  /\ UNCHANGED <<armed, tick, fired, ch, call, failed, realFailed, succeeded,
                 inTime>>

FinalVerdict ==
  /\ main = "final" /\ call[Final] = "done"
  /\ main' = "returned"
  /\ verdict' = IF failed[Final] THEN "false" ELSE "true"
  /\ UNCHANGED <<armed, tick, fired, ch, call, failed, realFailed, succeeded,
                 inTime>>

\* Require fails the surrounding test when Assert returned false.
Require ==
  /\ main = "returned" /\ verdict = "false"
  /\ main' = "exited"
  /\ realFailed' = TRUE
  /\ UNCHANGED <<armed, tick, fired, ch, call, failed, verdict, succeeded, inTime>>

-----------------------------------------------------------------------------

CallStep(c) == Errorf(c) \/ Return(c) \/ FailNow(c)

Select == StartAttempt \/ Receive \/ Timeout \/ FinalVerdict

Next ==
  \/ Tick \/ FireTimer
  \/ \E c \in Calls : CallStep(c)
  \/ \E a \in Attempts : Report(a)
  \/ Select \/ Require

Spec == Init /\ [][Next]_vars

\* Time passes, select chooses at random among the cases that are ready, and
\* the final call of f ends.  Nothing is assumed of the background attempts.
FairSpec ==
  /\ Spec
  /\ WF_vars(FireTimer) /\ WF_vars(Timeout) /\ WF_vars(FinalVerdict)
  /\ WF_vars(Return(Final) \/ FailNow(Final))

-----------------------------------------------------------------------------
(* Properties.                                                             *)

\* The type of every variable, and the capacity of the channel.
TypeOK ==
  /\ main \in {"select", "final", "returned", "exited"}
  /\ armed \in BOOLEAN /\ tick \in BOOLEAN /\ fired \in BOOLEAN
  /\ ch \in Seq(BOOLEAN) /\ Len(ch) <= Capacity
  /\ call \in [Calls -> {"none", "running", "done"}]
  /\ failed \in [Calls -> BOOLEAN]
  /\ realFailed \in BOOLEAN
  /\ verdict \in {"none", "true", "false"}
  /\ succeeded \in BOOLEAN /\ inTime \in BOOLEAN

\* Attempts run one at a time, and an attempt that ended can always report
\* without blocking: no goroutine is leaked, not even when Assert returned
\* long before the attempt ended.
AttemptsDoNotPileUp ==
  /\ \A a, b \in Attempts : call[a] # "none" /\ call[b] # "none" => a = b
  /\ \A a \in Attempts : call[a] # "none" => ch = <<>>

\* Once the final call of f has begun, it alone decides, though an attempt may
\* still run beside it: the surrounding test has failed if and only if the
\* final call has, and Assert returns what the final call came to.
FinalCallDecides ==
  call[Final] # "none" =>
    /\ realFailed = failed[Final]
    /\ verdict # "none" => verdict = IF failed[Final] THEN "false" ELSE "true"

\* Assert returns, even when an attempt in the background never ends.
Returns == <>(main \in {"returned", "exited"})

Outcome ==
  IF main \in {"select", "final"} THEN "pending"
  ELSE IF main = "returned" /\ verdict = "true" THEN "passed"
  ELSE "failed"

\* Assert implements Retry: it passes because a call of f succeeded and
\* without blaming the test, and blames the test only after the timeout.
Promise == INSTANCE Retry WITH
  late <- fired, good <- succeeded, blamed <- realFailed, outcome <- Outcome

RetrySpec == Promise!Spec

\* What the comment on Assert says: it "repeatedly calls a sub-test given by
\* f until it succeeds".  A sub-test whose success was reported before the
\* timeout is therefore not called again, let alone allowed to fail the test.
SuccessInTimeCounts == inTime => verdict # "false" /\ main # "exited"

=============================================================================
