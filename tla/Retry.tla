-------------------------------- MODULE Retry --------------------------------
(***************************************************************************)
(* What eventually.Assert promises its caller: it passes only because a    *)
(* call of the sub-test succeeded, and then the surrounding test did not   *)
(* fail; the surrounding test fails only once the timeout has passed.      *)
(***************************************************************************)
VARIABLES
  late,     \* the timeout has passed
  good,     \* some call of the sub-test has succeeded
  blamed,   \* the surrounding test has failed
  outcome   \* "pending", "passed" or "failed"

vars == <<late, good, blamed, outcome>>

Init ==
  /\ late = FALSE /\ good = FALSE /\ blamed = FALSE
  /\ outcome = "pending"

Expire == late' = TRUE /\ UNCHANGED <<good, blamed, outcome>>

\* Calls that are still in flight may succeed even after the outcome.
Succeed == good' = TRUE /\ UNCHANGED <<late, blamed, outcome>>

Blame ==
  /\ late /\ outcome = "pending"
  /\ blamed' = TRUE
  /\ UNCHANGED <<late, good, outcome>>

Pass ==
  /\ outcome = "pending" /\ ~blamed
  /\ good'
  /\ outcome' = "passed"
  /\ UNCHANGED <<late, blamed>>

Fail ==
  /\ outcome = "pending" /\ late
  /\ blamed' = TRUE
  /\ outcome' = "failed"
  /\ UNCHANGED <<late, good>>

Next == Expire \/ Succeed \/ Blame \/ Pass \/ Fail

Spec == Init /\ [][Next]_vars

=============================================================================
