----------------------------- MODULE ServiceLease -----------------------------
(***************************************************************************)
(* What a creator promises about each service it starts, in the words of   *)
(* its caller: the service exists before the caller gets it, it is removed *)
(* only after the caller got it, and it does not come back.                *)
(***************************************************************************)
CONSTANT Instances

VARIABLE phase  \* "absent" -> "starting" -> "usable" -> "gone"

Init == phase = [i \in Instances |-> "absent"]

Move(i, from, to) ==
  /\ phase[i] = from
  /\ phase' = [phase EXCEPT ![i] = to]

\* The service is started, for a caller that does not have it yet.
Start(i) == Move(i, "absent", "starting")

\* The caller gets it.
Lease(i) == Move(i, "starting", "usable")

\* It is torn down.
Remove(i) == Move(i, "usable", "gone")

Next == \E i \in Instances : Start(i) \/ Lease(i) \/ Remove(i)

Spec == Init /\ [][Next]_phase

=============================================================================
