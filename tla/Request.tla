-------------------------------- MODULE Request --------------------------------
(***************************************************************************)
(* What a request to the Icinga 2 API promises its caller, however often   *)
(* it is repeated on the way: the node carries it out at most once; a      *)
(* success says it did, a refusal says it did not, and an error leaves it  *)
(* open.                                                                   *)
(***************************************************************************)
CONSTANT Callers

VARIABLES
  carriedOut,  \* how often the node carried out each caller's request
  outcome      \* "pending", "success", "refused" or "error"

vars == <<carriedOut, outcome>>

Init ==
  /\ carriedOut = [c \in Callers |-> 0]
  /\ outcome = [c \in Callers |-> "pending"]

CarryOut(c) ==
  /\ carriedOut[c] = 0 /\ outcome[c] \in {"pending", "error"}
  /\ carriedOut' = [carriedOut EXCEPT ![c] = 1]
  /\ UNCHANGED outcome

Answer(c, result) ==
  /\ outcome[c] = "pending"
  /\ result = "success" => carriedOut[c] = 1
  /\ result = "refused" => carriedOut[c] = 0
  /\ outcome' = [outcome EXCEPT ![c] = result]
  /\ UNCHANGED carriedOut

Next ==
  \E c \in Callers :
    CarryOut(c) \/ \E result \in {"success", "refused", "error"} : Answer(c, result)

Spec == Init /\ [][Next]_vars

=============================================================================
