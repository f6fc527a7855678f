------------------------------- MODULE UniqueName -------------------------------
(***************************************************************************)
(* utils.UniqueName: names made of the name of the test and a hint, with   *)
(* the slashes of subtests replaced, and numbered by a counter for each    *)
(* such prefix in a sync.Map that all goroutines share.                    *)
(*                                                                         *)
(* A name is a sequence of parts: slashes, dashes, numbers and other text. *)
(***************************************************************************)
EXTENDS Naturals, Sequences

CONSTANTS
  Calls,        \* calls of UniqueName, each in a goroutine of its own
  Slash, Dash,
  TestNames,    \* what t.Name() may be
  Hints         \* <<>> is the empty one

VARIABLES
  at,        \* each call: "start", "add" or "done"
  prefix,    \* its local variable
  counters,  \* the map: how many numbers were given out for a prefix
  name       \* what it returned

vars == <<at, prefix, counters, name>>

Init ==
  /\ at = [c \in Calls |-> "start"]
  /\ prefix = [c \in Calls |-> <<>>]
  /\ counters = [p \in {} |-> 0]
  /\ name = [c \in Calls |-> <<>>]

\* strings.ReplaceAll(prefix, "/", "-").
Replaced(parts) == [i \in DOMAIN parts |-> IF parts[i] = Slash THEN Dash ELSE parts[i]]

Prefix(test, hint) ==
  Replaced(test \o (IF hint = <<>> THEN <<>> ELSE <<Dash>> \o hint))

\* Mutant: every call stores a new counter.
Store(c, test, hint) ==
  /\ at[c] = "start"
  /\ LET p == Prefix(test, hint)
     IN  /\ prefix' = [prefix EXCEPT ![c] = p]
         /\ counters' = [q \in DOMAIN counters \cup {p} |->
                           IF q = p THEN 0 ELSE counters[q]]
  /\ at' = [at EXCEPT ![c] = "add"]
  /\ UNCHANGED name

\* LoadOrStore stores a new counter unless the map has one.
LoadOrStore(c, test, hint) ==
  /\ at[c] = "start"
  /\ LET p == Prefix(test, hint)
     IN  /\ prefix' = [prefix EXCEPT ![c] = p]
         /\ counters' = [q \in DOMAIN counters \cup {p} |->
                           IF q \in DOMAIN counters THEN counters[q] ELSE 0]
  /\ at' = [at EXCEPT ![c] = "add"]
  /\ UNCHANGED name

\* atomic.AddUint32, and the name with the number it returned.
Add(c) ==
  /\ at[c] = "add"
  /\ counters' = [counters EXCEPT ![prefix[c]] = @ + 1]
  /\ name' = [name EXCEPT ![c] =
       prefix[c] \o <<Dash, [number |-> counters'[prefix[c]]]>>]
  /\ at' = [at EXCEPT ![c] = "done"]
  /\ UNCHANGED prefix

Ended == (\A c \in Calls : at[c] = "done") /\ UNCHANGED vars

Next ==
  \/ \E c \in Calls :
       Add(c) \/ \E test \in TestNames, hint \in Hints : LoadOrStore(c, test, hint)
  \/ Ended

Spec == Init /\ [][Next]_vars

-----------------------------------------------------------------------------
(* Properties.                                                             *)

\* No name is given out twice, though other calls may have other tests and
\* hints that make up the same text.
Unique ==
  \A c, d \in Calls : c # d /\ at[c] = "done" /\ at[d] = "done" => name[c] # name[d]

=============================================================================
