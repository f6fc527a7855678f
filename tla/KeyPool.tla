-------------------------------- MODULE KeyPool --------------------------------
(***************************************************************************)
(* pki.GenerateRsaKey: RSA keys are generated in advance by one goroutine  *)
(* per CPU, which hand them out over an unbuffered channel.  Whoever asks  *)
(* first makes the channel and starts the goroutines, under a sync.Once.   *)
(*                                                                         *)
(* A result of rsa.GenerateKey, a key or an error, is a number that no     *)
(* other result has.                                                       *)
(***************************************************************************)
EXTENDS Naturals

CONSTANTS
  Callers,
  NumCPU

ASSUME NumCPUAssumption == NumCPU \in Nat \ {0}

CPUs == 1 .. NumCPU

VARIABLES
  at,       \* each caller: "start", "make", "spawn", "receive" or "done"
  on,       \* the channel it receives from: 0 is the nil channel
  got,      \* the result it got, or 0
  once,     \* setupKeygenPoolOnce: "new", "running" or "done"
  rsaKeys,  \* the channel: how often one was made
  started,  \* number of generators that were started
  offered,  \* each generator: the result it sends, or 0 while it generates
  results   \* number of results generated so far

vars == <<at, on, got, once, rsaKeys, started, offered, results>>

Init ==
  /\ at = [c \in Callers |-> "start"]
  /\ on = [c \in Callers |-> 0]
  /\ got = [c \in Callers |-> 0]
  /\ once = "new"
  /\ rsaKeys = 0
  /\ started = 0
  /\ offered = [g \in CPUs |-> 0]
  /\ results = 0

\* The receive operation evaluates rsaKeys.
Receive(c) ==
  /\ at' = [at EXCEPT ![c] = "receive"]
  /\ on' = [on EXCEPT ![c] = rsaKeys]

\* Mutant: who is not the first does not wait for who is.
DoWithoutWaiting(c) ==
  /\ at[c] = "start"
  /\ IF once = "new"
     THEN /\ once' = "running"
          /\ at' = [at EXCEPT ![c] = "make"]
          /\ UNCHANGED on
     ELSE Receive(c) /\ UNCHANGED once
  /\ UNCHANGED <<got, rsaKeys, started, offered, results>>

\* Once.Do: the first caller runs the setup, the others wait until it is done.
Do(c) ==
  /\ at[c] = "start"
  /\ \/ /\ once = "new"
        /\ once' = "running"
        /\ at' = [at EXCEPT ![c] = "make"]
        /\ UNCHANGED on
     \/ once = "done" /\ Receive(c) /\ UNCHANGED once
  /\ UNCHANGED <<got, rsaKeys, started, offered, results>>

MakeChannel(c) ==
  /\ at[c] = "make"
  /\ rsaKeys' = rsaKeys + 1
  /\ at' = [at EXCEPT ![c] = "spawn"]
  /\ UNCHANGED <<on, got, once, started, offered, results>>

\* The loop that starts the generators, and the end of the setup.
Spawn(c) ==
  /\ at[c] = "spawn"
  /\ IF started < NumCPU
     THEN started' = started + 1 /\ UNCHANGED <<at, on, once>>
     ELSE once' = "done" /\ Receive(c) /\ UNCHANGED started
  /\ UNCHANGED <<got, rsaKeys, offered, results>>

Generate(g) ==
  /\ g <= started /\ offered[g] = 0
  /\ results' = results + 1
  /\ offered' = [offered EXCEPT ![g] = results']
  /\ UNCHANGED <<at, on, got, once, rsaKeys, started>>

\* Mutant: a generator sends the same result over and over.
HandOverAgain(g, c) ==
  /\ offered[g] # 0 /\ at[c] = "receive" /\ on[c] = rsaKeys
  /\ got' = [got EXCEPT ![c] = offered[g]]
  /\ at' = [at EXCEPT ![c] = "done"]
  /\ UNCHANGED <<on, once, rsaKeys, started, offered, results>>

\* A send and a receive on the unbuffered channel meet.
HandOver(g, c) ==
  /\ offered[g] # 0 /\ at[c] = "receive" /\ on[c] = rsaKeys
  /\ got' = [got EXCEPT ![c] = offered[g]]
  /\ at' = [at EXCEPT ![c] = "done"]
  /\ offered' = [offered EXCEPT ![g] = 0]
  /\ UNCHANGED <<on, once, rsaKeys, started, results>>

Caller(c) == Do(c) \/ MakeChannel(c) \/ Spawn(c) \/ \E g \in CPUs : HandOver(g, c)

Next ==
  \/ \E c \in Callers : Caller(c)
  \/ \E g \in CPUs : Generate(g)

Spec == Init /\ [][Next]_vars

-----------------------------------------------------------------------------
(* Properties.                                                             *)

\* Every variable has its type; no more generators run than there are CPUs.
TypeOK ==
  /\ at \in [Callers -> {"start", "make", "spawn", "receive", "done"}]
  /\ on \in [Callers -> Nat]
  /\ got \in [Callers -> Nat]
  /\ once \in {"new", "running", "done"}
  /\ rsaKeys \in Nat
  /\ started \in 0 .. NumCPU
  /\ offered \in [CPUs -> Nat]
  /\ results \in Nat

\* The pool is set up once, and whoever receives does so from the channel
\* that the generators send to, never from a nil or replaced one.
OnePool ==
  /\ rsaKeys <= 1
  /\ \A c \in Callers : at[c] \in {"receive", "done"} => on[c] = 1 /\ rsaKeys = 1

\* No key is handed out twice.
KeysDistinct ==
  \A c, d \in Callers : c # d /\ at[c] = "done" /\ at[d] = "done" => got[c] # got[d]

=============================================================================
