------------------------------- MODULE ITProofs -------------------------------
(***************************************************************************)
(* What holds of IT for any number of tests, instances and failing calls:  *)
(* its types, the order of IT.Cleanup, one server of each kind, one        *)
(* removal of each instance, the completeness of IT.Cleanup, and that no   *)
(* Icinga DB outlives the Redis server and the database server it uses.    *)
(*                                                                         *)
(* The module goes property by property: the part of the inductive         *)
(* invariant the property needs, one lemma per action that touches it, the *)
(* theorem.  What the creators preserve comes from DockerCreatorProofs.    *)
(***************************************************************************)
EXTENDS IT, DockerCreatorProofs, TLAPS

-----------------------------------------------------------------------------
(* The inductive invariant.                                                *)

MainPlaces == {"logs", "client", "network", "body", "get", "database", "run",
               "deferred", "teardown", "returned"}
TestPlaces == {"waiting", "body", "get", "database", "ending", "ended"}

PlacesInv ==
  /\ at \in [Goroutines -> Steps]
  /\ pc \in [Goroutines -> MainPlaces \cup TestPlaces]
  /\ pc[Main] \in MainPlaces
  /\ \A t \in Tests : pc[t] \in TestPlaces

\* A goroutine is inside a creator only where it called one, and a test runs
\* only while TestMain is in m.Run.
ActiveInv ==
  /\ \A g \in Goroutines :
       at[g] # "idle" => pc[g] \in {"body", "database", "ending", "teardown"}
  /\ \A t \in Tests : pc[t] \notin {"waiting", "ended"} => pc[Main] = "run"

\* deferredCleanup holds the infrastructure first and services above it.
Stacked ==
  /\ deferred \in Seq(Kinds \cup Infrastructure)
  /\ Len(deferred) >= 3
  /\ deferred[1] = "logs" /\ deferred[2] = "client" /\ deferred[3] = "network"
  /\ \A n \in 4 .. Len(deferred) : deferred[n] \in Kinds

OpenInv ==
  /\ pc[Main] = "logs" => open = {} /\ deferred = <<>>
  /\ pc[Main] = "client" =>
       /\ open = {"logs"}
       /\ deferred \in Seq(Infrastructure) /\ Len(deferred) = 1
       /\ deferred[1] = "logs"
  /\ pc[Main] = "network" =>
       /\ open = {"logs", "client"}
       /\ deferred \in Seq(Infrastructure) /\ Len(deferred) = 2
       /\ deferred[1] = "logs" /\ deferred[2] = "client"
  /\ pc[Main] \in {"body", "get", "database", "run", "deferred"} =>
       open = Infrastructure /\ Stacked
  /\ pc[Main] = "teardown" =>
       /\ Stacked /\ left \in 0 .. Len(deferred)
       /\ left >= 3 => open = Infrastructure
       /\ at[Main] # "idle" => left >= 3

OrderInv == PlacesInv /\ ActiveInv /\ OpenInv

LEMMA InitOrderInv == ITInit => OrderInv
BY MainAssumption
DEF ITInit, Init, OrderInv, PlacesInv, ActiveInv, OpenInv, Tests, Steps,
    MainPlaces, TestPlaces

-----------------------------------------------------------------------------
(* Steps inside the creators.                                              *)

LEMMA InCreatorMoves ==
  ASSUME PlacesInv, NEW g \in Goroutines, InCreator(g)
  PROVE  /\ at[g] # "idle" /\ at' \in [Goroutines -> Steps]
         /\ \A h \in Goroutines : h # g => at'[h] = at[h]
<1> USE DEF PlacesInv, IsAt, Goto
<1>1. CASE CreateStep(g)
  BY <1>1 DEF CreateStep, CreateConfigFile, WriteConfigFile, TakeNumber, Prepare,
     CreateContainer, StartContainer, AwaitReady, Steps
<1>2. CASE CleanupStep(g)
  BY <1>2 DEF CleanupStep, DeleteFromRunning, RemoveContainer, RemoveConfigFile,
     CleanupNext, Finish, Steps
<1>3. CASE CallFails(g)
  <2>1. at[g] # "idle"
    BY <1>3 DEF CallFails, FailureMode
  <2>2. at' = at \/ at' = [at EXCEPT ![g] = "panicked"]
    BY <1>3 DEF CallFails
  <2> QED
    BY <2>1, <2>2 DEF Steps
<1> QED
  BY <1>1, <1>2, <1>3 DEF InCreator

LEMMA InCreatorKeeps ==
  ASSUME OrderInv, NEW g \in Goroutines, InCreator(g)
  PROVE  OrderInv'
<1>1. /\ at[g] # "idle" /\ at' \in [Goroutines -> Steps]
      /\ \A h \in Goroutines : h # g => at'[h] = at[h]
  BY InCreatorMoves DEF OrderInv
<1>2. UNCHANGED <<pc, open, deferred, left>>
  BY DEF InCreator, itVars
<1> QED
  BY <1>1, <1>2, MainAssumption DEF OrderInv, PlacesInv, ActiveInv, OpenInv, Stacked

Pushed == deferred' = deferred \/ \E k \in Kinds : deferred' = Append(deferred, k)

LEMMA PushedStacked == ASSUME Stacked, Pushed PROVE Stacked' /\ Len(deferred) <= Len(deferred')
BY DEF Stacked, Pushed

\* What a goroutine does outside IT.Cleanup leaves the infrastructure alone.
Elsewhere(g) ==
  /\ UNCHANGED <<open, left>> /\ Pushed
  /\ at' \in [Goroutines -> Steps]
  /\ pc' \in [Goroutines -> MainPlaces \cup TestPlaces]
  /\ \A h \in Goroutines : h # g => at'[h] = at[h] /\ pc'[h] = pc[h]
  /\ pc[g] \in {"body", "get", "database", "ending"}
  /\ \/ pc'[g] \in {"body", "get", "database"}
     \/ g \in Tests /\ pc'[g] \in {"ending", "ended"}
     \/ g = Main /\ pc'[g] = "deferred"
  /\ at'[g] # "idle" => pc'[g] \in {"body", "database", "ending"}

LEMMA ElsewhereKeeps ==
  ASSUME OrderInv, NEW g \in Goroutines, Elsewhere(g)
  PROVE  OrderInv'
<1> USE MainAssumption DEF Tests, Elsewhere
<1>1. PlacesInv'
  BY DEF OrderInv, PlacesInv, MainPlaces, TestPlaces
<1>2. ActiveInv'
  BY DEF OrderInv, PlacesInv, ActiveInv, MainPlaces, TestPlaces
<1>3. g # Main => pc[Main] = "run" /\ pc'[Main] = "run"
  BY DEF OrderInv, ActiveInv
<1>4. pc'[Main] \in {"body", "get", "database", "run", "deferred"}
  BY <1>3 DEF OrderInv, PlacesInv, MainPlaces
<1>5. open = Infrastructure /\ Stacked
  BY <1>3 DEF OrderInv, PlacesInv, OpenInv, MainPlaces
<1>6. OpenInv'
  BY <1>4, <1>5, PushedStacked DEF OpenInv
<1> QED
  BY <1>1, <1>2, <1>6 DEF OrderInv

LEMMA AskKeeps ==
  ASSUME OrderInv, NEW g \in Goroutines, NEW k \in Kinds, NEW withT \in BOOLEAN,
         Ask(g, k, withT)
  PROVE  OrderInv'
<1> USE MainAssumption, KindsAssumption
    DEF Ask, IsIn, MoveTo, Goto, vars
<1>1. UNCHANGED <<open, left>> /\ Pushed
  BY DEF Pushed, Kinds
<1>2. /\ at' \in [Goroutines -> Steps]
      /\ pc' \in [Goroutines -> MainPlaces \cup TestPlaces]
      /\ \A h \in Goroutines : h # g => at'[h] = at[h] /\ pc'[h] = pc[h]
  BY DEF OrderInv, PlacesInv, MainPlaces, TestPlaces, Steps
<1>3. /\ pc[g] \in {"body", "get", "database", "ending"}
      /\ \/ pc'[g] \in {"body", "get", "database"}
         \/ g \in Tests /\ pc'[g] \in {"ending", "ended"}
         \/ g = Main /\ pc'[g] = "deferred"
      /\ at'[g] # "idle" => pc'[g] \in {"body", "database", "ending"}
  BY DEF OrderInv, PlacesInv, MainPlaces, TestPlaces, Tests
<1> QED
  BY <1>1, <1>2, <1>3, ElsewhereKeeps DEF Elsewhere

LEMMA NoBinaryKeeps ==
  ASSUME OrderInv, NEW g \in Goroutines, NoBinary(g)
  PROVE  OrderInv'
<1> USE MainAssumption, KindsAssumption
    DEF NoBinary, IsIn, MoveTo, Goto, vars
<1>1. UNCHANGED <<open, left>> /\ Pushed
  BY DEF Pushed, Kinds
<1>2. /\ at' \in [Goroutines -> Steps]
      /\ pc' \in [Goroutines -> MainPlaces \cup TestPlaces]
      /\ \A h \in Goroutines : h # g => at'[h] = at[h] /\ pc'[h] = pc[h]
  BY DEF OrderInv, PlacesInv, MainPlaces, TestPlaces, Steps
<1>3. /\ pc[g] \in {"body", "get", "database", "ending"}
      /\ \/ pc'[g] \in {"body", "get", "database"}
         \/ g \in Tests /\ pc'[g] \in {"ending", "ended"}
         \/ g = Main /\ pc'[g] = "deferred"
      /\ at'[g] # "idle" => pc'[g] \in {"body", "database", "ending"}
  BY DEF OrderInv, PlacesInv, MainPlaces, TestPlaces, Tests
<1> QED
  BY <1>1, <1>2, <1>3, ElsewhereKeeps DEF Elsewhere

LEMMA GetPoolKeeps ==
  ASSUME OrderInv, NEW g \in Goroutines, GetPool(g)
  PROVE  OrderInv'
<1> USE MainAssumption, KindsAssumption
    DEF GetPool, IsIn, MoveTo, Goto, vars, Begin, IsAt, FirstStep
<1>1. UNCHANGED <<open, left>> /\ Pushed
  BY DEF Pushed, Kinds
<1>2. /\ at' \in [Goroutines -> Steps]
      /\ pc' \in [Goroutines -> MainPlaces \cup TestPlaces]
      /\ \A h \in Goroutines : h # g => at'[h] = at[h] /\ pc'[h] = pc[h]
  BY DEF OrderInv, PlacesInv, MainPlaces, TestPlaces, Steps
<1>3. /\ pc[g] \in {"body", "get", "database", "ending"}
      /\ \/ pc'[g] \in {"body", "get", "database"}
         \/ g \in Tests /\ pc'[g] \in {"ending", "ended"}
         \/ g = Main /\ pc'[g] = "deferred"
      /\ at'[g] # "idle" => pc'[g] \in {"body", "database", "ending"}
  BY DEF OrderInv, PlacesInv, MainPlaces, TestPlaces, Tests
<1> QED
  BY <1>1, <1>2, <1>3, ElsewhereKeeps DEF Elsewhere

LEMMA GetServerKeeps ==
  ASSUME OrderInv, NEW g \in Goroutines, GetServer(g)
  PROVE  OrderInv'
<1> USE MainAssumption, KindsAssumption
    DEF GetServer, IsIn, MoveTo, Goto, vars, Begin, IsAt, FirstStep
<1>1. UNCHANGED <<open, left>> /\ Pushed
  BY DEF Pushed, Kinds
<1>2. /\ at' \in [Goroutines -> Steps]
      /\ pc' \in [Goroutines -> MainPlaces \cup TestPlaces]
      /\ \A h \in Goroutines : h # g => at'[h] = at[h] /\ pc'[h] = pc[h]
  BY DEF OrderInv, PlacesInv, MainPlaces, TestPlaces, Steps
<1>3. /\ pc[g] \in {"body", "get", "database", "ending"}
      /\ \/ pc'[g] \in {"body", "get", "database"}
         \/ g \in Tests /\ pc'[g] \in {"ending", "ended"}
         \/ g = Main /\ pc'[g] = "deferred"
      /\ at'[g] # "idle" => pc'[g] \in {"body", "database", "ending"}
  BY DEF OrderInv, PlacesInv, MainPlaces, TestPlaces, Tests
<1> QED
  BY <1>1, <1>2, <1>3, ElsewhereKeeps DEF Elsewhere

LEMMA CreateDatabaseKeeps ==
  ASSUME OrderInv, NEW g \in Goroutines, CreateDatabase(g)
  PROVE  OrderInv'
<1> USE MainAssumption, KindsAssumption
    DEF CreateDatabase, IsIn, MoveTo, Goto, vars
<1>1. UNCHANGED <<open, left>> /\ Pushed
  BY DEF Pushed, Kinds
<1>2. /\ at' \in [Goroutines -> Steps]
      /\ pc' \in [Goroutines -> MainPlaces \cup TestPlaces]
      /\ \A h \in Goroutines : h # g => at'[h] = at[h] /\ pc'[h] = pc[h]
  BY DEF OrderInv, PlacesInv, MainPlaces, TestPlaces, Steps
<1>3. /\ pc[g] \in {"body", "get", "database", "ending"}
      /\ \/ pc'[g] \in {"body", "get", "database"}
         \/ g \in Tests /\ pc'[g] \in {"ending", "ended"}
         \/ g = Main /\ pc'[g] = "deferred"
      /\ at'[g] # "idle" => pc'[g] \in {"body", "database", "ending"}
  BY DEF OrderInv, PlacesInv, MainPlaces, TestPlaces, Tests
<1> QED
  BY <1>1, <1>2, <1>3, ElsewhereKeeps DEF Elsewhere

LEMMA EndTestKeeps ==
  ASSUME OrderInv, NEW g \in Goroutines, EndTest(g)
  PROVE  OrderInv'
<1> USE MainAssumption, KindsAssumption
    DEF EndTest, IsIn, MoveTo, Goto, vars
<1>1. UNCHANGED <<open, left>> /\ Pushed
  BY DEF Pushed, Kinds
<1>2. /\ at' \in [Goroutines -> Steps]
      /\ pc' \in [Goroutines -> MainPlaces \cup TestPlaces]
      /\ \A h \in Goroutines : h # g => at'[h] = at[h] /\ pc'[h] = pc[h]
  BY DEF OrderInv, PlacesInv, MainPlaces, TestPlaces, Steps
<1>3. /\ pc[g] \in {"body", "get", "database", "ending"}
      /\ \/ pc'[g] \in {"body", "get", "database"}
         \/ g \in Tests /\ pc'[g] \in {"ending", "ended"}
         \/ g = Main /\ pc'[g] = "deferred"
      /\ at'[g] # "idle" => pc'[g] \in {"body", "database", "ending"}
  BY DEF OrderInv, PlacesInv, MainPlaces, TestPlaces, Tests
<1> QED
  BY <1>1, <1>2, <1>3, ElsewhereKeeps DEF Elsewhere

LEMMA TestCleanupKeeps ==
  ASSUME OrderInv, NEW g \in Goroutines, TestCleanup(g)
  PROVE  OrderInv'
<1> USE MainAssumption, KindsAssumption
    DEF TestCleanup, IsIn, MoveTo, Goto, vars, BeginCleanup, IsAt, DropDatabase
<1>1. UNCHANGED <<open, left>> /\ Pushed
  BY DEF Pushed, Kinds
<1>2. /\ at' \in [Goroutines -> Steps]
      /\ pc' \in [Goroutines -> MainPlaces \cup TestPlaces]
      /\ \A h \in Goroutines : h # g => at'[h] = at[h] /\ pc'[h] = pc[h]
  BY DEF OrderInv, PlacesInv, MainPlaces, TestPlaces, Steps
<1>3. /\ pc[g] \in {"body", "get", "database", "ending"}
      /\ \/ pc'[g] \in {"body", "get", "database"}
         \/ g \in Tests /\ pc'[g] \in {"ending", "ended"}
         \/ g = Main /\ pc'[g] = "deferred"
      /\ at'[g] # "idle" => pc'[g] \in {"body", "database", "ending"}
  BY DEF OrderInv, PlacesInv, MainPlaces, TestPlaces, Tests
<1> QED
  BY <1>1, <1>2, <1>3, ElsewhereKeeps DEF Elsewhere

LEMMA TestDoneKeeps ==
  ASSUME OrderInv, NEW g \in Goroutines, TestDone(g)
  PROVE  OrderInv'
<1> USE MainAssumption, KindsAssumption
    DEF TestDone, IsIn, MoveTo, Goto, vars
<1>1. UNCHANGED <<open, left>> /\ Pushed
  BY DEF Pushed, Kinds
<1>2. /\ at' \in [Goroutines -> Steps]
      /\ pc' \in [Goroutines -> MainPlaces \cup TestPlaces]
      /\ \A h \in Goroutines : h # g => at'[h] = at[h] /\ pc'[h] = pc[h]
  BY DEF OrderInv, PlacesInv, MainPlaces, TestPlaces, Steps
<1>3. /\ pc[g] \in {"body", "get", "database", "ending"}
      /\ \/ pc'[g] \in {"body", "get", "database"}
         \/ g \in Tests /\ pc'[g] \in {"ending", "ended"}
         \/ g = Main /\ pc'[g] = "deferred"
      /\ at'[g] # "idle" => pc'[g] \in {"body", "database", "ending"}
  BY DEF OrderInv, PlacesInv, MainPlaces, TestPlaces, Tests
<1> QED
  BY <1>1, <1>2, <1>3, ElsewhereKeeps DEF Elsewhere

\* A server that is published gets its clean-up above what is there.
LEMMA ReceiveKeeps ==
  ASSUME OrderInv, NEW g \in Goroutines, Receive(g)
  PROVE  OrderInv'
<1> USE MainAssumption
<1>1. /\ UNCHANGED <<pc, open, left>> /\ Pushed
      /\ at[g] = "register" /\ at' = [at EXCEPT ![g] = "idle"]
  BY DEF Receive, Register, IsAt, Goto, Pushed, Kinds
<1>2. PlacesInv' /\ ActiveInv'
  BY <1>1 DEF OrderInv, PlacesInv, ActiveInv, Steps
<1>3. OpenInv'
  <2>1. CASE g # Main
    BY <1>1, <2>1, PushedStacked DEF OrderInv, PlacesInv, ActiveInv, OpenInv, Tests, Stacked
  <2>2. CASE g = Main
    <3>1. pc[Main] \in {"body", "database", "teardown"}
      BY <1>1, <2>2 DEF OrderInv, PlacesInv, ActiveInv, MainPlaces
    <3>2. Stacked /\ at'[Main] = "idle"
      BY <1>1, <2>2, <3>1 DEF OrderInv, PlacesInv, OpenInv
    <3> QED
      BY <1>1, <3>1, <3>2, PushedStacked DEF OrderInv, OpenInv, Stacked
  <2> QED
    BY <2>1, <2>2
<1> QED
  BY <1>2, <1>3 DEF OrderInv

LEMMA UnwindKeeps ==
  ASSUME OrderInv, NEW g \in Goroutines, Unwind(g)
  PROVE  OrderInv'
<1> USE MainAssumption
<1>1. /\ UNCHANGED <<open, left, deferred>>
      /\ at[g] = "panicked" /\ at' = [at EXCEPT ![g] = "idle"]
      /\ pc' = IF pc[g] = "teardown" THEN pc
               ELSE [pc EXCEPT ![g] = IF g = Main THEN "deferred" ELSE "ending"]
  BY DEF Unwind, IsAt, MoveTo
<1>2. CASE pc[g] = "teardown"
  BY <1>1, <1>2
  DEF OrderInv, PlacesInv, ActiveInv, OpenInv, Stacked, Tests, Steps, TestPlaces
<1>3. CASE pc[g] # "teardown"
  <2>1. pc[g] \in {"body", "database", "ending"}
    BY <1>1, <1>3 DEF OrderInv, ActiveInv
  <2> QED
    BY <1>1, <1>3, <2>1, ElsewhereKeeps
    DEF Elsewhere, Pushed, OrderInv, PlacesInv, Tests, Steps, MainPlaces, TestPlaces
<1> QED
  BY <1>2, <1>3

LEMMA ProceedKeeps == ASSUME OrderInv, NEW g \in Goroutines, Goroutine(g) PROVE OrderInv'
BY AskKeeps, NoBinaryKeeps, GetPoolKeeps, GetServerKeeps, InCreatorKeeps, ReceiveKeeps,
   CreateDatabaseKeeps, TestCleanupKeeps, TestDoneKeeps, UnwindKeeps, EndTestKeeps
DEF Goroutine, Proceed

-----------------------------------------------------------------------------
(* TestMain.                                                               *)

LEMMA Appended ==
  ASSUME NEW S, NEW s \in Seq(S), NEW e \in S
  PROVE  /\ Append(s, e) \in Seq(S)
         /\ Len(Append(s, e)) = Len(s) + 1
         /\ Len(s) >= 1 => Append(s, e)[1] = s[1]
         /\ Len(s) >= 2 => Append(s, e)[2] = s[2]
         /\ Append(s, e)[Len(s) + 1] = e
OBVIOUS

LEMMA NewITKeeps ==
  ASSUME OrderInv, NEW part \in Infrastructure, NewIT(part)
  PROVE  OrderInv'
<1> USE MainAssumption DEF NewIT, IsIn, MoveTo, worldVars, poolVars
<1>1. CASE UNCHANGED <<open, deferred, pc>>
  BY <1>1 DEF OrderInv, PlacesInv, ActiveInv, OpenInv, Stacked
<1>2. CASE ~UNCHANGED <<open, deferred, pc>>
  <2> DEFINE next == CASE part = "logs" -> "client"
                       [] part = "client" -> "network"
                       [] part = "network" -> "body"
  <2>1. /\ UNCHANGED <<at, left>> /\ at[Main] = "idle" /\ pc[Main] = part
        /\ open' = open \cup {part} /\ deferred' = Append(deferred, part)
        /\ pc' = [pc EXCEPT ![Main] = next]
    BY <1>2
  <2>2. /\ part = "logs" => next = "client"
        /\ part = "client" => next = "network"
        /\ part = "network" => next = "body"
        /\ part \in {"logs", "client", "network"}
    BY DEF Infrastructure
  <2> HIDE DEF next
  <2>3. PlacesInv' /\ ActiveInv'
    BY <2>1, <2>2 DEF OrderInv, PlacesInv, ActiveInv, MainPlaces, TestPlaces, Tests
  <2>4. pc'[Main] = next
    BY <2>1 DEF OrderInv, PlacesInv
  <2>5. OpenInv'
    <3>1. CASE part = "logs"
      <4>1. open = {} /\ deferred = <<>>
        BY <2>1, <3>1 DEF OrderInv, OpenInv
      <4>2. /\ open' = {"logs"} /\ deferred' \in Seq(Infrastructure)
            /\ Len(deferred') = 1 /\ deferred'[1] = "logs"
        BY <2>1, <3>1, <4>1 DEF Infrastructure
      <4> QED
        BY <2>2, <2>4, <3>1, <4>2 DEF OpenInv
    <3>2. CASE part = "client"
      <4>1. /\ open = {"logs"} /\ deferred \in Seq(Infrastructure)
            /\ Len(deferred) = 1 /\ deferred[1] = "logs"
        BY <2>1, <3>2 DEF OrderInv, OpenInv
      <4>2. open' = {"logs", "client"}
        BY <2>1, <3>2, <4>1
      <4>3. /\ deferred' \in Seq(Infrastructure) /\ Len(deferred') = 2
            /\ deferred'[1] = "logs" /\ deferred'[2] = "client"
        <5>1. deferred' = Append(deferred, part) /\ deferred \in Seq(Infrastructure)
          BY <2>1, <4>1
        <5>2. /\ deferred' \in Seq(Infrastructure)
              /\ Len(deferred') = Len(deferred) + 1
              /\ Len(deferred) >= 1 => deferred'[1] = deferred[1]
              /\ deferred'[Len(deferred) + 1] = part
          BY <5>1, Appended
        <5> QED
          BY <4>1, <5>2, <3>2
      <4> QED
        BY <2>2, <2>4, <3>2, <4>2, <4>3 DEF OpenInv
    <3>3. CASE part = "network"
      <4>1. /\ open = {"logs", "client"} /\ deferred \in Seq(Infrastructure)
            /\ Len(deferred) = 2 /\ deferred[1] = "logs" /\ deferred[2] = "client"
        BY <2>1, <3>3 DEF OrderInv, OpenInv
      <4>2. open' = Infrastructure
        BY <2>1, <3>3, <4>1 DEF Infrastructure
      <4>3. /\ deferred' \in Seq(Infrastructure) /\ Len(deferred') = 3
            /\ deferred'[1] = "logs" /\ deferred'[2] = "client"
            /\ deferred'[3] = "network"
        <5>1. deferred' = Append(deferred, part) /\ deferred \in Seq(Infrastructure)
          BY <2>1, <4>1
        <5>2. /\ deferred' \in Seq(Infrastructure)
              /\ Len(deferred') = Len(deferred) + 1
              /\ Len(deferred) >= 1 => deferred'[1] = deferred[1]
              /\ Len(deferred) >= 2 => deferred'[2] = deferred[2]
              /\ deferred'[Len(deferred) + 1] = part
          BY <5>1, Appended
        <5> QED
          BY <4>1, <5>2, <3>3
      <4>4. deferred' \in Seq(Kinds \cup Infrastructure)
        BY <4>3
      <4>5. Stacked'
        BY <4>3, <4>4 DEF Stacked
      <4> QED
        BY <2>2, <2>4, <3>3, <4>2, <4>5 DEF OpenInv
    <3> QED
      BY <2>2, <3>1, <3>2, <3>3
  <2> QED
    BY <2>3, <2>5 DEF OrderInv
<1> QED
  BY <1>1, <1>2

LEMMA RunTestsKeeps == ASSUME OrderInv, RunTests PROVE OrderInv'
<1> USE MainAssumption DEF RunTests, IsIn, vars
<1>1. UNCHANGED <<at, open, deferred, left>> /\ pc[Main] = "body" /\ pc'[Main] = "run"
  OBVIOUS
<1>2. PlacesInv' /\ ActiveInv'
  BY <1>1 DEF OrderInv, PlacesInv, ActiveInv, MainPlaces, TestPlaces, Tests
<1>3. OpenInv'
  BY <1>1 DEF OrderInv, OpenInv, Stacked
<1> QED
  BY <1>2, <1>3 DEF OrderInv

LEMMA TestsDoneKeeps == ASSUME OrderInv, TestsDone PROVE OrderInv'
<1> USE MainAssumption DEF TestsDone, IsIn, MoveTo, vars
<1>1. /\ UNCHANGED <<at, open, deferred, left>> /\ at[Main] = "idle"
      /\ pc[Main] = "run" /\ pc' = [pc EXCEPT ![Main] = "deferred"]
      /\ \A t \in Tests : pc[t] = "ended"
  OBVIOUS
<1>2. PlacesInv' /\ ActiveInv'
  BY <1>1 DEF OrderInv, PlacesInv, ActiveInv, MainPlaces, TestPlaces, Tests
<1>3. OpenInv'
  BY <1>1 DEF OrderInv, PlacesInv, OpenInv, Stacked
<1> QED
  BY <1>2, <1>3 DEF OrderInv

LEMMA LockForCleanupKeeps == ASSUME OrderInv, LockForCleanup PROVE OrderInv'
<1> USE MainAssumption DEF LockForCleanup, IsIn, MoveTo, vars
<1>1. /\ UNCHANGED <<at, open, deferred>> /\ at[Main] = "idle" /\ left' = Len(deferred)
      /\ pc[Main] = "deferred" /\ pc' = [pc EXCEPT ![Main] = "teardown"]
  OBVIOUS
<1>2. PlacesInv' /\ ActiveInv'
  BY <1>1 DEF OrderInv, PlacesInv, ActiveInv, MainPlaces, TestPlaces, Tests
<1>3. OpenInv'
  BY <1>1 DEF OrderInv, PlacesInv, OpenInv, Stacked
<1> QED
  BY <1>2, <1>3 DEF OrderInv

\* Services are cleaned up while left is above the infrastructure.
LEMMA TeardownKeeps == ASSUME OrderInv, Teardown PROVE OrderInv'
<1> USE MainAssumption, KindsAssumption
<1>1. /\ UNCHANGED <<pc, deferred>> /\ at[Main] = "idle" /\ pc[Main] = "teardown"
      /\ left > 0 /\ left' = left - 1 /\ CallDeferred(deferred[left])
  BY DEF Teardown, IsIn
<1>2. Stacked /\ left \in 0 .. Len(deferred) /\ (left >= 3 => open = Infrastructure)
  BY <1>1 DEF OrderInv, OpenInv
<1>3. at' \in [Goroutines -> Steps] /\ \A h \in Goroutines : h # Main => at'[h] = at[h]
  BY <1>1 DEF CallDeferred, CleanupAll, CleanupServer, RemoveNetwork, Goto, vars,
     OrderInv, PlacesInv, Steps
<1>4. left >= 4 => open' = open
  <2> SUFFICES ASSUME left >= 4 PROVE open' = open
    OBVIOUS
  <2>1. deferred[left] \in Kinds
    BY <1>2 DEF Stacked
  <2> QED
    BY <1>1, <2>1 DEF CallDeferred, CleanupServer, Kinds
<1>5. left <= 3 => at' = at
  <2> SUFFICES ASSUME left <= 3 PROVE at' = at
    OBVIOUS
  <2>1. deferred[left] \in Infrastructure
    BY <1>1, <1>2 DEF Stacked, Infrastructure
  <2> QED
    BY <1>1, <2>1 DEF CallDeferred, RemoveNetwork, Infrastructure, vars
<1>6. PlacesInv' /\ ActiveInv'
  BY <1>1, <1>3 DEF OrderInv, PlacesInv, ActiveInv, Tests
<1>7. OpenInv'
  BY <1>1, <1>2, <1>4, <1>5 DEF OpenInv, Stacked
<1> QED
  BY <1>6, <1>7 DEF OrderInv

LEMMA TeardownDoneKeeps == ASSUME OrderInv, TeardownDone PROVE OrderInv'
<1> USE MainAssumption DEF TeardownDone, IsIn, MoveTo
<1>1. /\ UNCHANGED <<at, open, deferred, left>> /\ at[Main] = "idle"
      /\ pc[Main] = "teardown" /\ pc' = [pc EXCEPT ![Main] = "returned"]
  BY DEF worldVars
<1>2. PlacesInv' /\ ActiveInv'
  BY <1>1 DEF OrderInv, PlacesInv, ActiveInv, MainPlaces, TestPlaces, Tests
<1>3. OpenInv'
  BY <1>1 DEF OrderInv, PlacesInv, OpenInv
<1> QED
  BY <1>2, <1>3 DEF OrderInv

LEMMA NextOrderInv == OrderInv /\ [ITNext]_allVars => OrderInv'
<1>1. OrderInv /\ UNCHANGED allVars => OrderInv'
  BY DEF OrderInv, PlacesInv, ActiveInv, OpenInv, Stacked, allVars, vars, itVars
<1> QED
  BY <1>1, ProceedKeeps, NewITKeeps, RunTestsKeeps, TestsDoneKeeps, LockForCleanupKeeps,
     TeardownKeeps, TeardownDoneKeeps
  DEF ITNext, SetUp, TearDown, Ended

-----------------------------------------------------------------------------

\* In every reachable state.
THEOREM OrderInvariance == ITSpec => []OrderInv
  BY InitOrderInv, NextOrderInv, PTL DEF ITSpec

\* As long as anybody is inside a creator, the network, the client and the log
\* exist: IT.Cleanup calls their clean-ups last, and only when every test ended
\* and the clean-ups of the services returned.
THEOREM InfrastructureIsLast == ITSpec => []InfrastructureOutlivesUse
<1>1. OrderInv => InfrastructureOutlivesUse
  <2> SUFFICES ASSUME OrderInv, NEW g \in Goroutines, at[g] # "idle"
               PROVE  open = Infrastructure
    BY DEF InfrastructureOutlivesUse
  <2>1. CASE g = Main
    BY <2>1, MainAssumption DEF OrderInv, PlacesInv, ActiveInv, OpenInv, MainPlaces
  <2>2. CASE g # Main
    BY <2>2 DEF OrderInv, PlacesInv, ActiveInv, OpenInv, TestPlaces, Tests
  <2> QED
    BY <2>1, <2>2
<1> QED
  BY <1>1, OrderInvariance, PTL

-----------------------------------------------------------------------------
(* What DockerCreatorProofs says of the creators holds inside IT.          *)

\* A step outside the creators.
LEMMA ApartKeepsCreator ==
  ASSUME CreatorInv, UNCHANGED <<poolVars, worldVars, at, hand, todo>>,
         faults' \in Nat, process' \in {"up", "exited", "crashed", "done"}
  PROVE  CreatorInv'
  BY DEF CreatorInv, poolVars, worldVars, TypeOK, HandInv, ReturnedInv, KindInv, OwnInv,
     ContainerInv, FileInv, NumberInv, Name, RegisteredExists, ConfigOutlivesContainer

\* A panic outside the creators.
LEMMA PanicKeepsCreator ==
  ASSUME CreatorInv, NEW g \in Goroutines, at[g] = "idle", Goto(g, "panicked"), Fault,
         UNCHANGED <<poolVars, worldVars, hand, todo, process>>
  PROVE  CreatorInv'
  BY DEF CreatorInv, poolVars, worldVars, Goto, Fault, TypeOK, HandInv, ReturnedInv,
     KindInv, OwnInv, ContainerInv, FileInv, NumberInv, Name, RegisteredExists,
     ConfigOutlivesContainer, Before, After, Cleaning, Steps

\* A goroutine lets go of what it had in hand.
LEMMA UnwindKeepsCreator ==
  ASSUME CreatorInv, NEW g \in Goroutines, Unwind(g)
  PROVE  CreatorInv'
<1> USE NoneAssumption
    DEF CreatorInv, Unwind, IsAt, poolVars, worldVars, Before, After, Cleaning, Steps
<1>1. TypeOK' /\ HandInv' /\ ReturnedInv'
  BY DEF TypeOK, HandInv, ReturnedInv
<1>2. OwnInv'
  BY DEF TypeOK, HandInv, OwnInv
<1>3. /\ KindInv' /\ ContainerInv' /\ FileInv' /\ NumberInv' /\ RegisteredExists'
      /\ ConfigOutlivesContainer'
  BY DEF TypeOK, KindInv, ContainerInv, FileInv, NumberInv, Name, RegisteredExists,
     ConfigOutlivesContainer
<1> QED
  BY <1>1, <1>2, <1>3

\* Only the container of a server goes, which no creator has in hand.
LEMMA CleanupServerKeepsCreator ==
  ASSUME CreatorInv, NEW k \in Servers, CleanupServer(k)
  PROVE  CreatorInv'
<1> USE KindsAssumption
    DEF CreatorInv, CleanupServer, Fault, poolVars, Before, After, Cleaning
<1>1. containers' \subseteq containers
  OBVIOUS
<1>2. ContainerInv'
  <2>1. \A g \in Goroutines : at[g] \in After => hand[g] \in containers'
    BY DEF ContainerInv, OwnInv
  <2> QED
    BY <1>1, <2>1 DEF ContainerInv
<1>3. RegisteredExists'
  BY DEF ReturnedInv, RegisteredExists
<1>4. /\ TypeOK' /\ HandInv' /\ ReturnedInv' /\ KindInv' /\ OwnInv' /\ FileInv'
      /\ NumberInv' /\ ConfigOutlivesContainer'
  BY <1>1 DEF TypeOK, HandInv, ReturnedInv, KindInv, OwnInv, FileInv, NumberInv, Name,
     ConfigOutlivesContainer
<1> QED
  BY <1>2, <1>3, <1>4

LEMMA InCreatorKeepsCreator ==
  ASSUME CreatorInv, NEW g \in Goroutines, CreateStep(g) \/ CleanupStep(g) \/ CallFails(g)
  PROVE  CreatorInv'
<1>1. CASE CreateStep(g)
  BY <1>1, CreateConfigFileKeeps, WriteConfigFileKeeps, TakeNumberKeeps, PrepareKeeps,
     CreateContainerKeeps, StartContainerKeeps, AwaitReadyKeeps DEF CreateStep
<1>2. CASE CleanupStep(g)
  BY <1>2, DeleteFromRunningKeeps, RemoveContainerKeeps, RemoveConfigFileKeeps,
     CleanupNextKeeps DEF CleanupStep
<1> QED
  BY <1>1, <1>2, CallFailsKeeps

LEMMA GoroutineKeepsCreator ==
  ASSUME CreatorInv, NEW g \in Goroutines, Goroutine(g)
  PROVE  CreatorInv'
<1>1. CASE GetPool(g) \/ GetServer(g)
  BY <1>1, BeginKeeps, SameCreator DEF GetPool, GetServer, Kinds
<1>2. CASE NoBinary(g) \/ CreateDatabase(g)
  <2>1. CASE UNCHANGED <<poolVars, worldVars, at, hand, todo, faults, process>>
    BY <2>1, ApartKeepsCreator DEF CreatorInv, TypeOK
  <2>2. CASE Goto(g, "panicked") /\ Fault /\ at[g] = "idle"
    BY <1>2, <2>2, PanicKeepsCreator DEF NoBinary, CreateDatabase
  <2> QED
    BY <1>2, <2>1, <2>2 DEF NoBinary, CreateDatabase, IsIn
<1>3. CASE TestCleanup(g)
  <2>1. CASE UNCHANGED vars
    BY <2>1, SameCreator
  <2>2. ASSUME NEW i \in Instances, BeginCleanup(g, i)
        PROVE  CreatorInv'
    BY <2>2, BeginCleanupKeeps
  <2>3. CASE DropDatabase(g)
    BY <1>3, <2>1, <2>3, PanicKeepsCreator DEF TestCleanup, DropDatabase, IsIn
  <2> QED
    BY <1>3, <2>2, <2>3 DEF TestCleanup
<1>4. CASE TestDone(g)
  <2>1. process' \in {"up", "crashed"} /\ faults' \in Nat
    BY <1>4 DEF TestDone, IsIn, CreatorInv, TypeOK
  <2> QED
    BY <1>4, <2>1, ApartKeepsCreator DEF TestDone
<1>5. CASE EndTest(g) \/ \E k \in Kinds, withT \in BOOLEAN : Ask(g, k, withT)
  BY <1>5, SameCreator DEF EndTest, Ask
<1>6. CASE InCreator(g) \/ Receive(g) \/ Unwind(g)
  BY <1>6, InCreatorKeepsCreator, RegisterKeeps, UnwindKeepsCreator DEF InCreator, Receive
<1> QED
  BY <1>1, <1>2, <1>3, <1>4, <1>5, <1>6 DEF Goroutine, Proceed

LEMMA NextCreatorInv == CreatorInv /\ [ITNext]_allVars => CreatorInv'
<1> SUFFICES ASSUME CreatorInv, [ITNext]_allVars PROVE CreatorInv'
  OBVIOUS
<1>1. ASSUME NEW part \in Infrastructure, NewIT(part) PROVE CreatorInv'
  <2>1. process' \in {"up", "exited", "crashed"} /\ faults' \in Nat
    BY <1>1 DEF NewIT, IsIn, Fault, CreatorInv, TypeOK
  <2> QED
    BY <1>1, <2>1, ApartKeepsCreator DEF NewIT
<1>2. CASE RunTests \/ TestsDone \/ LockForCleanup \/ UNCHANGED allVars
  BY <1>2, SameCreator DEF RunTests, TestsDone, LockForCleanup, allVars
<1>3. CASE Teardown
  <2>1. PICK f : CallDeferred(f)
    BY <1>3 DEF Teardown
  <2>2. CASE f \in Pools /\ CleanupAll(Main, f)
    BY <2>2, MainAssumption, CleanupAllKeeps
  <2>3. CASE f \in Servers /\ CleanupServer(f)
    BY <2>3, CleanupServerKeepsCreator
  <2>4. CASE RemoveNetwork
    BY <2>4, ApartKeepsCreator DEF RemoveNetwork, Fault, CreatorInv, TypeOK
  <2>5. CASE UNCHANGED vars
    BY <2>5, SameCreator
  <2> QED
    BY <2>1, <2>2, <2>3, <2>4, <2>5 DEF CallDeferred
<1>4. CASE TeardownDone
  <2>1. process' \in {"crashed", "done"} /\ faults' \in Nat
    BY <1>4 DEF TeardownDone, CreatorInv, TypeOK
  <2> QED
    BY <1>4, <2>1, ApartKeepsCreator DEF TeardownDone
<1> QED
  BY <1>1, <1>2, <1>3, <1>4, GoroutineKeepsCreator
  DEF ITNext, SetUp, TearDown, Ended

-----------------------------------------------------------------------------
(* One server of each kind.                                                *)

\* While no one panicked, whoever has a server in hand holds IT.mutex, and the
\* server is not published yet; a server's container is published or in hand.
LockInv ==
  panicking = {} =>
    /\ \A g \in Goroutines :
         hand[g] # None /\ kind[hand[g]] \in Servers =>
           mutex = g /\ kind[hand[g]] \notin creator
    /\ \A i \in containers :
         kind[i] \in Servers => kind[i] \in creator \/ \E g \in Goroutines : hand[g] = i

LEMMA InitLockInv == ITInit => LockInv
  BY DEF ITInit, Init, LockInv

\* A step that takes nothing in hand, creates no container and lets neither
\* the mutex nor a published server go.
Settled ==
  /\ UNCHANGED <<kind, hand, mutex>> /\ containers' \subseteq containers
  /\ panicking' = panicking
  /\ creator' = creator

LEMMA SettledKeepsLock == ASSUME LockInv, Settled PROVE LockInv'
  BY DEF LockInv, Settled

LEMMA CreateStepKeepsLock ==
  ASSUME CreatorInv, LockInv, NEW g \in Goroutines, CreateStep(g), UNCHANGED itVars
  PROVE  LockInv'
<1>1. CASE CreateContainer(g) /\ ~UNCHANGED containers
  <2>1. UNCHANGED <<kind, hand, mutex, creator, panicking>>
    BY <1>1 DEF CreateContainer, poolVars, itVars
  <2>2. containers' = containers \cup {hand[g]}
    BY <1>1 DEF CreateContainer
  <2> QED
    BY <2>1, <2>2 DEF LockInv
<1>2. CASE UNCHANGED containers
  <2>1. UNCHANGED <<kind, hand>>
    BY DEF CreateStep, CreateConfigFile, WriteConfigFile, TakeNumber, Prepare,
       CreateContainer, StartContainer, AwaitReady, poolVars
  <2> QED
    BY <1>2, <2>1, SettledKeepsLock DEF Settled, itVars
<1> QED
  BY <1>1, <1>2
  DEF CreateStep, CreateConfigFile, WriteConfigFile, TakeNumber, Prepare, StartContainer,
      AwaitReady, worldVars

\* Instances of pools come and go as they like.
LEMMA PoolKeepsLock ==
  ASSUME CreatorInv, LockInv, NEW g \in Goroutines,
         hand[g] # None => kind[hand[g]] \in Pools,
         \A i \in Instances : kind[i] \in Kinds => kind'[i] = kind[i],
         containers' \subseteq containers,
         NEW h, hand' = [hand EXCEPT ![g] = h],
         h # None => kind'[h] \in Pools,
         creator \subseteq creator', creator' \subseteq creator \cup Pools,
         UNCHANGED <<mutex, panicking>>
  PROVE  LockInv'
<1> USE KindsAssumption
<1>1. /\ kind \in [Instances -> Kinds \cup {None}] /\ hand \in [Goroutines -> Instances \cup {None}]
      /\ containers \subseteq Instances
      /\ \A f \in Goroutines : hand[f] # None => kind[hand[f]] \in Kinds
      /\ \A i \in containers : kind[i] \in Kinds
  BY DEF CreatorInv, TypeOK, HandInv, KindInv
<1>2. SUFFICES ASSUME panicking = {}
      PROVE  /\ \A f \in Goroutines :
                  hand'[f] # None /\ kind'[hand'[f]] \in Servers =>
                    mutex = f /\ kind'[hand'[f]] \notin creator'
             /\ \A i \in containers' :
                  kind'[i] \in Servers =>
                    kind'[i] \in creator' \/ \E f \in Goroutines : hand'[f] = i
  BY DEF LockInv
<1>3. ASSUME NEW f \in Goroutines, hand'[f] # None, kind'[hand'[f]] \in Servers
      PROVE  mutex = f /\ kind'[hand'[f]] \notin creator'
  <2>1. f # g /\ hand'[f] = hand[f]
    BY <1>1, <1>3
  <2>2. kind'[hand[f]] = kind[hand[f]]
    BY <1>1, <1>3, <2>1
  <2> QED
    BY <1>2, <1>3, <2>1, <2>2 DEF LockInv
<1>4. ASSUME NEW i \in containers', kind'[i] \in Servers
      PROVE  kind'[i] \in creator' \/ \E f \in Goroutines : hand'[f] = i
  <2>1. i \in containers /\ i \in Instances /\ kind'[i] = kind[i]
    BY <1>1
  <2>2. CASE kind[i] \in creator
    BY <2>1, <2>2
  <2>3. ASSUME NEW f \in Goroutines, hand[f] = i PROVE hand'[f] = i
    <3>1. f # g
      BY <1>4, <2>1, <2>3, NoneAssumption
    <3> QED
      BY <1>1, <2>3, <3>1
  <2> QED
    BY <1>2, <1>4, <2>1, <2>2, <2>3 DEF LockInv
<1> QED
  BY <1>3, <1>4

LEMMA CleanupStepKeepsLock ==
  ASSUME CreatorInv, LockInv, NEW g \in Goroutines, CleanupStep(g), UNCHANGED itVars
  PROVE  LockInv'
<1>1. UNCHANGED kind /\ containers' \subseteq containers
  BY DEF CleanupStep, DeleteFromRunning, RemoveContainer, RemoveConfigFile, CleanupNext,
     poolVars, worldVars
<1>2. hand[g] # None => kind[hand[g]] \in Pools
  BY NoneAssumption
  DEF CleanupStep, DeleteFromRunning, RemoveContainer, RemoveConfigFile, CleanupNext,
      IsAt, CreatorInv, HandInv, Cleaning
<1>3. CASE UNCHANGED hand
  BY <1>1, <1>3, SettledKeepsLock DEF Settled, itVars
<1>4. CASE ~UNCHANGED hand
  <2>1. \/ hand' = [hand EXCEPT ![g] = None]
        \/ \E i \in todo[g] : hand' = [hand EXCEPT ![g] = i]
    BY <1>4 DEF CleanupStep, DeleteFromRunning, RemoveContainer, RemoveConfigFile, Finish,
       CleanupNext
  <2>2. \A i \in todo[g] : kind'[i] \in Pools
    BY <1>1 DEF CreatorInv, ReturnedInv
  <2>3. PICK h : hand' = [hand EXCEPT ![g] = h] /\ (h # None => kind'[h] \in Pools)
    BY <2>1, <2>2
  <2> QED
    BY <1>1, <1>2, <2>3, PoolKeepsLock DEF itVars
<1> QED
  BY <1>3, <1>4

\* A getter starts a server only with the mutex, and only the first one.
LEMMA GetServerKeepsLock ==
  ASSUME CreatorInv, LockInv, NEW g \in Goroutines, GetServer(g)
  PROVE  LockInv'
<1>1. CASE UNCHANGED <<vars, mutex>>
  BY <1>1, SettledKeepsLock DEF GetServer, Settled, vars
<1>2. CASE ~UNCHANGED <<vars, mutex>>
  <2> DEFINE k == want[g][1]
  <2>1. /\ mutex = None /\ mutex' = g /\ k \in Servers /\ k \notin creator
        /\ Begin(g, k) /\ UNCHANGED <<creator, panicking>>
    BY <1>2 DEF GetServer
  <2>2. PICK i \in Instances : /\ kind[i] = None /\ kind' = [kind EXCEPT ![i] = k]
                             /\ hand' = [hand EXCEPT ![g] = i]
    BY <2>1 DEF Begin
  <2>3. /\ hand[g] = None /\ i \notin containers /\ UNCHANGED containers
        /\ \A h \in Goroutines : hand[h] # i
    BY <2>1, <2>2, NoneAssumption
    DEF Begin, IsAt, CreatorInv, TypeOK, HandInv, KindInv, worldVars
  <2>4. /\ kind \in [Instances -> Kinds \cup {None}]
        /\ hand \in [Goroutines -> Instances \cup {None}]
        /\ containers \subseteq Instances
    BY DEF CreatorInv, TypeOK
  <2> HIDE DEF k
  <2>5. SUFFICES ASSUME panicking = {}
        PROVE  /\ \A f \in Goroutines :
                    hand'[f] # None /\ kind'[hand'[f]] \in Servers =>
                      mutex' = f /\ kind'[hand'[f]] \notin creator'
               /\ \A j \in containers' :
                    kind'[j] \in Servers =>
                      kind'[j] \in creator' \/ \E f \in Goroutines : hand'[f] = j
    BY <2>1 DEF LockInv
  <2>6. ASSUME NEW f \in Goroutines, hand'[f] # None, kind'[hand'[f]] \in Servers
        PROVE  mutex' = f /\ kind'[hand'[f]] \notin creator'
    <3>1. CASE f = g
      BY <2>1, <2>2, <2>4, <3>1
    <3>2. CASE f # g
      <4>1. hand'[f] = hand[f] /\ kind'[hand[f]] = kind[hand[f]]
        BY <2>2, <2>3, <2>4, <2>6, <3>2
      <4>2. mutex = f
        BY <2>5, <2>6, <4>1 DEF LockInv
      <4> QED
        BY <2>1, <4>2, NoneAssumption
    <3> QED
      BY <3>1, <3>2
  <2>7. ASSUME NEW j \in containers', kind'[j] \in Servers
        PROVE  kind'[j] \in creator' \/ \E f \in Goroutines : hand'[f] = j
    <3>1. j \in containers /\ j \in Instances /\ kind'[j] = kind[j]
      BY <2>2, <2>3, <2>4
    <3>2. ASSUME NEW f \in Goroutines, hand[f] = j PROVE hand'[f] = j
      BY <2>2, <2>3, <2>4, <3>1, <3>2, NoneAssumption
    <3> QED
      BY <2>1, <2>5, <2>7, <3>1, <3>2 DEF LockInv
  <2> QED
    BY <2>6, <2>7
<1> QED
  BY <1>1, <1>2

\* A server is published in the step that lets it and the mutex go.
LEMMA ReceiveKeepsLock ==
  ASSUME CreatorInv, LockInv, NEW g \in Goroutines, Receive(g)
  PROVE  LockInv'
<1>1. /\ UNCHANGED <<kind, containers, panicking>> /\ hand' = [hand EXCEPT ![g] = None]
      /\ hand[g] \in Instances /\ kind[hand[g]] \in Kinds
  BY NoneAssumption
  DEF Receive, Register, IsAt, worldVars, CreatorInv, TypeOK, HandInv
<1>2. CASE kind[hand[g]] \in Pools
  <2>1. UNCHANGED <<creator, mutex>>
    BY <1>2, KindsAssumption DEF Receive
  <2> QED
    BY <1>1, <1>2, <2>1, PoolKeepsLock
<1>3. CASE kind[hand[g]] \in Servers
  <2>1. creator' = creator \cup {kind[hand[g]]} /\ mutex' = None
    BY <1>3 DEF Receive
  <2>2. hand \in [Goroutines -> Instances \cup {None}] /\ hand[g] # None
    BY <1>1, NoneAssumption DEF CreatorInv, TypeOK
  <2>3. panicking = {} => mutex = g
    BY <1>3, <2>2 DEF LockInv
  <2>4. \A f \in Goroutines : hand'[f] # None => f # g /\ hand'[f] = hand[f]
    BY <1>1, <2>2
  <2>5. ASSUME panicking = {}, NEW f \in Goroutines, hand'[f] # None,
               kind[hand'[f]] \in Servers
        PROVE  FALSE
    BY <2>3, <2>4, <2>5 DEF LockInv
  <2>6. ASSUME panicking = {}, NEW i \in containers, kind[i] \in Servers
        PROVE  kind[i] \in creator' \/ \E f \in Goroutines : hand'[f] = i
    <3>1. CASE i = hand[g]
      BY <2>1, <3>1
    <3>2. ASSUME NEW f \in Goroutines, hand[f] = i, i # hand[g] PROVE hand'[f] = i
      BY <1>1, <2>2, <3>2
    <3> QED
      BY <2>1, <2>6, <3>1, <3>2 DEF LockInv
  <2> QED
    BY <1>1, <2>5, <2>6 DEF LockInv
<1> QED
  BY <1>1, <1>2, <1>3 DEF Kinds

LEMMA GoroutineKeepsLock ==
  ASSUME CreatorInv, LockInv, NEW g \in Goroutines, Goroutine(g)
  PROVE  LockInv'
<1>1. CASE NoBinary(g) \/ CreateDatabase(g) \/ TestDone(g) \/ EndTest(g)
           \/ \E k \in Kinds, withT \in BOOLEAN : Ask(g, k, withT)
  BY <1>1, SettledKeepsLock
  DEF NoBinary, CreateDatabase, TestDone, EndTest, Ask, Settled, vars, poolVars, worldVars
<1>2. CASE GetPool(g)
  <2>1. /\ want[g][1] \in Pools /\ Begin(g, want[g][1])
        /\ creator' = creator \cup {want[g][1]} /\ UNCHANGED <<mutex, panicking>>
    BY <1>2 DEF GetPool
  <2>2. PICK i \in Instances : /\ kind[i] = None /\ kind' = [kind EXCEPT ![i] = want[g][1]]
                             /\ hand' = [hand EXCEPT ![g] = i]
    BY <2>1 DEF Begin
  <2>3. /\ hand[g] = None /\ kind'[i] \in Pools /\ containers' = containers
        /\ \A j \in Instances : kind[j] \in Kinds => kind'[j] = kind[j]
    BY <2>1, <2>2, NoneAssumption
    DEF Begin, IsAt, CreatorInv, TypeOK, HandInv, worldVars
  <2> QED
    BY <2>1, <2>2, <2>3, PoolKeepsLock
<1>3. CASE InCreator(g)
  <2>1. CASE CallFails(g)
    BY <1>3, <2>1, SettledKeepsLock
    DEF InCreator, CallFails, Settled, itVars, poolVars, worldVars
  <2> QED
    BY <1>3, <2>1, CreateStepKeepsLock, CleanupStepKeepsLock DEF InCreator
<1>4. CASE TestCleanup(g)
  <2>1. CASE UNCHANGED <<kind, hand, containers>>
    BY <1>4, <2>1, SettledKeepsLock DEF TestCleanup, Settled
  <2>2. ASSUME NEW i \in Instances, BeginCleanup(g, i) PROVE LockInv'
    <3>1. /\ hand[g] = None /\ hand' = [hand EXCEPT ![g] = i] /\ kind[i] \in Pools
          /\ UNCHANGED <<kind, containers, creator, mutex, panicking>>
      BY <1>4, <2>2
      DEF TestCleanup, BeginCleanup, IsAt, CreatorInv, HandInv, poolVars, worldVars
    <3> QED
      BY <3>1, PoolKeepsLock
  <2> QED
    BY <1>4, <2>1, <2>2 DEF TestCleanup, DropDatabase, vars, poolVars, worldVars
<1>5. CASE Unwind(g)
  BY <1>5 DEF Unwind, LockInv
<1> QED
  BY <1>1, <1>2, <1>3, <1>4, <1>5, GetServerKeepsLock, ReceiveKeepsLock
  DEF Goroutine, Proceed

LEMMA NextLockInv ==
  ASSUME OrderInv, CreatorInv, LockInv, [ITNext]_allVars
  PROVE  LockInv'
<1>1. CASE SetUp \/ RunTests \/ TestsDone \/ Teardown \/ UNCHANGED allVars
  BY <1>1, SettledKeepsLock
  DEF SetUp, NewIT, RunTests, TestsDone, Teardown, CallDeferred, CleanupAll, CleanupServer,
      RemoveNetwork, Settled, allVars, vars, itVars, poolVars, worldVars
<1>2. CASE LockForCleanup
  BY <1>2, NoneAssumption DEF LockForCleanup, LockInv, vars
<1>3. CASE TeardownDone
  <2>1. \A g \in Goroutines : at[g] = "idle"
    BY <1>3 DEF TeardownDone, IsIn, OrderInv, PlacesInv, ActiveInv, Tests, TestPlaces
  <2>2. \A g \in Goroutines : hand'[g] = None
    BY <1>3, <2>1 DEF TeardownDone, CreatorInv, HandInv
  <2> QED
    BY <1>3, <2>1, <2>2 DEF TeardownDone, LockInv, CreatorInv, HandInv, poolVars, worldVars
<1> QED
  BY <1>1, <1>2, <1>3, GoroutineKeepsLock DEF ITNext, TearDown, Ended

LEMMA CreatorAndLock == ITSpec => [](OrderInv /\ CreatorInv /\ LockInv)
<1>1. ITInit => OrderInv /\ CreatorInv /\ LockInv
  BY InitOrderInv, InitIInv, InitLockInv DEF ITInit, IInv
<1>2. OrderInv /\ CreatorInv /\ LockInv /\ [ITNext]_allVars
        => (OrderInv /\ CreatorInv /\ LockInv)'
  BY NextOrderInv, NextCreatorInv, NextLockInv
<1> QED
  BY <1>1, <1>2, PTL DEF ITSpec

\* A container's name is never in use when the creator asks Docker for it, as
\* long as no one panicked: the counters tell the instances of a pool apart, and
\* a getter starts a server under the mutex, when none was published.
THEOREM OneServerOfAKind == ITSpec => []SingleServer
<1>1. CreatorInv /\ LockInv => SingleServer
  <2> SUFFICES ASSUME CreatorInv, LockInv, panicking = {}, NEW g \in Goroutines,
                      at[g] = "create", NEW j \in containers, Name(j) = Name(hand[g])
               PROVE  FALSE
    BY DEF SingleServer, NameTaken
  <2>1. /\ hand[g] \in Instances \ containers /\ hand[g] # None /\ j \in Instances
        /\ kind[j] = kind[hand[g]] /\ kind[j] \in Kinds /\ number[j] = number[hand[g]]
    BY NoneAssumption DEF CreatorInv, TypeOK, HandInv, ContainerInv, Before, Name
  <2>2. CASE kind[j] \in Pools
    BY <2>1, <2>2 DEF CreatorInv, NumberInv, Name
  <2>3. CASE kind[j] \in Servers
    <3>1. mutex = g /\ kind[j] \notin creator
      BY <2>1, <2>3 DEF LockInv
    <3>2. PICK h \in Goroutines : hand[h] = j
      BY <2>3, <3>1 DEF LockInv
    <3>3. mutex = h
      BY <2>1, <2>3, <3>2, NoneAssumption DEF LockInv
    <3> QED
      BY <2>1, <3>1, <3>2, <3>3
  <2> QED
    BY <2>1, <2>2, <2>3 DEF Kinds
<1> QED
  BY <1>1, CreatorAndLock, PTL

-----------------------------------------------------------------------------
(* One removal of each instance.                                           *)

\* A service is asked for with a t by tests only, a database only of a server.
WantInv ==
  /\ want \in [Goroutines -> (Kinds \X BOOLEAN) \cup {None}]
  /\ \A g \in Goroutines : pc[g] \in {"get", "database"} =>
       want[g] \in Kinds \X BOOLEAN /\ (want[g][2] => g \in Tests)
  /\ \A g \in Goroutines : pc[g] = "database" => want[g][1] \in Servers

\* No instance is in a list of clean-ups twice.
Once(s) == \A m, n \in DOMAIN s : s[m] \in Instances /\ s[m] = s[n] => m = n

\* What a test registered are instances of its own that are still listed;
\* TestMain registers nothing.
BoundInv ==
  /\ cleanups \in [Goroutines -> Seq(Instances \cup Servers)]
  /\ cleanups[Main] = <<>>
  /\ \A g \in Goroutines :
       /\ pc[g] \in {"waiting", "ended"} => cleanups[g] = <<>>
       /\ Once(cleanups[g])
       /\ \A i \in Instances \cap Range(cleanups[g]) : i \in running /\ owner[i] = g

\* A listed instance that is bound to a test waits for the test's clean-up.
BelongsInv ==
  /\ owner \in [Instances -> Tests \cup {None}]
  /\ \A i \in running : owner[i] # None =>
       \/ i \in Range(cleanups[owner[i]])
       \/ at[owner[i]] = "delete" /\ hand[owner[i]] = i
  /\ \A g \in Goroutines :
       at[g] \in Before \cup After /\ kind[hand[g]] \in Pools => owner[hand[g]] \in {g, None}

\* A test cleans up its own instances, TestMain those of no test.
CleanerInv ==
  /\ \A g \in Goroutines : at[g] \in Cleaning =>
       /\ owner[hand[g]] = IF g = Main THEN None ELSE g
       /\ at[g] = "delete" => hand[g] \in running /\ hand[g] \notin Range(cleanups[g])
       /\ at[g] = "remove" => hand[g] \in containers
       /\ at[g] = "unlink" => hand[g] \in files
  /\ \A i \in todo[Main] : i \in running /\ owner[i] = None
  /\ at[Main] \in Cleaning => hand[Main] \notin todo[Main]
  /\ \A g \in Tests : todo[g] = {}

OwnerInv == BoundInv /\ BelongsInv /\ CleanerInv

\* A list with one more entry, and without its last one.
LEMMA AppendedOnce ==
  ASSUME NEW S, NEW s \in Seq(S), NEW e \in S, Once(s), e \in Instances => e \notin Range(s)
  PROVE  /\ Append(s, e) \in Seq(S) /\ Once(Append(s, e))
         /\ Range(Append(s, e)) = Range(s) \cup {e}
<1>1. /\ Append(s, e) \in Seq(S) /\ Len(Append(s, e)) = Len(s) + 1
      /\ DOMAIN Append(s, e) = 1 .. Len(s) + 1 /\ DOMAIN s = 1 .. Len(s)
      /\ \A n \in 1 .. Len(s) : Append(s, e)[n] = s[n]
      /\ Append(s, e)[Len(s) + 1] = e
      /\ Len(s) \in Nat
  OBVIOUS
<1>2. Range(Append(s, e)) = Range(s) \cup {e}
  BY <1>1 DEF Range
<1>3. \A n \in 1 .. Len(s) : s[n] \in Range(s)
  BY <1>1 DEF Range
<1>4. Once(Append(s, e))
  BY <1>1, <1>3 DEF Once
<1> QED
  BY <1>1, <1>2, <1>4

LEMMA FrontOnce ==
  ASSUME NEW S, NEW s \in Seq(S), s # <<>>, Once(s)
  PROVE  /\ Front(s) \in Seq(S) /\ Once(Front(s)) /\ Last(s) \in S
         /\ Range(s) = Range(Front(s)) \cup {Last(s)}
         /\ Last(s) \in Instances => Last(s) \notin Range(Front(s))
<1>1. /\ Len(s) \in Nat /\ Len(s) >= 1 /\ DOMAIN s = 1 .. Len(s)
      /\ \A n \in 1 .. Len(s) : s[n] \in S
  OBVIOUS
<1>2. /\ Front(s) \in Seq(S) /\ Len(Front(s)) = Len(s) - 1
      /\ DOMAIN Front(s) = 1 .. Len(s) - 1
      /\ \A n \in 1 .. Len(s) - 1 : Front(s)[n] = s[n]
  BY <1>1 DEF Front
<1>3. Last(s) = s[Len(s)]
  BY DEF Last
<1>4. Range(s) = Range(Front(s)) \cup {Last(s)}
  BY <1>1, <1>2, <1>3 DEF Range
<1>5. Once(Front(s))
  BY <1>1, <1>2 DEF Once
<1>6. Last(s) \in Instances => Last(s) \notin Range(Front(s))
  BY <1>1, <1>2, <1>3 DEF Once, Range
<1> QED
  BY <1>1, <1>2, <1>3, <1>4, <1>5, <1>6

LEMMA NextWantInv ==
  ASSUME OrderInv, WantInv, [ITNext]_allVars
  PROVE  WantInv'
<1> USE NoneAssumption, MainAssumption DEF WantInv, IsIn, MoveTo, Tests
<1>1. pc \in [Goroutines -> MainPlaces \cup TestPlaces]
  BY DEF OrderInv, PlacesInv
<1>2. ASSUME NEW g \in Goroutines, NEW k \in Kinds, NEW withT \in BOOLEAN, Ask(g, k, withT)
      PROVE  WantInv'
  <2>1. /\ pc' = [pc EXCEPT ![g] = "get"] /\ want' = [want EXCEPT ![g] = <<k, withT>>]
        /\ withT => g \in Tests
    BY <1>2 DEF Ask
  <2>2. <<k, withT>> \in Kinds \X BOOLEAN /\ <<k, withT>>[2] = withT
    OBVIOUS
  <2>3. want' \in [Goroutines -> (Kinds \X BOOLEAN) \cup {None}]
    BY <2>1, <2>2
  <2>4. ASSUME NEW h \in Goroutines, pc'[h] \in {"get", "database"}
        PROVE  /\ want'[h] \in Kinds \X BOOLEAN /\ (want'[h][2] => h \in Tests)
               /\ pc'[h] = "database" => want'[h][1] \in Servers
    BY <1>1, <2>1, <2>2, <2>4
  <2> QED
    BY <2>3, <2>4
<1>3. ASSUME NEW g \in Goroutines, NoBinary(g) \/ GetPool(g) \/ CreateDatabase(g)
      PROVE  WantInv'
  BY <1>1, <1>3 DEF NoBinary, GetPool, CreateDatabase
<1>4. ASSUME NEW g \in Goroutines,
             InCreator(g) \/ Receive(g) \/ TestCleanup(g) \/ TestDone(g) \/ Unwind(g)
               \/ GetServer(g) \/ EndTest(g)
      PROVE  WantInv'
  BY <1>1, <1>4
  DEF InCreator, Receive, TestCleanup, TestDone, Unwind, GetServer, EndTest, itVars
<1>5. CASE RunTests \/ TearDown \/ UNCHANGED allVars
  BY <1>1, <1>5
  DEF RunTests, TearDown, TestsDone, LockForCleanup, Teardown, TeardownDone, allVars, itVars
<1>6. ASSUME NEW part \in Infrastructure, NewIT(part)
      PROVE  WantInv'
  <2>1. want' = want
    BY <1>6 DEF NewIT
  <2>2. \A g \in Goroutines : pc'[g] \in {"get", "database"} => pc[g] = pc'[g]
    BY <1>1, <1>6 DEF NewIT, Infrastructure
  <2> QED
    BY <2>1, <2>2
<1> QED
  BY <1>2, <1>3, <1>4, <1>5, <1>6 DEF ITNext, SetUp, Goroutine, Proceed, Ended

LEMMA InitOwnerInv == ITInit => WantInv /\ OwnerInv
  BY MainAssumption, NoneAssumption
  DEF ITInit, Init, WantInv, OwnerInv, BoundInv, BelongsInv, CleanerInv, Once, Range,
      Tests, Before, After, Cleaning

\* A step that neither lists, binds, hands over nor cleans up an instance.
Aside ==
  /\ UNCHANGED <<kind, owner, cleanups, running, todo, hand>>
  /\ \A g \in Goroutines :
       /\ at'[g] \in Before \cup After => at[g] \in Before \cup After
       /\ at'[g] \in Cleaning => at'[g] = at[g]
       /\ at[g] = "delete" => at'[g] = "delete"
       /\ pc'[g] \in {"waiting", "ended"} => cleanups[g] = <<>>
       /\ at[g] = "remove" /\ hand[g] \in containers => hand[g] \in containers'
       /\ at[g] = "unlink" /\ hand[g] \in files => hand[g] \in files'

LEMMA AsideKeepsOwner == ASSUME CreatorInv, OwnerInv, Aside PROVE OwnerInv'
<1> USE MainAssumption, NoneAssumption DEF Aside, OwnerInv
<1>1. BoundInv'
  BY DEF BoundInv
<1>2. BelongsInv'
  BY DEF CreatorInv, TypeOK, BelongsInv, Tests
<1>3. CleanerInv'
  BY DEF CleanerInv, BelongsInv, Tests, Cleaning
<1> QED
  BY <1>1, <1>2, <1>3

LEMMA CreateStepKeepsOwner ==
  ASSUME OrderInv, CreatorInv, OwnerInv, NEW g \in Goroutines, CreateStep(g), UNCHANGED itVars
  PROVE  OwnerInv'
<1>1. /\ UNCHANGED <<kind, running, todo, hand, pc, owner, cleanups>>
      /\ containers \subseteq containers' /\ files \subseteq files'
  BY DEF CreateStep, CreateConfigFile, WriteConfigFile, TakeNumber, Prepare, CreateContainer,
     StartContainer, AwaitReady, poolVars, worldVars, itVars
<1>2. at[g] \in Before \cup After
  BY DEF CreateStep, CreateConfigFile, WriteConfigFile, TakeNumber, Prepare, CreateContainer,
     StartContainer, AwaitReady, IsAt, Before, After
<1>3. \E step \in Before \cup After : at' = [at EXCEPT ![g] = step]
  <2>1. at \in [Goroutines -> Steps]
    BY DEF CreatorInv, TypeOK
  <2>2. CASE UNCHANGED at
    BY <1>2, <2>1, <2>2
  <2> QED
    BY <2>2
    DEF CreateStep, CreateConfigFile, WriteConfigFile, TakeNumber, Prepare, CreateContainer,
        StartContainer, AwaitReady, Goto, Before, After
<1>4. at \in [Goroutines -> Steps]
  BY DEF CreatorInv, TypeOK
<1>5. Aside
  BY <1>1, <1>2, <1>3, <1>4 DEF Aside, Before, After, Cleaning, OwnerInv, BoundInv
<1> QED
  BY <1>5, AsideKeepsOwner

LEMMA CallFailsKeepsOwner ==
  ASSUME OrderInv, CreatorInv, OwnerInv, NEW g \in Goroutines, CallFails(g), UNCHANGED itVars
  PROVE  OwnerInv'
<1>1. /\ UNCHANGED <<kind, running, todo, hand, pc, owner, cleanups, containers, files>>
      /\ at' = at \/ at' = [at EXCEPT ![g] = "panicked"]
      /\ at[g] # "delete"
  BY DEF CallFails, FailureMode, Goto, poolVars, worldVars, itVars
<1>2. at \in [Goroutines -> Steps]
  BY DEF CreatorInv, TypeOK
<1>3. Aside
  BY <1>1, <1>2 DEF Aside, Before, After, Cleaning, OwnerInv, BoundInv
<1> QED
  BY <1>3, AsideKeepsOwner

\* A new instance is nobody's but its creator's.
LEMMA BeginKeepsOwner ==
  ASSUME CreatorInv, OwnerInv, NEW g \in Goroutines, NEW k \in Kinds, Begin(g, k),
         k \in Pools => \E o \in {g, None} \cap (Tests \cup {None}) :
                          owner' = [owner EXCEPT ![hand'[g]] = o],
         k \in Servers => owner' = owner,
         \A h \in Goroutines : pc'[h] \in {"waiting", "ended"} => pc[h] = pc'[h],
         UNCHANGED cleanups
  PROVE  OwnerInv'
<1> USE MainAssumption, NoneAssumption, KindsAssumption DEF OwnerInv
<1>1. PICK i \in Instances : /\ kind[i] = None /\ kind' = [kind EXCEPT ![i] = k]
                             /\ hand' = [hand EXCEPT ![g] = i]
  BY DEF Begin
<1>2. /\ UNCHANGED <<running, containers, files, todo, cleanups>>
      /\ at' = [at EXCEPT ![g] = FirstStep(k)] /\ at[g] = "idle"
      /\ FirstStep(k) \in Before
      /\ FirstStep(k) \notin Cleaning
  BY DEF Begin, IsAt, Goto, worldVars, FirstStep, Before, Cleaning
<1>3. /\ kind \in [Instances -> Kinds \cup {None}]
      /\ hand \in [Goroutines -> Instances \cup {None}]
      /\ at \in [Goroutines -> Steps] /\ running \subseteq Instances
  BY DEF CreatorInv, TypeOK
<1>4. i \notin running /\ i \notin todo[Main] /\ \A h \in Goroutines : hand[h] # i
  BY <1>1, <1>3 DEF CreatorInv, HandInv, ReturnedInv, KindInv
<1>5. /\ owner' \in [Instances -> Tests \cup {None}]
      /\ \A j \in Instances : j # i => owner'[j] = owner[j]
      /\ k \in Pools => owner'[i] \in {g, None}
  <2>1. owner \in [Instances -> Tests \cup {None}]
    BY DEF BelongsInv
  <2>2. hand'[g] = i
    BY <1>1, <1>3
  <2> QED
    BY <1>1, <2>1, <2>2 DEF Kinds
<1>6. BoundInv'
  <2>1. ASSUME NEW h \in Goroutines
        PROVE  /\ pc'[h] \in {"waiting", "ended"} => cleanups[h] = <<>>
               /\ Once(cleanups[h])
               /\ \A j \in Instances \cap Range(cleanups[h]) : j \in running /\ owner'[j] = h
    BY <1>4, <1>5 DEF BoundInv
  <2> QED
    BY <1>2, <2>1 DEF BoundInv
<1>7. BelongsInv'
  <2>1. \A j \in running' : owner'[j] # None =>
          \/ j \in Range(cleanups'[owner'[j]])
          \/ at'[owner'[j]] = "delete" /\ hand'[owner'[j]] = j
    <3> SUFFICES ASSUME NEW j \in running, owner[j] # None
                 PROVE  \/ j \in Range(cleanups[owner[j]])
                        \/ at'[owner[j]] = "delete" /\ hand'[owner[j]] = j
      BY <1>2, <1>3, <1>4, <1>5
    <3>1. owner[j] \in Goroutines
      BY <1>3 DEF BelongsInv, Tests
    <3>2. CASE at[owner[j]] = "delete" /\ hand[owner[j]] = j
      <4>1. owner[j] # g
        BY <1>2, <3>2
      <4> QED
        BY <1>1, <1>2, <1>3, <3>1, <3>2, <4>1
    <3> QED
      BY <3>2 DEF BelongsInv
  <2>2. \A h \in Goroutines :
          at'[h] \in Before \cup After /\ kind'[hand'[h]] \in Pools =>
            owner'[hand'[h]] \in {h, None}
    <3> SUFFICES ASSUME NEW h \in Goroutines, at'[h] \in Before \cup After,
                        kind'[hand'[h]] \in Pools
                 PROVE  owner'[hand'[h]] \in {h, None}
      OBVIOUS
    <3>1. CASE h = g
      BY <1>1, <1>3, <1>5, <3>1
    <3>2. CASE h # g
      <4>1. at'[h] = at[h] /\ hand'[h] = hand[h]
        BY <1>1, <1>2, <1>3, <3>2
      <4>2. hand[h] \in Instances /\ hand[h] # i
        BY <1>3, <1>4, <4>1 DEF CreatorInv, HandInv, Before, After
      <4>3. kind'[hand[h]] = kind[hand[h]] /\ owner'[hand[h]] = owner[hand[h]]
        BY <1>1, <1>3, <1>5, <4>2
      <4> QED
        BY <4>1, <4>3 DEF BelongsInv
    <3> QED
      BY <3>1, <3>2
  <2> QED
    BY <1>5, <2>1, <2>2 DEF BelongsInv
<1>8. CleanerInv'
  <2>1. ASSUME NEW h \in Goroutines, at'[h] \in Cleaning
        PROVE  /\ h # g /\ at'[h] = at[h] /\ hand'[h] = hand[h]
               /\ hand[h] \in Instances /\ owner'[hand[h]] = owner[hand[h]]
    <3>1. h # g
      BY <1>2, <1>3, <2>1
    <3>2. at'[h] = at[h] /\ hand'[h] = hand[h]
      BY <1>1, <1>2, <1>3, <3>1
    <3>3. hand[h] \in Instances /\ hand[h] # i
      BY <1>3, <1>4, <2>1, <3>2 DEF CreatorInv, HandInv, Cleaning
    <3> QED
      BY <1>5, <3>1, <3>2, <3>3
  <2>2. \A j \in todo[Main] : owner'[j] = owner[j]
    BY <1>3, <1>4, <1>5 DEF CleanerInv
  <2> QED
    BY <1>2, <2>1, <2>2 DEF CleanerInv
<1> QED
  BY <1>6, <1>7, <1>8

\* No two goroutines clean up the same instance.
LEMMA CleanersDiffer ==
  ASSUME CleanerInv, NEW g \in Goroutines, NEW h \in Goroutines,
         at[g] \in Cleaning, at[h] \in Cleaning, hand[g] = hand[h]
  PROVE  g = h
  BY NoneAssumption DEF CleanerInv

\* The map loses the instance, which is in no list any more.
LEMMA DeleteKeepsOwner ==
  ASSUME CreatorInv, OwnerInv, NEW g \in Goroutines, DeleteFromRunning(g), UNCHANGED itVars
  PROVE  OwnerInv'
<1> USE MainAssumption, NoneAssumption DEF OwnerInv, itVars
<1>1. /\ UNCHANGED <<kind, hand, todo, containers, files>>
      /\ running' = running \ {hand[g]}
      /\ at[g] = "delete" /\ at' = [at EXCEPT ![g] = "remove"]
  BY DEF DeleteFromRunning, IsAt, Goto, worldVars
<1>2. /\ at \in [Goroutines -> Steps] /\ running \subseteq Instances
      /\ hand \in [Goroutines -> Instances \cup {None}]
  BY DEF CreatorInv, TypeOK
<1>3. /\ owner[hand[g]] = IF g = Main THEN None ELSE g
      /\ hand[g] \in running /\ hand[g] \notin Range(cleanups[g])
  BY <1>1 DEF CleanerInv, Cleaning
<1>4. BoundInv'
  <2>1. ASSUME NEW h \in Goroutines, NEW i \in Instances \cap Range(cleanups[h])
        PROVE  i \in running' /\ owner[i] = h
    <3>1. i \in running /\ owner[i] = h
      BY DEF BoundInv
    <3>2. i # hand[g]
      BY <1>3, <3>1
    <3> QED
      BY <1>1, <3>1, <3>2
  <2> QED
    BY <1>1, <2>1 DEF BoundInv
<1>5. BelongsInv'
  <2>1. ASSUME NEW i \in running', owner[i] # None
        PROVE  \/ i \in Range(cleanups[owner[i]])
               \/ at'[owner[i]] = "delete" /\ hand[owner[i]] = i
    <3>1. i \in running /\ i # hand[g] /\ owner[i] \in Goroutines
      BY <1>1, <1>2, <2>1 DEF BelongsInv, Tests
    <3>2. CASE at[owner[i]] = "delete" /\ hand[owner[i]] = i
      BY <1>1, <1>2, <3>1, <3>2
    <3> QED
      BY <2>1, <3>1, <3>2 DEF BelongsInv
  <2>2. \A h \in Goroutines : at'[h] \in Before \cup After => at[h] \in Before \cup After
    BY <1>1, <1>2 DEF Before, After
  <2> QED
    BY <1>1, <2>1, <2>2 DEF BelongsInv
<1>6. CleanerInv'
  <2>1. ASSUME NEW h \in Goroutines, at'[h] \in Cleaning
        PROVE  /\ owner[hand[h]] = IF h = Main THEN None ELSE h
               /\ at'[h] = "delete" => hand[h] \in running' /\ hand[h] \notin Range(cleanups[h])
               /\ at'[h] = "remove" => hand[h] \in containers
               /\ at'[h] = "unlink" => hand[h] \in files
    <3>1. CASE h = g
      BY <1>1, <1>2, <1>3, <3>1 DEF CreatorInv, RegisteredExists
    <3>2. CASE h # g
      <4>1. at'[h] = at[h] /\ at[h] \in Cleaning /\ at[g] \in Cleaning
        BY <1>1, <1>2, <2>1, <3>2 DEF Cleaning
      <4>2. hand[h] # hand[g]
        BY <3>2, <4>1, CleanersDiffer
      <4> QED
        BY <1>1, <4>1, <4>2 DEF CleanerInv
    <3> QED
      BY <3>1, <3>2
  <2>2. ASSUME NEW i \in todo[Main]
        PROVE  i \in running' /\ owner[i] = None
    <3>1. i # hand[g]
      BY <1>1, <1>3 DEF CleanerInv, Cleaning
    <3> QED
      BY <1>1, <3>1 DEF CleanerInv
  <2>3. at'[Main] \in Cleaning => at[Main] \in Cleaning
    BY <1>1, <1>2 DEF Cleaning
  <2> QED
    BY <1>1, <2>1, <2>2, <2>3 DEF CleanerInv
<1> QED
  BY <1>4, <1>5, <1>6

\* The container or the file goes, or the cleaner panics.
LEMMA RemoveKeepsOwner ==
  ASSUME CreatorInv, OwnerInv, NEW g \in Goroutines,
         RemoveContainer(g) \/ RemoveConfigFile(g), UNCHANGED itVars
  PROVE  OwnerInv'
<1> USE MainAssumption, NoneAssumption DEF OwnerInv, itVars
<1>1. /\ UNCHANGED <<kind, running, todo>>
      /\ at[g] \in {"remove", "unlink"}
      /\ \/ at' = [at EXCEPT ![g] = "panicked"] /\ hand' = hand
         \/ at' = [at EXCEPT ![g] = "loop"] /\ hand' = [hand EXCEPT ![g] = None]
         \/ /\ at' = [at EXCEPT ![g] = "unlink"] /\ hand' = hand
            /\ hand[g] \in containers /\ kind[hand[g]] = "icingadb" /\ files' = files
  BY DEF RemoveContainer, RemoveConfigFile, Finish, IsAt, Goto, poolVars
<1>2. /\ containers \ {hand[g]} \subseteq containers' /\ files \ {hand[g]} \subseteq files'
  BY DEF RemoveContainer, RemoveConfigFile
<1>3. /\ at \in [Goroutines -> Steps] /\ running \subseteq Instances
      /\ hand \in [Goroutines -> Instances \cup {None}]
  BY DEF CreatorInv, TypeOK
<1>4. \A h \in Goroutines : h # g => at'[h] = at[h] /\ hand'[h] = hand[h]
  BY <1>1, <1>3
<1>5. at'[g] \in {"panicked", "loop", "unlink"}
  BY <1>1, <1>3
<1>6. BoundInv'
  BY <1>1 DEF BoundInv
<1>7. BelongsInv'
  <2>1. ASSUME NEW i \in running, owner[i] # None
        PROVE  \/ i \in Range(cleanups[owner[i]])
               \/ at'[owner[i]] = "delete" /\ hand'[owner[i]] = i
    <3>1. owner[i] \in Goroutines
      BY <1>3, <2>1 DEF BelongsInv, Tests
    <3>2. CASE at[owner[i]] = "delete" /\ hand[owner[i]] = i
      <4>1. owner[i] # g
        BY <1>1, <3>2
      <4> QED
        BY <1>4, <3>1, <3>2, <4>1
    <3> QED
      BY <2>1, <3>2 DEF BelongsInv
  <2>2. \A h \in Goroutines : at'[h] \in Before \cup After =>
          h # g /\ at[h] \in Before \cup After
    BY <1>4, <1>5 DEF Before, After
  <2> QED
    BY <1>1, <1>4, <2>1, <2>2 DEF BelongsInv
<1>8. CleanerInv'
  <2>1. ASSUME NEW h \in Goroutines, at'[h] \in Cleaning
        PROVE  /\ at[h] \in Cleaning
               /\ owner[hand'[h]] = IF h = Main THEN None ELSE h
               /\ at'[h] = "delete" => hand'[h] \in running /\ hand'[h] \notin Range(cleanups[h])
               /\ at'[h] = "remove" => hand'[h] \in containers'
               /\ at'[h] = "unlink" => hand'[h] \in files'
    <3>1. CASE h = g
      <4>1. /\ at'[g] = "unlink" /\ hand'[g] = hand[g] /\ files' = files
            /\ hand[g] \in containers /\ kind[hand[g]] = "icingadb"
        BY <1>1, <1>3, <2>1, <3>1 DEF Cleaning
      <4>2. hand[g] \in files
        BY <4>1 DEF CreatorInv, ConfigOutlivesContainer
      <4> QED
        BY <1>1, <3>1, <4>1, <4>2 DEF CleanerInv, Cleaning
    <3>2. CASE h # g
      <4>1. /\ at'[h] = at[h] /\ hand'[h] = hand[h]
            /\ at[h] \in Cleaning /\ at[g] \in Cleaning
        BY <1>1, <1>4, <2>1, <3>2 DEF Cleaning
      <4>2. hand[h] # hand[g]
        BY <3>2, <4>1, CleanersDiffer
      <4> QED
        BY <1>2, <4>1, <4>2 DEF CleanerInv
    <3> QED
      BY <3>1, <3>2
  <2>2. at'[Main] \in Cleaning => at[Main] \in Cleaning /\ hand'[Main] = hand[Main]
    BY <1>1, <1>3, <1>4 DEF Cleaning
  <2> QED
    BY <1>1, <2>1, <2>2 DEF CleanerInv
<1> QED
  BY <1>6, <1>7, <1>8

\* Only TestMain has instances left to clean up in a loop.
LEMMA LoopKeepsOwner ==
  ASSUME CreatorInv, OwnerInv, NEW g \in Goroutines, CleanupNext(g), UNCHANGED itVars
  PROVE  OwnerInv'
<1> USE MainAssumption, NoneAssumption DEF OwnerInv, itVars
<1>1. /\ at \in [Goroutines -> Steps] /\ running \subseteq Instances
      /\ hand \in [Goroutines -> Instances \cup {None}]
      /\ todo \in [Goroutines -> SUBSET Instances]
  BY DEF CreatorInv, TypeOK
<1>2. /\ UNCHANGED <<kind, running, containers, files>> /\ at[g] = "loop"
  BY DEF CleanupNext, IsAt, poolVars, worldVars
<1>3. CASE at' = [at EXCEPT ![g] = "idle"] /\ UNCHANGED <<todo, hand>>
  <2>1. Aside
    BY <1>1, <1>2, <1>3 DEF Aside, Before, After, Cleaning, BoundInv
  <2> QED
    BY <2>1, AsideKeepsOwner
<1>4. ASSUME NEW i \in todo[g],
             todo' = [todo EXCEPT ![g] = @ \ {i}], hand' = [hand EXCEPT ![g] = i],
             at' = [at EXCEPT ![g] = "delete"]
      PROVE  OwnerInv'
  <2>1. g = Main
    BY <1>4 DEF CleanerInv, Tests
  <2>2. i \in running /\ owner[i] = None
    BY <1>4, <2>1 DEF CleanerInv
  <2>3. /\ at'[Main] = "delete" /\ hand'[Main] = i /\ todo'[Main] = todo[Main] \ {i}
        /\ \A h \in Tests : at'[h] = at[h] /\ hand'[h] = hand[h] /\ todo'[h] = todo[h]
    BY <1>1, <1>4, <2>1 DEF Tests
  <2>4. BoundInv'
    BY <1>2 DEF BoundInv
  <2>5. BelongsInv'
    <3>1. ASSUME NEW j \in running, owner[j] # None
          PROVE  \/ j \in Range(cleanups[owner[j]])
                 \/ at'[owner[j]] = "delete" /\ hand'[owner[j]] = j
      <4>1. owner[j] \in Tests
        BY <1>1, <3>1 DEF BelongsInv
      <4> QED
        BY <2>3, <3>1, <4>1 DEF BelongsInv
    <3>2. \A h \in Goroutines : at'[h] \in Before \cup After =>
            at[h] \in Before \cup After /\ hand'[h] = hand[h]
      BY <2>3 DEF Before, After, Tests
    <3> QED
      BY <1>2, <3>1, <3>2 DEF BelongsInv
  <2>6. CleanerInv'
    <3>1. i \notin Range(cleanups[Main])
      BY DEF BoundInv, Range
    <3> QED
      BY <1>2, <2>2, <2>3, <3>1 DEF CleanerInv, Cleaning, Tests
  <2> QED
    BY <2>4, <2>5, <2>6
<1> QED
  BY <1>3, <1>4 DEF CleanupNext, Goto

\* The deferred Cleanup of a creator finds no instance that belongs to a test:
\* every test has ended, and with it its clean-ups.
LEMMA CleanupAllKeepsOwner ==
  ASSUME OrderInv, CreatorInv, OwnerInv, NEW k \in Pools, IsIn(Main, "teardown"),
         CleanupAll(Main, k), UNCHANGED <<pc, cleanups, owner>>
  PROVE  OwnerInv'
<1> USE MainAssumption, NoneAssumption DEF OwnerInv
<1>1. /\ UNCHANGED <<kind, running, containers, files, hand>>
      /\ todo' = [todo EXCEPT ![Main] = {i \in running : kind[i] = k}]
      /\ at[Main] = "idle" /\ at' = [at EXCEPT ![Main] = "loop"]
  BY DEF CleanupAll, IsAt, Goto, poolVars, worldVars
<1>2. /\ at \in [Goroutines -> Steps] /\ running \subseteq Instances
      /\ todo \in [Goroutines -> SUBSET Instances]
  BY DEF CreatorInv, TypeOK
<1>3. \A t \in Tests : pc[t] \in {"waiting", "ended"} /\ at[t] = "idle"
  BY DEF IsIn, OrderInv, PlacesInv, ActiveInv, Tests
<1>4. \A i \in running : owner[i] = None
  <2> SUFFICES ASSUME NEW i \in running, owner[i] # None PROVE FALSE
    OBVIOUS
  <2>1. owner[i] \in Tests /\ owner[i] \in Goroutines
    BY <1>2 DEF BelongsInv, Tests
  <2>2. cleanups[owner[i]] = <<>> /\ at[owner[i]] = "idle"
    BY <1>3, <2>1 DEF BoundInv
  <2>3. i \in Range(cleanups[owner[i]])
    BY <2>2 DEF BelongsInv
  <2> QED
    BY <2>2, <2>3 DEF Range
<1>5. BoundInv'
  BY <1>1 DEF BoundInv
<1>6. BelongsInv'
  BY <1>1, <1>2, <1>4 DEF BelongsInv, Before, After
<1>7. CleanerInv'
  BY <1>1, <1>2, <1>4 DEF CleanerInv, Cleaning, Tests
<1> QED
  BY <1>5, <1>6, <1>7

\* A new instance is listed, and bound to the test that asked for it with a t.
LEMMA ReceiveKeepsOwner ==
  ASSUME OrderInv, CreatorInv, OwnerInv, NEW g \in Goroutines, Receive(g)
  PROVE  OwnerInv'
<1> USE MainAssumption, NoneAssumption, KindsAssumption DEF OwnerInv
<1> DEFINE i == hand[g]
<1>1. /\ UNCHANGED <<kind, containers, files, todo, pc, owner>>
      /\ at[g] = "register" /\ at' = [at EXCEPT ![g] = "idle"]
      /\ hand' = [hand EXCEPT ![g] = None]
      /\ running' = IF kind[i] \in Pools THEN running \cup {i} ELSE running
  BY DEF Receive, Register, IsAt, Goto, worldVars
<1>2. /\ at \in [Goroutines -> Steps] /\ running \subseteq returned
      /\ hand \in [Goroutines -> Instances \cup {None}]
      /\ returned \subseteq Instances
  BY DEF CreatorInv, TypeOK, ReturnedInv
<1>3. /\ i \in Instances \ running /\ kind[i] \in Kinds
      /\ kind[i] \in Pools => owner[i] \in {g, None}
  BY <1>1, <1>2 DEF CreatorInv, HandInv, OwnInv, BelongsInv, After, Before
<1>4. pc[g] \notin {"waiting", "ended"}
  BY <1>1 DEF OrderInv, ActiveInv
<1>5. \A h \in Goroutines : h # g => at'[h] = at[h] /\ hand'[h] = hand[h]
  BY <1>1, <1>2
<1>6. at'[g] = "idle"
  BY <1>1, <1>2
<1>7. \A h \in Goroutines : i \notin Range(cleanups[h])
  BY <1>3 DEF BoundInv
<1>8. owner \in [Instances -> Tests \cup {None}]
  BY DEF BelongsInv
<1> HIDE DEF i
<1>9. \/ /\ kind[i] \in Pools /\ owner[i] = g /\ cleanups' = [cleanups EXCEPT ![g] = Append(@, i)]
      \/ (kind[i] \in Pools => owner[i] = None) /\ cleanups' = cleanups
  BY <1>3, <1>8 DEF Receive, Kinds, Tests, i
<1>10. /\ running \subseteq running' /\ running' \subseteq running \cup {i}
       /\ i \in running' => kind[i] \in Pools
  BY <1>1, <1>3
<1>11. CASE /\ kind[i] \in Pools /\ owner[i] = g
            /\ cleanups' = [cleanups EXCEPT ![g] = Append(@, i)]
  <2>1. /\ Append(cleanups[g], i) \in Seq(Instances \cup Servers)
        /\ Once(Append(cleanups[g], i))
        /\ Range(Append(cleanups[g], i)) = Range(cleanups[g]) \cup {i}
    BY <1>3, <1>7, AppendedOnce DEF BoundInv
  <2>2. g \in Tests
    BY <1>3, <1>8, <1>11
  <2>3. /\ cleanups' \in [Goroutines -> Seq(Instances \cup Servers)]
        /\ cleanups'[g] = Append(cleanups[g], i)
        /\ \A h \in Goroutines : h # g => cleanups'[h] = cleanups[h]
    BY <1>11, <2>1 DEF BoundInv
  <2>4. /\ \A h \in Goroutines : Range(cleanups[h]) \subseteq Range(cleanups'[h])
        /\ Range(cleanups'[g]) = Range(cleanups[g]) \cup {i}
    BY <2>1, <2>3
  <2>5. i \in running'
    BY <1>1, <1>11 DEF i
  <2>6. BoundInv'
    <3>1. cleanups'[Main] = <<>>
      BY <2>2, <2>3 DEF BoundInv, Tests
    <3>2. ASSUME NEW h \in Goroutines
          PROVE  /\ pc'[h] \in {"waiting", "ended"} => cleanups'[h] = <<>>
                 /\ Once(cleanups'[h])
      <4>1. CASE h = g
        BY <1>1, <1>4, <2>1, <2>3, <4>1
      <4>2. CASE h # g
        <5>1. cleanups'[h] = cleanups[h]
          BY <2>3, <4>2
        <5> QED
          BY <1>1, <5>1 DEF BoundInv
      <4> QED
        BY <4>1, <4>2
    <3>3. ASSUME NEW h \in Goroutines, NEW j \in Instances \cap Range(cleanups'[h])
          PROVE  j \in running' /\ owner'[j] = h
      BY <1>1, <1>10, <1>11, <2>3, <2>4, <2>5 DEF BoundInv
    <3> QED
      BY <2>3, <3>1, <3>2, <3>3 DEF BoundInv
  <2>7. BelongsInv'
    <3>1. ASSUME NEW j \in running', owner[j] # None
          PROVE  \/ j \in Range(cleanups'[owner[j]])
                 \/ at'[owner[j]] = "delete" /\ hand'[owner[j]] = j
      <4>1. CASE j = i
        BY <1>11, <2>4, <4>1
      <4>2. CASE j # i
        <5>1. j \in running /\ owner[j] \in Goroutines
          BY <1>2, <1>8, <1>10, <3>1, <4>2 DEF Tests
        <5>2. CASE at[owner[j]] = "delete" /\ hand[owner[j]] = j
          BY <1>1, <1>5, <5>1, <5>2
        <5> QED
          BY <2>4, <3>1, <5>1, <5>2 DEF BelongsInv
      <4> QED
        BY <4>1, <4>2
    <3>2. ASSUME NEW h \in Goroutines, at'[h] \in Before \cup After
          PROVE  hand'[h] = hand[h] /\ at[h] \in Before \cup After
      BY <1>5, <1>6, <3>2 DEF Before, After
    <3> QED
      BY <1>1, <3>1, <3>2 DEF BelongsInv
  <2>8. CleanerInv'
    <3>1. ASSUME NEW h \in Goroutines, at'[h] \in Cleaning
          PROVE  /\ at'[h] = at[h] /\ hand'[h] = hand[h] /\ cleanups'[h] = cleanups[h]
                 /\ at[h] \in Cleaning
      BY <1>5, <1>6, <2>3, <3>1 DEF Cleaning
    <3> QED
      BY <1>1, <1>10, <3>1 DEF CleanerInv
  <2> QED
    BY <2>6, <2>7, <2>8
<1>12. CASE (kind[i] \in Pools => owner[i] = None) /\ cleanups' = cleanups
  <2>1. BoundInv'
    BY <1>1, <1>10, <1>12 DEF BoundInv
  <2>2. BelongsInv'
    <3>1. ASSUME NEW j \in running', owner[j] # None
          PROVE  \/ j \in Range(cleanups[owner[j]])
                 \/ at'[owner[j]] = "delete" /\ hand'[owner[j]] = j
      <4>1. j \in running /\ owner[j] \in Goroutines
        BY <1>2, <1>8, <1>10, <1>12, <3>1 DEF Tests
      <4>2. CASE at[owner[j]] = "delete" /\ hand[owner[j]] = j
        BY <1>1, <1>5, <4>1, <4>2
      <4> QED
        BY <3>1, <4>1, <4>2 DEF BelongsInv
    <3>2. ASSUME NEW h \in Goroutines, at'[h] \in Before \cup After
          PROVE  hand'[h] = hand[h] /\ at[h] \in Before \cup After
      BY <1>5, <1>6, <3>2 DEF Before, After
    <3> QED
      BY <1>1, <1>12, <3>1, <3>2 DEF BelongsInv
  <2>3. CleanerInv'
    <3>1. ASSUME NEW h \in Goroutines, at'[h] \in Cleaning
          PROVE  at'[h] = at[h] /\ hand'[h] = hand[h] /\ at[h] \in Cleaning
      BY <1>5, <1>6, <3>1 DEF Cleaning
    <3> QED
      BY <1>1, <1>10, <1>12, <3>1 DEF CleanerInv
  <2> QED
    BY <2>1, <2>2, <2>3
<1> QED
  BY <1>9, <1>11, <1>12

\* A step that only adds or takes the clean-up of a database.
DatabaseStep(g) ==
  /\ UNCHANGED <<kind, owner, running, todo, hand, containers, files>>
  /\ at' = at \/ (at[g] = "idle" /\ at' = [at EXCEPT ![g] = "panicked"])
  /\ cleanups' \in [Goroutines -> Seq(Instances \cup Servers)]
  /\ \A h \in Goroutines : h # g => cleanups'[h] = cleanups[h] /\ pc'[h] = pc[h]
  /\ Once(cleanups'[g])
  /\ Instances \cap Range(cleanups'[g]) = Instances \cap Range(cleanups[g])
  /\ g = Main => cleanups'[g] = <<>>
  /\ pc'[g] \notin {"waiting", "ended"}

LEMMA DatabaseStepKeepsOwner ==
  ASSUME CreatorInv, OwnerInv, NEW g \in Goroutines, DatabaseStep(g)
  PROVE  OwnerInv'
<1> USE MainAssumption, NoneAssumption DEF OwnerInv, DatabaseStep
<1>1. /\ at \in [Goroutines -> Steps] /\ running \subseteq Instances
      /\ hand \in [Goroutines -> Instances \cup {None}]
  BY DEF CreatorInv, TypeOK
<1>2. \A h \in Goroutines :
        Instances \cap Range(cleanups'[h]) = Instances \cap Range(cleanups[h])
  OBVIOUS
<1>3. \A h \in Goroutines : at'[h] = at[h] \/ (at[h] = "idle" /\ at'[h] = "panicked")
  BY <1>1
<1>4. BoundInv'
  <2>1. ASSUME NEW h \in Goroutines
        PROVE  /\ pc'[h] \in {"waiting", "ended"} => cleanups'[h] = <<>>
               /\ Once(cleanups'[h])
    BY DEF BoundInv
  <2>2. cleanups'[Main] = <<>>
    BY DEF BoundInv
  <2>3. ASSUME NEW h \in Goroutines, NEW j \in Instances \cap Range(cleanups'[h])
        PROVE  j \in running' /\ owner'[j] = h
    BY <1>2 DEF BoundInv
  <2> QED
    BY <2>1, <2>2, <2>3 DEF BoundInv
<1>5. BelongsInv'
  <2>1. ASSUME NEW j \in running, owner[j] # None
        PROVE  \/ j \in Range(cleanups'[owner[j]])
               \/ at'[owner[j]] = "delete" /\ hand[owner[j]] = j
    <3>1. j \in Instances /\ owner[j] \in Goroutines
      BY <1>1, <2>1 DEF BelongsInv, Tests
    <3> QED
      BY <1>2, <1>3, <2>1, <3>1 DEF BelongsInv
  <2>2. \A h \in Goroutines : at'[h] \in Before \cup After => at[h] = at'[h]
    BY <1>3 DEF Before, After
  <2> QED
    BY <2>1, <2>2 DEF BelongsInv
<1>6. CleanerInv'
  <2>1. \A h \in Goroutines : at'[h] \in Cleaning => at'[h] = at[h] /\ hand[h] \in Instances
    BY <1>1, <1>3 DEF Cleaning, CreatorInv, HandInv
  <2>2. \A h \in Goroutines : at'[h] \in Cleaning =>
          (hand[h] \in Range(cleanups'[h]) <=> hand[h] \in Range(cleanups[h]))
    BY <1>2, <2>1
  <2> QED
    BY <2>1, <2>2 DEF CleanerInv
<1> QED
  BY <1>4, <1>5, <1>6

LEMMA CreateDatabaseKeepsOwner ==
  ASSUME OrderInv, CreatorInv, WantInv, OwnerInv, NEW g \in Goroutines, CreateDatabase(g),
         want[g][1] \in Servers
  PROVE  OwnerInv'
<1> USE MainAssumption, NoneAssumption, DistinctAssumption
<1>1. /\ UNCHANGED <<kind, owner, running, todo, hand, containers, files>>
      /\ at' = at \/ (at[g] = "idle" /\ at' = [at EXCEPT ![g] = "panicked"])
      /\ pc[g] = "database" /\ pc' = [pc EXCEPT ![g] = "body"]
  BY DEF CreateDatabase, IsIn, MoveTo, Goto, poolVars, worldVars
<1>2. pc \in [Goroutines -> MainPlaces \cup TestPlaces]
  BY DEF OrderInv, PlacesInv
<1>3. /\ cleanups \in [Goroutines -> Seq(Instances \cup Servers)]
      /\ cleanups[Main] = <<>> /\ Once(cleanups[g])
  BY DEF OwnerInv, BoundInv
<1>4. CASE cleanups' = cleanups
  <2>1. DatabaseStep(g)
    BY <1>1, <1>2, <1>3, <1>4 DEF DatabaseStep
  <2> QED
    BY <2>1, DatabaseStepKeepsOwner
<1>5. CASE want[g][2] /\ cleanups' = [cleanups EXCEPT ![g] = Append(@, want[g][1])]
  <2>1. g \in Tests
    BY <1>1, <1>5 DEF WantInv
  <2>2. want[g][1] \in (Instances \cup Servers) \ Instances
    BY DEF Kinds
  <2>3. /\ Append(cleanups[g], want[g][1]) \in Seq(Instances \cup Servers)
        /\ Once(Append(cleanups[g], want[g][1]))
        /\ Range(Append(cleanups[g], want[g][1])) = Range(cleanups[g]) \cup {want[g][1]}
    BY <1>3, <2>2, AppendedOnce
  <2>4. /\ cleanups' \in [Goroutines -> Seq(Instances \cup Servers)]
        /\ cleanups'[g] = Append(cleanups[g], want[g][1])
        /\ \A h \in Goroutines : h # g => cleanups'[h] = cleanups[h]
    BY <1>3, <1>5, <2>3
  <2>5. Instances \cap Range(cleanups'[g]) = Instances \cap Range(cleanups[g])
    BY <2>2, <2>3, <2>4
  <2>6. /\ pc'[g] \notin {"waiting", "ended"} /\ g # Main
        /\ \A h \in Goroutines : h # g => pc'[h] = pc[h]
    BY <1>1, <1>2, <2>1 DEF Tests
  <2>7. DatabaseStep(g)
    BY <1>1, <2>3, <2>4, <2>5, <2>6 DEF DatabaseStep
  <2> QED
    BY <2>7, DatabaseStepKeepsOwner
<1> QED
  BY <1>4, <1>5 DEF CreateDatabase

\* The last registered clean-up leaves the list when it runs.
LEMMA TestCleanupKeepsOwner ==
  ASSUME OrderInv, CreatorInv, OwnerInv, NEW g \in Goroutines, TestCleanup(g)
  PROVE  OwnerInv'
<1> USE MainAssumption, NoneAssumption, DistinctAssumption
<1> DEFINE f == Last(cleanups[g])
<1>1. /\ UNCHANGED <<pc, owner>> /\ pc[g] = "ending" /\ at[g] = "idle"
      /\ cleanups[g] # <<>> /\ cleanups' = [cleanups EXCEPT ![g] = Front(@)]
      /\ (f \in Instances /\ BeginCleanup(g, f)) \/ (f \in Servers /\ DropDatabase(g))
  BY DEF TestCleanup, IsIn
<1>2. g \in Tests /\ g # Main
  BY <1>1 DEF OrderInv, PlacesInv, MainPlaces, Tests
<1>3. cleanups \in [Goroutines -> Seq(Instances \cup Servers)] /\ Once(cleanups[g])
  BY DEF OwnerInv, BoundInv
<1>4. /\ Front(cleanups[g]) \in Seq(Instances \cup Servers) /\ Once(Front(cleanups[g]))
      /\ Range(cleanups[g]) = Range(Front(cleanups[g])) \cup {f}
      /\ f \in Instances => f \notin Range(Front(cleanups[g]))
  BY <1>1, <1>3, FrontOnce
<1>5. /\ cleanups' \in [Goroutines -> Seq(Instances \cup Servers)]
      /\ cleanups'[g] = Front(cleanups[g])
      /\ \A h \in Goroutines : h # g => cleanups'[h] = cleanups[h]
  BY <1>1, <1>3, <1>4
<1> HIDE DEF f
<1>6. CASE f \in Servers /\ DropDatabase(g)
  <2>1. /\ UNCHANGED <<kind, running, todo, hand, containers, files>>
        /\ at' = at \/ (at[g] = "idle" /\ at' = [at EXCEPT ![g] = "panicked"])
    BY <1>1, <1>6 DEF DropDatabase, Goto, vars, poolVars, worldVars
  <2>2. f \notin Instances
    BY <1>6 DEF Kinds
  <2>3. DatabaseStep(g)
    BY <1>1, <1>2, <1>4, <1>5, <2>1, <2>2 DEF DatabaseStep
  <2> QED
    BY <2>3, DatabaseStepKeepsOwner
<1>7. CASE f \in Instances /\ BeginCleanup(g, f)
  <2> USE DEF OwnerInv
  <2>1. /\ UNCHANGED <<kind, running, containers, files, todo>>
        /\ hand' = [hand EXCEPT ![g] = f] /\ at' = [at EXCEPT ![g] = "delete"]
    BY <1>7 DEF BeginCleanup, Goto, poolVars, worldVars
  <2>2. /\ at \in [Goroutines -> Steps] /\ running \subseteq Instances
        /\ hand \in [Goroutines -> Instances \cup {None}]
    BY DEF CreatorInv, TypeOK
  <2>3. f \in running /\ owner[f] = g
    BY <1>4, <1>7 DEF BoundInv
  <2>4. /\ at'[g] = "delete" /\ hand'[g] = f
        /\ \A h \in Goroutines : h # g => at'[h] = at[h] /\ hand'[h] = hand[h]
    BY <2>1, <2>2
  <2>5. BoundInv'
    <3>1. ASSUME NEW h \in Goroutines
          PROVE  /\ pc'[h] \in {"waiting", "ended"} => cleanups'[h] = <<>>
                 /\ Once(cleanups'[h])
      <4>1. CASE h = g
        BY <1>1, <1>4, <1>5, <4>1
      <4>2. CASE h # g
        <5>1. cleanups'[h] = cleanups[h]
          BY <1>5, <4>2
        <5> QED
          BY <1>1, <5>1 DEF BoundInv
      <4> QED
        BY <4>1, <4>2
    <3>2. \A h \in Goroutines : Range(cleanups'[h]) \subseteq Range(cleanups[h])
      BY <1>4, <1>5
    <3>3. ASSUME NEW h \in Goroutines, NEW j \in Instances \cap Range(cleanups'[h])
          PROVE  j \in running' /\ owner'[j] = h
      BY <1>1, <2>1, <3>2 DEF BoundInv
    <3>4. cleanups'[Main] = <<>>
      <4>1. cleanups'[Main] = cleanups[Main]
        BY <1>2, <1>5
      <4> QED
        BY <4>1 DEF BoundInv
    <3> QED
      BY <1>5, <3>1, <3>3, <3>4 DEF BoundInv
  <2>6. BelongsInv'
    <3>1. ASSUME NEW j \in running, owner[j] # None
          PROVE  \/ j \in Range(cleanups'[owner[j]])
                 \/ at'[owner[j]] = "delete" /\ hand'[owner[j]] = j
      <4>1. owner[j] \in Goroutines
        BY <2>2, <3>1 DEF BelongsInv, Tests
      <4>2. CASE owner[j] = g
        <5>1. j \in Range(cleanups[g])
          BY <1>1, <3>1, <4>2 DEF BelongsInv
        <5> QED
          BY <1>4, <1>5, <2>4, <4>2, <5>1
      <4>3. CASE owner[j] # g
        <5>1. /\ at'[owner[j]] = at[owner[j]] /\ hand'[owner[j]] = hand[owner[j]]
              /\ cleanups'[owner[j]] = cleanups[owner[j]]
          BY <1>5, <2>4, <4>1, <4>3
        <5> QED
          BY <3>1, <5>1 DEF BelongsInv
      <4> QED
        BY <4>2, <4>3
    <3>2. \A h \in Goroutines : at'[h] \in Before \cup After =>
            at[h] \in Before \cup After /\ hand'[h] = hand[h]
      BY <2>4 DEF Before, After
    <3> QED
      BY <1>1, <2>1, <3>1, <3>2 DEF BelongsInv
  <2>7. CleanerInv'
    <3>1. ASSUME NEW h \in Goroutines, at'[h] \in Cleaning, h # g
          PROVE  /\ at'[h] = at[h] /\ hand'[h] = hand[h]
                 /\ cleanups'[h] = cleanups[h] /\ at[h] \in Cleaning
      BY <1>5, <2>4, <3>1
    <3>2. f \notin Range(cleanups'[g])
      BY <1>4, <1>5, <1>7
    <3>3. ASSUME NEW h \in Goroutines, at'[h] \in Cleaning
          PROVE  /\ owner[hand'[h]] = IF h = Main THEN None ELSE h
                 /\ at'[h] = "delete" =>
                      hand'[h] \in running /\ hand'[h] \notin Range(cleanups'[h])
                 /\ at'[h] = "remove" => hand'[h] \in containers
                 /\ at'[h] = "unlink" => hand'[h] \in files
      <4>1. CASE h = g
        BY <1>2, <2>3, <2>4, <3>2, <4>1
      <4>2. CASE h # g
        <5>1. /\ at'[h] = at[h] /\ hand'[h] = hand[h]
              /\ cleanups'[h] = cleanups[h] /\ at[h] \in Cleaning
          BY <3>1, <3>3, <4>2
        <5> QED
          BY <5>1 DEF CleanerInv
      <4> QED
        BY <4>1, <4>2
    <3>4. at'[Main] \in Cleaning => at[Main] \in Cleaning /\ hand'[Main] = hand[Main]
      BY <1>2, <2>4
    <3> QED
      BY <1>1, <2>1, <3>3, <3>4 DEF CleanerInv
  <2> QED
    BY <2>5, <2>6, <2>7
<1> QED
  BY <1>1, <1>6, <1>7

\* Whoever panicked had taken its instance off every list.
LEMMA UnwindKeepsOwner ==
  ASSUME OrderInv, CreatorInv, OwnerInv, NEW g \in Goroutines, Unwind(g)
  PROVE  OwnerInv'
<1> USE MainAssumption, NoneAssumption DEF OwnerInv
<1>1. /\ UNCHANGED <<kind, running, containers, files, owner, cleanups>>
      /\ at[g] = "panicked" /\ at' = [at EXCEPT ![g] = "idle"]
      /\ hand' = [hand EXCEPT ![g] = None] /\ todo' = [todo EXCEPT ![g] = {}]
      /\ pc' = IF pc[g] = "teardown" THEN pc
               ELSE [pc EXCEPT ![g] = IF g = Main THEN "deferred" ELSE "ending"]
  BY DEF Unwind, IsAt, MoveTo, poolVars, worldVars
<1>2. /\ at \in [Goroutines -> Steps] /\ running \subseteq Instances
      /\ hand \in [Goroutines -> Instances \cup {None}]
      /\ todo \in [Goroutines -> SUBSET Instances]
      /\ pc \in [Goroutines -> MainPlaces \cup TestPlaces]
  BY DEF CreatorInv, TypeOK, OrderInv, PlacesInv
<1>3. /\ at'[g] = "idle" /\ todo'[g] = {}
      /\ \A h \in Goroutines : h # g =>
           at'[h] = at[h] /\ hand'[h] = hand[h] /\ todo'[h] = todo[h]
      /\ \A h \in Goroutines : pc'[h] \in {"waiting", "ended"} => pc'[h] = pc[h]
  BY <1>1, <1>2
<1>4. BoundInv'
  BY <1>1, <1>3 DEF BoundInv
<1>5. BelongsInv'
  <2>1. ASSUME NEW j \in running, owner[j] # None
        PROVE  \/ j \in Range(cleanups[owner[j]])
               \/ at'[owner[j]] = "delete" /\ hand'[owner[j]] = j
    <3>1. owner[j] \in Goroutines
      BY <1>2, <2>1 DEF BelongsInv, Tests
    <3>2. CASE at[owner[j]] = "delete" /\ hand[owner[j]] = j
      <4>1. owner[j] # g
        BY <1>1, <3>2
      <4> QED
        BY <1>3, <3>1, <3>2, <4>1
    <3> QED
      BY <2>1, <3>2 DEF BelongsInv
  <2>2. \A h \in Goroutines : at'[h] \in Before \cup After =>
          at'[h] = at[h] /\ hand'[h] = hand[h]
    BY <1>3 DEF Before, After
  <2> QED
    BY <1>1, <2>1, <2>2 DEF BelongsInv
<1>6. CleanerInv'
  <2>1. \A h \in Goroutines : at'[h] \in Cleaning =>
          at'[h] = at[h] /\ hand'[h] = hand[h] /\ todo'[h] = todo[h]
    BY <1>3 DEF Cleaning
  <2>2. \A h \in Goroutines : todo'[h] \subseteq todo[h]
    BY <1>3
  <2> QED
    BY <1>1, <2>1, <2>2 DEF CleanerInv, Tests
<1> QED
  BY <1>4, <1>5, <1>6

LEMMA GoroutineKeepsOwner ==
  ASSUME OrderInv, CreatorInv, WantInv, OwnerInv, NEW g \in Goroutines, Goroutine(g)
  PROVE  OwnerInv'
<1> USE MainAssumption
<1>1. /\ at \in [Goroutines -> Steps] /\ pc \in [Goroutines -> MainPlaces \cup TestPlaces]
      /\ owner \in [Instances -> Tests \cup {None}]
      /\ cleanups \in [Goroutines -> Seq(Instances \cup Servers)]
      /\ \A h \in Goroutines : pc[h] \in {"waiting", "ended"} => cleanups[h] = <<>>
  BY DEF OrderInv, PlacesInv, OwnerInv, BelongsInv, BoundInv
<1>2. CASE NoBinary(g) \/ TestDone(g) \/ EndTest(g)
           \/ \E k \in Kinds, withT \in BOOLEAN : Ask(g, k, withT)
  <2>1. UNCHANGED <<kind, owner, cleanups, running, todo, hand, containers, files>>
    BY <1>2 DEF NoBinary, TestDone, EndTest, Ask, vars, poolVars, worldVars
  <2>2. at' = at \/ (at[g] = "idle" /\ at' = [at EXCEPT ![g] = "panicked"])
    BY <1>2 DEF NoBinary, TestDone, EndTest, Ask, IsIn, Goto, vars
  <2>3. \/ pc' = [pc EXCEPT ![g] = "body"]
        \/ pc' = [pc EXCEPT ![g] = "ending"]
        \/ pc' = [pc EXCEPT ![g] = "get"]
        \/ pc' = [pc EXCEPT ![g] = "ended"] /\ cleanups[g] = <<>>
    BY <1>2 DEF NoBinary, TestDone, EndTest, Ask, MoveTo
  <2>4. \A h \in Goroutines : pc'[h] \in {"waiting", "ended"} => cleanups[h] = <<>>
    BY <1>1, <2>3
  <2>5. Aside
    BY <1>1, <2>1, <2>2, <2>4 DEF Aside, Before, After, Cleaning
  <2> QED
    BY <2>5, AsideKeepsOwner
<1>3. CASE GetPool(g)
  <2> DEFINE k == want[g][1]
             o == IF want[g][2] THEN g ELSE None
  <2>1. /\ k \in Pools /\ Begin(g, k) /\ owner' = [owner EXCEPT ![hand'[g]] = o]
        /\ pc' = [pc EXCEPT ![g] = "body"] /\ UNCHANGED cleanups /\ pc[g] = "get"
    BY <1>3 DEF GetPool, MoveTo, IsIn
  <2>2. o \in {g, None} \cap (Tests \cup {None})
    BY <2>1 DEF WantInv
  <2> HIDE DEF k, o
  <2>3. k \in Kinds /\ k \notin Servers
    BY <2>1, KindsAssumption DEF Kinds
  <2>4. \A h \in Goroutines : pc'[h] \in {"waiting", "ended"} => pc[h] = pc'[h]
    BY <1>1, <2>1
  <2> QED
    BY <2>1, <2>2, <2>3, <2>4, BeginKeepsOwner
<1>4. CASE GetServer(g)
  <2>1. \A h \in Goroutines : pc'[h] \in {"waiting", "ended"} => pc[h] = pc'[h]
    BY <1>1, <1>4 DEF GetServer, MoveTo
  <2>2. CASE UNCHANGED vars
    <3>1. Aside
      BY <1>1, <1>4, <2>1, <2>2 DEF GetServer, Aside, vars
    <3> QED
      BY <3>1, AsideKeepsOwner
  <2>3. CASE Begin(g, want[g][1])
    <3> DEFINE k == want[g][1]
    <3>1. k \in Servers /\ Begin(g, k) /\ UNCHANGED <<owner, cleanups>>
      BY <1>4, <2>3 DEF GetServer
    <3> HIDE DEF k
    <3>2. k \in Kinds /\ k \notin Pools
      BY <3>1, KindsAssumption DEF Kinds
    <3> QED
      BY <2>1, <3>1, <3>2, BeginKeepsOwner
  <2> QED
    BY <1>4, <2>2, <2>3 DEF GetServer
<1>5. CASE CreateDatabase(g)
  <2>1. want[g][1] \in Servers
    BY <1>5 DEF CreateDatabase, IsIn, WantInv
  <2> QED
    BY <1>5, <2>1, CreateDatabaseKeepsOwner
<1>6. CASE InCreator(g)
  BY <1>6, CreateStepKeepsOwner, CallFailsKeepsOwner, DeleteKeepsOwner, RemoveKeepsOwner,
     LoopKeepsOwner DEF InCreator, CleanupStep
<1> QED
  BY <1>2, <1>3, <1>4, <1>5, <1>6, ReceiveKeepsOwner, TestCleanupKeepsOwner,
     UnwindKeepsOwner DEF Goroutine, Proceed

LEMMA NextOwnerInv ==
  ASSUME OrderInv, CreatorInv, WantInv, OwnerInv, [ITNext]_allVars
  PROVE  OwnerInv'
<1> USE MainAssumption
<1>1. /\ at \in [Goroutines -> Steps] /\ pc \in [Goroutines -> MainPlaces \cup TestPlaces]
      /\ \A h \in Goroutines : pc[h] \in {"waiting", "ended"} => cleanups[h] = <<>>
  BY DEF OrderInv, PlacesInv, OwnerInv, BoundInv
<1>2. ASSUME UNCHANGED <<kind, owner, cleanups, running, todo, hand, at, containers, files>>,
             \A h \in Goroutines : pc'[h] \in {"waiting", "ended"} => pc[h] = pc'[h]
      PROVE  OwnerInv'
  <2>1. Aside
    BY <1>1, <1>2 DEF Aside
  <2> QED
    BY <2>1, AsideKeepsOwner
<1>3. ASSUME NEW part \in Infrastructure, NewIT(part)
      PROVE  OwnerInv'
  <2>1. \A h \in Goroutines : pc'[h] \in {"waiting", "ended"} => pc[h] = pc'[h]
    BY <1>1, <1>3 DEF NewIT, MoveTo, Infrastructure
  <2> QED
    BY <1>2, <1>3, <2>1 DEF NewIT, poolVars, worldVars
<1>4. CASE RunTests \/ TestsDone \/ LockForCleanup \/ TeardownDone \/ UNCHANGED allVars
  <2>1. \A h \in Goroutines : pc'[h] \in {"waiting", "ended"} => pc[h] = pc'[h]
    BY <1>1, <1>4
    DEF RunTests, TestsDone, LockForCleanup, TeardownDone, MoveTo, allVars, itVars
  <2> QED
    BY <1>2, <1>4, <2>1
    DEF RunTests, TestsDone, LockForCleanup, TeardownDone, allVars, itVars, vars, poolVars,
        worldVars
<1>5. CASE Teardown
  <2>1. PICK f : CallDeferred(f)
    BY <1>5 DEF Teardown
  <2>2. UNCHANGED <<pc, owner, cleanups>> /\ IsIn(Main, "teardown")
    BY <1>5 DEF Teardown
  <2>3. CASE f \in Pools /\ CleanupAll(Main, f)
    BY <2>2, <2>3, CleanupAllKeepsOwner
  <2>4. CASE f \in Servers /\ CleanupServer(f)
    <3>1. /\ UNCHANGED <<kind, running, todo, hand, at, files>>
          /\ containers' = containers \/ containers' = containers \ {i \in returned : kind[i] = f}
      BY <2>4 DEF CleanupServer, poolVars
    <3>2. ASSUME NEW h \in Goroutines, at[h] = "remove", hand[h] \in containers
          PROVE  hand[h] \in containers'
      BY <2>4, <3>1, <3>2, KindsAssumption DEF CreatorInv, HandInv, Cleaning
    <3>3. Aside
      BY <1>1, <2>2, <3>1, <3>2 DEF Aside
    <3> QED
      BY <3>3, AsideKeepsOwner
  <2>5. CASE RemoveNetwork \/ UNCHANGED vars
    BY <1>2, <2>2, <2>5 DEF RemoveNetwork, vars, poolVars, worldVars
  <2> QED
    BY <2>1, <2>3, <2>4, <2>5 DEF CallDeferred
<1> QED
  BY <1>3, <1>4, <1>5, GoroutineKeepsOwner DEF ITNext, SetUp, TearDown, Ended

LEMMA CreatorAndOwner == ITSpec => [](OrderInv /\ CreatorInv /\ WantInv /\ OwnerInv)
<1>1. ITInit => OrderInv /\ CreatorInv /\ WantInv /\ OwnerInv
  BY InitOrderInv, InitIInv, InitOwnerInv DEF ITInit, IInv
<1>2. OrderInv /\ CreatorInv /\ WantInv /\ OwnerInv /\ [ITNext]_allVars
        => (OrderInv /\ CreatorInv /\ WantInv /\ OwnerInv)'
  BY NextOrderInv, NextCreatorInv, NextWantInv, NextOwnerInv
<1> QED
  BY <1>1, <1>2, PTL DEF ITSpec

\* Nothing is removed twice: a test's t.Cleanup takes an instance out of the map
\* before anyone else could, and IT.Cleanup only finds instances of no test.
THEOREM NothingIsRemovedTwice == ITSpec => []NoDoubleRemove
<1>1. CreatorInv /\ OwnerInv => NoDoubleRemove
  BY DEF CreatorInv, RegisteredExists, OwnerInv, CleanerInv, Cleaning, NoDoubleRemove
<1> QED
  BY <1>1, CreatorAndOwner, PTL

-----------------------------------------------------------------------------
(* The types.                                                              *)

\* What the invariants so far do not say.
RestInv ==
  /\ mutex \in Goroutines \cup {None}
  /\ creator \subseteq Kinds
  /\ deferred \in Seq(Kinds \cup Infrastructure)
  /\ left \in 0 .. Len(deferred)
  /\ open \subseteq Infrastructure
  /\ uses \in [Instances -> Instances \cup {None}]
  /\ rdb \in [Instances -> Servers \cup {None}]
  /\ panicking \subseteq Goroutines

LEMMA PushedRest ==
  ASSUME RestInv, Pushed \/ \E f \in Infrastructure : deferred' = Append(deferred, f)
  PROVE  deferred' \in Seq(Kinds \cup Infrastructure) /\ Len(deferred) <= Len(deferred')
  BY DEF RestInv, Pushed

LEMMA NextRestInv == CreatorInv /\ RestInv /\ [ITNext]_allVars => RestInv'
<1> SUFFICES ASSUME CreatorInv, RestInv, [ITNext]_allVars PROVE RestInv'
  OBVIOUS
<1> USE MainAssumption
<1>1. ASSUME NEW part \in Infrastructure, NewIT(part) PROVE RestInv'
  <2>1. /\ UNCHANGED <<mutex, creator, left, uses, rdb, panicking>>
        /\ open' \subseteq open \cup {part}
        /\ deferred' = deferred \/ deferred' = Append(deferred, part)
    BY <1>1 DEF NewIT
  <2>2. deferred' \in Seq(Kinds \cup Infrastructure) /\ Len(deferred) <= Len(deferred')
    BY <2>1, PushedRest DEF Pushed
  <2>3. Len(deferred) \in Nat /\ Len(deferred') \in Nat
    BY <2>2 DEF RestInv
  <2> QED
    BY <2>1, <2>2, <2>3 DEF RestInv
<1>2. CASE RunTests \/ TestsDone \/ UNCHANGED allVars
  BY <1>2 DEF RunTests, TestsDone, allVars, itVars, RestInv
<1>3. CASE LockForCleanup
  BY <1>3 DEF LockForCleanup, RestInv
<1>4. CASE Teardown \/ TeardownDone
  <2>1. /\ UNCHANGED <<creator, deferred, uses, rdb, panicking>>
        /\ mutex' \in {mutex, None} /\ open' \subseteq open
        /\ left' = left \/ (left > 0 /\ left' = left - 1)
    BY <1>4 DEF vars, Teardown, TeardownDone, CallDeferred, CleanupServer, RemoveNetwork
  <2>2. Len(deferred) \in Nat
    BY DEF RestInv
  <2> QED
    BY <2>1, <2>2 DEF RestInv
<1>5. ASSUME NEW g \in Goroutines, Goroutine(g) PROVE RestInv'
  <2>1. CASE \/ NoBinary(g) \/ InCreator(g) \/ CreateDatabase(g) \/ TestCleanup(g)
             \/ TestDone(g) \/ EndTest(g) \/ \E k \in Kinds, withT \in BOOLEAN : Ask(g, k, withT)
    BY <2>1
    DEF NoBinary, InCreator, CreateDatabase, TestCleanup, TestDone, EndTest, Ask, itVars,
        RestInv
  <2>2. CASE GetServer(g) \/ Unwind(g)
    BY <2>2 DEF GetServer, Unwind, RestInv
  <2>3. CASE GetPool(g)
    <3> DEFINE k == want[g][1]
    <3>1. /\ k \in Kinds /\ creator' = creator \cup {k} /\ Pushed
          /\ UNCHANGED <<mutex, left, open, panicking>>
      BY <2>3 DEF GetPool, Pushed, Kinds
    <3>2. deferred' \in Seq(Kinds \cup Infrastructure) /\ Len(deferred) <= Len(deferred')
      BY <3>1, PushedRest
    <3>3. Len(deferred) \in Nat /\ Len(deferred') \in Nat
      BY <3>2 DEF RestInv
    <3>4. returned \subseteq Instances
      BY DEF CreatorInv, TypeOK
    <3>5. uses' \in [Instances -> Instances \cup {None}] /\ rdb' \in [Instances -> Servers \cup {None}]
      BY <2>3, <3>4 DEF GetPool, Redis, RestInv
    <3> QED
      BY <3>1, <3>2, <3>3, <3>5 DEF RestInv
  <2>4. CASE Receive(g)
    <3>1. UNCHANGED <<left, open, uses, rdb, panicking>> /\ mutex' \in {mutex, None}
      BY <2>4 DEF Receive
    <3>2. creator' \subseteq Kinds /\ Pushed
      BY <2>4 DEF Receive, RestInv, Pushed, Kinds
    <3>3. deferred' \in Seq(Kinds \cup Infrastructure) /\ Len(deferred) <= Len(deferred')
      BY <3>2, PushedRest
    <3>4. Len(deferred) \in Nat /\ Len(deferred') \in Nat
      BY <3>3 DEF RestInv
    <3> QED
      BY <3>1, <3>2, <3>3, <3>4 DEF RestInv
  <2> QED
    BY <1>5, <2>1, <2>2, <2>3, <2>4 DEF Goroutine, Proceed
<1> QED
  BY <1>1, <1>2, <1>3, <1>4, <1>5 DEF ITNext, SetUp, TearDown, Ended

\* Every variable of the composition keeps its type.
THEOREM ITTypes == ITSpec => []ITTypeOK
<1>1. ITInit => RestInv
  BY DEF ITInit, RestInv
<1>2. OrderInv /\ CreatorInv /\ WantInv /\ OwnerInv /\ RestInv => ITTypeOK
  BY DEF OrderInv, PlacesInv, MainPlaces, TestPlaces, CreatorInv, WantInv, OwnerInv, BoundInv,
     BelongsInv, RestInv, ITTypeOK
<1> QED
  BY <1>1, <1>2, CreatorAndOwner, NextRestInv, PTL DEF ITSpec

-----------------------------------------------------------------------------
(* IT.Cleanup is complete.                                                 *)

\* Every kind with an instance has its creator, and every creator's Cleanup is
\* in deferredCleanup, until IT.Cleanup begins.
CreatorsInv ==
  /\ \A i \in Instances : kind[i] \in Pools => kind[i] \in creator
  /\ pc[Main] \notin {"teardown", "returned"} => creator \subseteq Range(deferred)

\* What exists is listed, is a server that was returned, or is in hand.
HeldInv ==
  /\ \A g \in Goroutines : at[g] \in {"config", "write"} => kind[hand[g]] = "icingadb"
  /\ \A i \in files : kind[i] = "icingadb" /\ kind[i] \in Pools
  /\ panicking = {} =>
       \A i \in containers \cup files :
         \/ i \in running
         \/ i \in returned /\ kind[i] \in Servers
         \/ \E g \in Goroutines : hand[g] = i

\* A test that panicked does not end: it takes the process with it.
PanicInv ==
  process = "up" => \A t \in Tests : pc[t] \in {"waiting", "ended"} => t \notin panicking

\* What IT.Cleanup has yet to call.
Remaining == {deferred[n] : n \in 1 .. left}

\* IT.Cleanup has yet to come to whatever is left.
SweepInv ==
  /\ at[Main] \notin {"loop", "panicked"} \cup Cleaning => todo[Main] = {}
  /\ pc[Main] = "teardown" => at[Main] \notin Before \cup After
  /\ process = "up" /\ pc[Main] = "teardown" =>
       \A i \in running : \/ kind[i] \in Remaining
                          \/ i \in todo[Main]
                          \/ at[Main] = "delete" /\ hand[Main] = i
  /\ process = "up" /\ pc[Main] = "teardown" /\ panicking = {} /\ faults = 0 =>
       /\ \A i \in containers : kind[i] \in Servers => kind[i] \in Remaining
       /\ open \subseteq Remaining

LEMMA InitSweepInv == ITInit => CreatorsInv /\ HeldInv /\ PanicInv /\ SweepInv
<1> SUFFICES ASSUME ITInit PROVE CreatorsInv /\ HeldInv /\ PanicInv /\ SweepInv
  OBVIOUS
<1> USE MainAssumption, NoneAssumption DEF ITInit, Init
<1>1. CreatorsInv
  BY DEF CreatorsInv, Kinds
<1>2. HeldInv /\ PanicInv
  BY DEF HeldInv, PanicInv
<1>3. SweepInv
  BY DEF SweepInv
<1> QED
  BY <1>1, <1>2, <1>3

LEMMA RangeAppend ==
  ASSUME NEW S, NEW s \in Seq(S), NEW e \in S
  PROVE  Range(Append(s, e)) = Range(s) \cup {e}
<1>1. /\ Len(Append(s, e)) = Len(s) + 1 /\ Len(s) \in Nat
      /\ DOMAIN Append(s, e) = 1 .. Len(s) + 1 /\ DOMAIN s = 1 .. Len(s)
      /\ \A n \in 1 .. Len(s) : Append(s, e)[n] = s[n]
      /\ Append(s, e)[Len(s) + 1] = e
  OBVIOUS
<1> QED
  BY <1>1 DEF Range

\* Where no kind gets its first instance and no creator appears.
LEMMA SameCreators ==
  ASSUME CreatorsInv, UNCHANGED <<kind, creator>>, Range(deferred) \subseteq Range(deferred'),
         pc[Main] \in {"teardown", "returned"} => pc'[Main] \in {"teardown", "returned"}
  PROVE  CreatorsInv'
  BY DEF CreatorsInv

LEMMA NextCreatorsInv ==
  ASSUME OrderInv, CreatorInv, RestInv, CreatorsInv, [ITNext]_allVars
  PROVE  CreatorsInv'
<1> USE MainAssumption, KindsAssumption
<1>1. /\ pc \in [Goroutines -> MainPlaces \cup TestPlaces]
      /\ kind \in [Instances -> Kinds \cup {None}]
      /\ hand \in [Goroutines -> Instances \cup {None}]
      /\ deferred \in Seq(Kinds \cup Infrastructure) /\ creator \subseteq Kinds
  BY DEF OrderInv, PlacesInv, CreatorInv, TypeOK, RestInv
<1>2. ASSUME NEW part \in Infrastructure, NewIT(part) PROVE CreatorsInv'
  <2>1. UNCHANGED <<kind, creator>> /\ (deferred' = deferred \/ deferred' = Append(deferred, part))
    BY <1>2 DEF NewIT, poolVars
  <2>2. pc[Main] \notin {"teardown", "returned"}
    BY <1>2 DEF NewIT, IsIn, Infrastructure
  <2>3. part \in Kinds \cup Infrastructure
    OBVIOUS
  <2>4. Range(deferred) \subseteq Range(deferred')
    <3>1. Range(Append(deferred, part)) = Range(deferred) \cup {part}
      BY <1>1, <2>3, RangeAppend
    <3> QED
      BY <2>1, <3>1
  <2> QED
    BY <2>1, <2>2, <2>4, SameCreators
<1>3. CASE RunTests \/ TearDown \/ UNCHANGED allVars
  <2>1. UNCHANGED <<kind, creator, deferred>>
    BY <1>3
    DEF RunTests, TearDown, TestsDone, LockForCleanup, Teardown, TeardownDone, CallDeferred,
        CleanupAll, CleanupServer, RemoveNetwork, allVars, itVars, vars, poolVars
  <2>2. pc[Main] \in {"teardown", "returned"} => pc'[Main] \in {"teardown", "returned"}
    BY <1>1, <1>3
    DEF RunTests, TearDown, TestsDone, LockForCleanup, Teardown, TeardownDone, IsIn, MoveTo,
        allVars, itVars
  <2> QED
    BY <2>1, <2>2, SameCreators
<1>4. ASSUME NEW g \in Goroutines, Goroutine(g) PROVE CreatorsInv'
  <2>1. pc[Main] \in {"teardown", "returned"} => pc'[Main] \in {"teardown", "returned"}
    <3>1. CASE UNCHANGED pc
      BY <3>1
    <3>2. CASE Unwind(g)
      BY <1>1, <3>2 DEF Unwind, IsAt, MoveTo, OrderInv, ActiveInv
    <3>3. CASE /\ pc[g] \in {"body", "get", "database", "ending"}
               /\ \E place : pc' = [pc EXCEPT ![g] = place]
      BY <1>1, <3>3
    <3> QED
      BY <1>4, <3>1, <3>2, <3>3
      DEF Goroutine, Proceed, Ask, NoBinary, GetPool, GetServer, InCreator, Receive,
          CreateDatabase, TestCleanup, TestDone, EndTest, IsIn, MoveTo, itVars
  <2>2. CASE GetPool(g)
    <3> DEFINE k == want[g][1]
    <3>1. /\ k \in Pools /\ creator' = creator \cup {k}
          /\ deferred' = IF k \in creator THEN deferred ELSE Append(deferred, k)
      BY <2>2 DEF GetPool
    <3>2. \E i \in Instances : kind' = [kind EXCEPT ![i] = k]
      BY <2>2 DEF GetPool, Begin
    <3> HIDE DEF k
    <3>3. k \in Kinds \cup Infrastructure
      BY <3>1 DEF Kinds
    <3>4. /\ Range(deferred) \subseteq Range(deferred')
          /\ k \in creator \/ k \in Range(deferred')
      BY <1>1, <3>1, <3>3, RangeAppend
    <3> QED
      BY <1>1, <2>1, <3>1, <3>2, <3>4 DEF CreatorsInv
  <2>3. CASE GetServer(g)
    <3>1. UNCHANGED <<creator, deferred>>
      BY <2>3 DEF GetServer
    <3>2. kind' = kind \/ \E i \in Instances, k \in Servers : kind' = [kind EXCEPT ![i] = k]
      BY <2>3 DEF GetServer, Begin, vars
    <3> QED
      BY <1>1, <2>1, <3>1, <3>2 DEF CreatorsInv
  <2>4. CASE Receive(g)
    <3>1. kind' = kind
      BY <2>4 DEF Receive, Register
    <3>2. CASE kind[hand[g]] \in Servers
      <4>1. /\ creator' = creator \cup {kind[hand[g]]}
            /\ deferred' = Append(deferred, kind[hand[g]])
        BY <2>4, <3>2 DEF Receive
      <4>2. Range(deferred') = Range(deferred) \cup {kind[hand[g]]}
        BY <1>1, <3>2, <4>1, RangeAppend DEF Kinds
      <4> QED
        BY <2>1, <3>1, <4>1, <4>2 DEF CreatorsInv
    <3>3. CASE kind[hand[g]] \notin Servers
      BY <2>1, <2>4, <3>1, <3>3, SameCreators DEF Receive
    <3> QED
      BY <3>2, <3>3
  <2>5. CASE \/ NoBinary(g) \/ CreateDatabase(g) \/ TestCleanup(g) \/ TestDone(g)
             \/ EndTest(g) \/ Unwind(g) \/ \E k \in Kinds, withT \in BOOLEAN : Ask(g, k, withT)
    BY <2>1, <2>5, SameCreators
    DEF NoBinary, CreateDatabase, TestCleanup, BeginCleanup, DropDatabase, TestDone, EndTest,
        Unwind, Ask, vars, poolVars
  <2>6. CASE InCreator(g)
    <3>1. kind' = kind
      BY <2>6
      DEF InCreator, CreateStep, CreateConfigFile, WriteConfigFile, TakeNumber, Prepare,
          CreateContainer, StartContainer, AwaitReady, CleanupStep, DeleteFromRunning,
          RemoveContainer, RemoveConfigFile, CleanupNext, CallFails, poolVars
    <3> QED
      BY <2>1, <2>6, <3>1, SameCreators DEF InCreator, itVars
  <2> QED
    BY <1>4, <2>2, <2>3, <2>4, <2>5, <2>6 DEF Goroutine, Proceed
<1> QED
  BY <1>2, <1>3, <1>4 DEF ITNext, SetUp, Ended

LEMMA NextPanicInv ==
  ASSUME OrderInv, PanicInv, [ITNext]_allVars
  PROVE  PanicInv'
<1> USE MainAssumption DEF PanicInv
<1>1. pc \in [Goroutines -> MainPlaces \cup TestPlaces]
  BY DEF OrderInv, PlacesInv
<1>2. ASSUME UNCHANGED panicking, process' = "up" => process = "up",
             \A t \in Tests : pc'[t] \in {"waiting", "ended"} => pc'[t] = pc[t]
      PROVE  PanicInv'
  BY <1>2
<1>3. ASSUME NEW part \in Infrastructure, NewIT(part) PROVE PanicInv'
  BY <1>1, <1>2, <1>3 DEF NewIT, IsIn, MoveTo, Tests
<1>4. CASE RunTests \/ TearDown \/ UNCHANGED allVars
  <2>1. UNCHANGED panicking /\ (process' = "up" => process = "up")
    BY <1>4
    DEF RunTests, TearDown, TestsDone, LockForCleanup, Teardown, TeardownDone, IsIn, allVars,
        itVars, vars
  <2>2. \A t \in Tests : pc'[t] \in {"waiting", "ended"} => pc'[t] = pc[t]
    BY <1>1, <1>4
    DEF RunTests, TearDown, TestsDone, LockForCleanup, Teardown, TeardownDone, MoveTo, Tests,
        allVars, itVars
  <2> QED
    BY <1>2, <2>1, <2>2
<1>5. ASSUME NEW g \in Goroutines, Goroutine(g) PROVE PanicInv'
  <2>1. CASE TestDone(g)
    BY <1>1, <2>1 DEF TestDone, MoveTo, IsIn
  <2>2. CASE Unwind(g)
    BY <1>1, <2>2 DEF Unwind, MoveTo, IsAt, Tests, OrderInv, PlacesInv, TestPlaces
  <2>3. CASE \/ NoBinary(g) \/ GetPool(g) \/ GetServer(g) \/ CreateDatabase(g)
             \/ TestCleanup(g) \/ EndTest(g)
             \/ \E k \in Kinds, withT \in BOOLEAN : Ask(g, k, withT)
    <3>1. UNCHANGED panicking /\ process = "up"
      BY <2>3
      DEF NoBinary, GetPool, GetServer, CreateDatabase, TestCleanup, EndTest, Ask, IsIn
    <3>2. \A t \in Tests : pc'[t] \in {"waiting", "ended"} => pc'[t] = pc[t]
      BY <1>1, <2>3
      DEF NoBinary, GetPool, GetServer, CreateDatabase, TestCleanup, EndTest, Ask, MoveTo, Tests
    <3> QED
      BY <1>2, <3>1, <3>2
  <2>4. CASE InCreator(g) \/ Receive(g)
    <3>1. UNCHANGED <<panicking, pc>> /\ process = "up"
      BY <2>4
      DEF InCreator, Receive, Register, IsAt, itVars, CreateStep, CreateConfigFile,
          WriteConfigFile, TakeNumber, Prepare, CreateContainer, StartContainer, AwaitReady,
          CleanupStep, DeleteFromRunning, RemoveContainer, RemoveConfigFile, CleanupNext,
          CallFails
    <3> QED
      BY <1>2, <3>1
  <2> QED
    BY <1>5, <2>1, <2>2, <2>3, <2>4 DEF Goroutine, Proceed
<1> QED
  BY <1>3, <1>4, <1>5 DEF ITNext, SetUp, Ended

\* A step that neither lists nor returns an instance, and takes none in hand.
HeldAside ==
  /\ UNCHANGED <<kind, running, returned, hand>> /\ panicking \subseteq panicking'
  /\ containers' \subseteq containers /\ files' \subseteq files
  /\ \A g \in Goroutines : at'[g] \in {"config", "write"} => at[g] \in {"config", "write"}

LEMMA HeldAsideKeeps == ASSUME HeldInv, HeldAside PROVE HeldInv'
<1>1. panicking' = {} => panicking = {}
  BY DEF HeldAside
<1> QED
  BY <1>1 DEF HeldInv, HeldAside

\* A goroutine takes another instance in hand, or lets its own go.
LEMMA HandKeepsHeld ==
  ASSUME CreatorInv, HeldInv, NEW g \in Goroutines, NEW h, NEW step,
         hand' = [hand EXCEPT ![g] = h], at' = [at EXCEPT ![g] = step],
         step \in {"config", "write"} => h \in Instances /\ kind'[h] = "icingadb",
         \A i \in Instances : kind[i] \in Kinds => kind'[i] = kind[i],
         running \subseteq running', returned \subseteq returned', panicking' = panicking,
         containers' \subseteq containers, files' \subseteq files,
         \A i \in (containers' \cup files') \cap {hand[g]} :
           i \in running' \/ (i \in returned' /\ kind'[i] \in Servers)
  PROVE  HeldInv'
<1> USE NoneAssumption
<1>1. /\ at \in [Goroutines -> Steps] /\ containers \subseteq Instances /\ files \subseteq Instances
      /\ hand \in [Goroutines -> Instances \cup {None}] /\ returned \subseteq Instances
      /\ \A f \in Goroutines : at[f] \in {"config", "write"} =>
           hand[f] \in Instances /\ kind[hand[f]] \in Kinds
  BY DEF CreatorInv, TypeOK, HandInv
<1>2. \A i \in containers \cup files : i \in Instances
  BY <1>1
<1>3. ASSUME NEW f \in Goroutines, at'[f] \in {"config", "write"}
      PROVE  kind'[hand'[f]] = "icingadb"
  <2>1. CASE f = g
    BY <1>1, <1>3, <2>1
  <2>2. CASE f # g
    <3>1. at'[f] = at[f] /\ hand'[f] = hand[f]
      BY <1>1, <2>2
    <3> QED
      BY <1>1, <1>3, <3>1 DEF HeldInv
  <2> QED
    BY <2>1, <2>2
<1>4. ASSUME NEW i \in files' PROVE kind'[i] = "icingadb" /\ kind'[i] \in Pools
  <2>1. i \in Instances /\ kind[i] = "icingadb" /\ kind[i] \in Pools /\ kind[i] \in Kinds
    BY <1>2 DEF HeldInv, Kinds
  <2> QED
    BY <2>1
<1>5. ASSUME panicking = {}, NEW i \in containers' \cup files'
      PROVE  \/ i \in running'
             \/ i \in returned' /\ kind'[i] \in Servers
             \/ \E f \in Goroutines : hand'[f] = i
  <2>1. CASE i = hand[g]
    BY <2>1
  <2>2. ASSUME NEW f \in Goroutines, hand[f] = i, i # hand[g] PROVE hand'[f] = i
    BY <1>1, <2>2
  <2>3. CASE i \in returned /\ kind[i] \in Servers
    BY <1>1, <2>3 DEF Kinds
  <2> QED
    BY <1>5, <2>1, <2>2, <2>3 DEF HeldInv
<1> QED
  BY <1>3, <1>4, <1>5 DEF HeldInv

LEMMA BeginKeepsHeld ==
  ASSUME CreatorInv, HeldInv, NEW g \in Goroutines, NEW k \in Kinds, Begin(g, k),
         UNCHANGED panicking
  PROVE  HeldInv'
<1>1. PICK i \in Instances : /\ kind[i] = None /\ kind' = [kind EXCEPT ![i] = k]
                             /\ hand' = [hand EXCEPT ![g] = i]
  BY DEF Begin
<1>2. /\ UNCHANGED <<running, returned, containers, files>>
      /\ at' = [at EXCEPT ![g] = FirstStep(k)] /\ at[g] = "idle"
  BY DEF Begin, IsAt, Goto, worldVars
<1>3. /\ kind \in [Instances -> Kinds \cup {None}] /\ hand[g] = None
      /\ containers \cup files \subseteq Instances
  BY <1>2 DEF CreatorInv, TypeOK, HandInv
<1>4. FirstStep(k) \in {"config", "write"} => kind'[i] = "icingadb"
  BY <1>1, <1>3 DEF FirstStep
<1>5. /\ \A j \in Instances : kind[j] \in Kinds => kind'[j] = kind[j]
      /\ (containers \cup files) \cap {hand[g]} = {}
  BY <1>1, <1>3, NoneAssumption
<1> QED
  BY <1>1, <1>2, <1>4, <1>5, HandKeepsHeld

\* The steps of a creation.
LEMMA CreateStepKeepsHeld ==
  ASSUME CreatorInv, HeldInv, NEW g \in Goroutines, CreateStep(g), UNCHANGED panicking
  PROVE  HeldInv'
<1>1. /\ UNCHANGED <<kind, running, returned, hand>>
      /\ at[g] \in Before \cup After /\ hand[g] \in Instances
      /\ at \in [Goroutines -> Steps]
  BY DEF CreateStep, CreateConfigFile, WriteConfigFile, TakeNumber, Prepare, CreateContainer,
     StartContainer, AwaitReady, poolVars, IsAt, Before, After, CreatorInv, TypeOK, HandInv
<1>2. \/ at' = at
      \/ at[g] = "config" /\ at' = [at EXCEPT ![g] = "write"]
      \/ \E step \in Steps \ {"config", "write"} : at' = [at EXCEPT ![g] = step]
  BY DEF CreateStep, CreateConfigFile, WriteConfigFile, TakeNumber, Prepare, CreateContainer,
     StartContainer, AwaitReady, IsAt, Goto, Steps
<1>3. \A f \in Goroutines : at'[f] \in {"config", "write"} => at[f] \in {"config", "write"}
  BY <1>1, <1>2
<1>4. /\ containers' \subseteq containers \cup {hand[g]}
      /\ files' \subseteq files \cup {hand[g]}
      /\ files' = files \/ at[g] = "config"
  BY DEF CreateStep, CreateConfigFile, WriteConfigFile, TakeNumber, Prepare, CreateContainer,
     StartContainer, AwaitReady, worldVars, IsAt
<1>5. at[g] = "config" => kind[hand[g]] \in Pools /\ kind[hand[g]] = "icingadb"
  BY DEF CreatorInv, HandInv, HeldInv
<1> QED
  BY <1>1, <1>3, <1>4, <1>5 DEF HeldInv

\* What is deleted from the map is in hand until it is gone.
LEMMA CleanupStepKeepsHeld ==
  ASSUME CreatorInv, HeldInv, NEW g \in Goroutines, CleanupStep(g), UNCHANGED panicking
  PROVE  HeldInv'
<1>1. /\ at \in [Goroutines -> Steps] /\ containers \cup files \subseteq Instances
      /\ hand \in [Goroutines -> Instances \cup {None}]
      /\ at[g] \in Cleaning => hand[g] \in Instances
      /\ at[g] = "loop" => hand[g] = None
  BY DEF CreatorInv, TypeOK, HandInv, Cleaning
<1>2. CASE DeleteFromRunning(g)
  <2>1. /\ UNCHANGED <<kind, returned, hand, containers, files>>
        /\ running' = running \ {hand[g]} /\ at' = [at EXCEPT ![g] = "remove"]
    BY <1>2 DEF DeleteFromRunning, Goto, worldVars
  <2>2. \A f \in Goroutines : at'[f] \in {"config", "write"} => at'[f] = at[f]
    BY <1>1, <2>1
  <2> QED
    BY <2>1, <2>2 DEF HeldInv
<1>3. CASE CleanupNext(g)
  <2>1. /\ UNCHANGED <<kind, running, returned, containers, files>> /\ hand[g] = None
    BY <1>1, <1>3 DEF CleanupNext, IsAt, poolVars, worldVars
  <2>2. \/ UNCHANGED hand /\ at' = [at EXCEPT ![g] = "idle"]
        \/ \E i \in todo[g] : hand' = [hand EXCEPT ![g] = i] /\ at' = [at EXCEPT ![g] = "delete"]
    BY <1>3 DEF CleanupNext, Goto
  <2>3. \E h, step : /\ hand' = [hand EXCEPT ![g] = h] /\ at' = [at EXCEPT ![g] = step]
                     /\ step \in {"idle", "delete"}
    <3>1. CASE UNCHANGED hand /\ at' = [at EXCEPT ![g] = "idle"]
      <4>1. hand' = [hand EXCEPT ![g] = None]
        BY <1>1, <2>1, <3>1
      <4> QED
        BY <3>1, <4>1
    <3> QED
      BY <2>2, <3>1
  <2>4. (containers \cup files) \cap {hand[g]} = {}
    BY <1>1, <2>1, NoneAssumption
  <2> QED
    BY <2>1, <2>3, <2>4, HandKeepsHeld
<1>4. CASE RemoveContainer(g) /\ ~UNCHANGED hand
  <2>1. /\ UNCHANGED <<kind, running, returned, files>> /\ containers' = containers \ {hand[g]}
        /\ hand' = [hand EXCEPT ![g] = None] /\ at' = [at EXCEPT ![g] = "loop"]
        /\ kind[hand[g]] # "icingadb"
    BY <1>4 DEF RemoveContainer, Finish, Goto, poolVars
  <2>2. (containers' \cup files') \cap {hand[g]} = {}
    BY <2>1 DEF HeldInv
  <2> QED
    BY <2>1, <2>2, HandKeepsHeld
<1>5. CASE RemoveConfigFile(g) /\ ~UNCHANGED hand
  <2>1. /\ UNCHANGED <<kind, running, returned, containers>> /\ files' = files \ {hand[g]}
        /\ hand' = [hand EXCEPT ![g] = None] /\ at' = [at EXCEPT ![g] = "loop"]
        /\ at[g] = "unlink"
    BY <1>5 DEF RemoveConfigFile, Finish, Goto, poolVars, IsAt
  <2>2. (containers' \cup files') \cap {hand[g]} = {}
    BY <2>1 DEF CreatorInv, ContainerInv
  <2> QED
    BY <2>1, <2>2, HandKeepsHeld
<1>6. CASE (RemoveContainer(g) \/ RemoveConfigFile(g)) /\ UNCHANGED hand
  <2>1. /\ UNCHANGED <<kind, running, returned>>
        /\ containers' \subseteq containers /\ files' \subseteq files
        /\ \E step \in {"panicked", "unlink", "loop"} : at' = [at EXCEPT ![g] = step]
    BY <1>6 DEF RemoveContainer, RemoveConfigFile, Finish, Goto, poolVars
  <2>2. HeldAside
    BY <1>1, <1>6, <2>1 DEF HeldAside
  <2> QED
    BY <2>2, HeldAsideKeeps
<1> QED
  BY <1>2, <1>3, <1>4, <1>5, <1>6 DEF CleanupStep

LEMMA GoroutineKeepsHeld ==
  ASSUME CreatorInv, HeldInv, NEW g \in Goroutines, Goroutine(g)
  PROVE  HeldInv'
<1>1. at \in [Goroutines -> Steps] /\ hand \in [Goroutines -> Instances \cup {None}]
      /\ containers \cup files \subseteq Instances
  BY DEF CreatorInv, TypeOK
<1>2. CASE GetPool(g) \/ GetServer(g)
  <2>1. CASE UNCHANGED vars
    <3>1. HeldAside
      BY <1>2, <2>1 DEF GetPool, GetServer, HeldAside, vars
    <3> QED
      BY <3>1, HeldAsideKeeps
  <2>2. CASE Begin(g, want[g][1]) /\ want[g][1] \in Kinds
    BY <1>2, <2>2, BeginKeepsHeld DEF GetPool, GetServer
  <2> QED
    BY <1>2, <2>1, <2>2 DEF GetPool, GetServer, Kinds
<1>3. CASE InCreator(g)
  <2>1. CASE CallFails(g)
    <3>1. /\ UNCHANGED <<kind, running, returned, hand, panicking, containers, files>>
          /\ at' = at \/ at' = [at EXCEPT ![g] = "panicked"]
      BY <1>3, <2>1 DEF InCreator, CallFails, Goto, itVars, poolVars, worldVars
    <3>2. HeldAside
      BY <1>1, <3>1 DEF HeldAside
    <3> QED
      BY <3>2, HeldAsideKeeps
  <2> QED
    BY <1>3, <2>1, CreateStepKeepsHeld, CleanupStepKeepsHeld DEF InCreator, itVars
<1>4. CASE Receive(g)
  <2>1. /\ UNCHANGED <<kind, containers, files, panicking>>
        /\ at' = [at EXCEPT ![g] = "idle"] /\ hand' = [hand EXCEPT ![g] = None]
        /\ running' = (IF kind[hand[g]] \in Pools THEN running \cup {hand[g]} ELSE running)
        /\ returned' = returned \cup {hand[g]} /\ at[g] = "register"
    BY <1>4 DEF Receive, Register, IsAt, Goto, worldVars
  <2>2. kind[hand[g]] \in Kinds
    BY <2>1, NoneAssumption DEF CreatorInv, TypeOK, HandInv
  <2>3. running \subseteq running' /\ returned \subseteq returned'
    BY <2>1
  <2>4. hand[g] \in running' \/ (hand[g] \in returned' /\ kind'[hand[g]] \in Servers)
    BY <2>1, <2>2 DEF Kinds
  <2> QED
    BY <2>1, <2>3, <2>4, HandKeepsHeld
<1>5. CASE Unwind(g)
  <2>1. /\ UNCHANGED <<kind, files>> /\ panicking' # {}
        /\ at' = [at EXCEPT ![g] = "idle"] /\ hand' = [hand EXCEPT ![g] = None]
    BY <1>5 DEF Unwind, poolVars, worldVars
  <2> QED
    BY <1>1, <2>1 DEF HeldInv
<1>6. CASE TestCleanup(g)
  <2>1. CASE UNCHANGED <<kind, running, returned, hand, containers, files>>
    <3>1. at' = at \/ at' = [at EXCEPT ![g] = "panicked"] \/ at' = [at EXCEPT ![g] = "delete"]
      BY <1>6 DEF TestCleanup, BeginCleanup, DropDatabase, Goto, vars
    <3>2. HeldAside
      BY <1>1, <1>6, <2>1, <3>1 DEF TestCleanup, HeldAside
    <3> QED
      BY <3>2, HeldAsideKeeps
  <2>2. ASSUME NEW i \in Instances, BeginCleanup(g, i) PROVE HeldInv'
    <3>1. /\ UNCHANGED <<kind, running, returned, containers, files, panicking>>
          /\ at' = [at EXCEPT ![g] = "delete"] /\ hand' = [hand EXCEPT ![g] = i]
          /\ at[g] = "idle"
      BY <1>6, <2>2 DEF TestCleanup, BeginCleanup, IsAt, Goto, poolVars, worldVars
    <3>2. (containers \cup files) \cap {hand[g]} = {}
      BY <1>1, <3>1, NoneAssumption DEF CreatorInv, HandInv
    <3> QED
      BY <3>1, <3>2, HandKeepsHeld
  <2> QED
    BY <1>6, <2>1, <2>2 DEF TestCleanup, DropDatabase, vars, poolVars, worldVars
<1>7. CASE NoBinary(g) \/ CreateDatabase(g) \/ TestDone(g) \/ EndTest(g)
           \/ \E k \in Kinds, withT \in BOOLEAN : Ask(g, k, withT)
  <2>1. /\ UNCHANGED <<kind, running, returned, hand, containers, files, panicking>>
        /\ at' = at \/ at' = [at EXCEPT ![g] = "panicked"]
    BY <1>7
    DEF NoBinary, CreateDatabase, TestDone, EndTest, Ask, Goto, vars, poolVars, worldVars
  <2>2. HeldAside
    BY <1>1, <2>1 DEF HeldAside
  <2> QED
    BY <2>2, HeldAsideKeeps
<1> QED
  BY <1>2, <1>3, <1>4, <1>5, <1>6, <1>7 DEF Goroutine, Proceed

LEMMA NextHeldInv ==
  ASSUME CreatorInv, HeldInv, [ITNext]_allVars
  PROVE  HeldInv'
<1>1. CASE SetUp \/ RunTests \/ TearDown \/ UNCHANGED allVars
  <2>1. /\ UNCHANGED <<kind, running, returned, hand, files, panicking>>
        /\ containers' \subseteq containers
    BY <1>1
    DEF SetUp, NewIT, RunTests, TearDown, TestsDone, LockForCleanup, Teardown, TeardownDone,
        CallDeferred, CleanupAll, CleanupServer, RemoveNetwork, allVars, itVars, vars,
        poolVars, worldVars
  <2>2. at' = at \/ at' = [at EXCEPT ![Main] = "loop"]
    BY <1>1
    DEF SetUp, NewIT, RunTests, TearDown, TestsDone, LockForCleanup, Teardown, TeardownDone,
        CallDeferred, CleanupAll, CleanupServer, RemoveNetwork, Goto, allVars, vars
  <2>3. at \in [Goroutines -> Steps]
    BY DEF CreatorInv, TypeOK
  <2>4. HeldAside
    BY <2>1, <2>2, <2>3 DEF HeldAside
  <2> QED
    BY <2>4, HeldAsideKeeps
<1> QED
  BY <1>1, GoroutineKeepsHeld DEF ITNext, Ended

\* During IT.Cleanup the tests are not running.
LEMMA OnlyMain ==
  ASSUME OrderInv, pc[Main] \in {"deferred", "teardown"}
  PROVE  \A t \in Tests : pc[t] \in {"waiting", "ended"} /\ at[t] = "idle"
  BY DEF OrderInv, PlacesInv, ActiveInv, Tests

\* Outside IT.Cleanup there is only the copy of the running map to look after.
LEMMA OutsideSweep ==
  ASSUME SweepInv, pc'[Main] # "teardown",
         at'[Main] \notin {"loop", "panicked"} \cup Cleaning =>
           \/ todo'[Main] = {}
           \/ todo'[Main] = todo[Main] /\ at[Main] \notin {"loop", "panicked"} \cup Cleaning
  PROVE  SweepInv'
  BY DEF SweepInv

\* When IT.Cleanup begins, all that exists has its clean-up in deferredCleanup.
LEMMA LockKeepsSweep ==
  ASSUME OrderInv, CreatorInv, LockInv, CreatorsInv, HeldInv, SweepInv, LockForCleanup
  PROVE  SweepInv'
<1> USE MainAssumption, NoneAssumption
<1>1. /\ at[Main] = "idle" /\ pc[Main] = "deferred" /\ left' = Len(deferred)
      /\ UNCHANGED <<at, hand, todo, kind, running, containers, creator, deferred, open>>
      /\ pc' = [pc EXCEPT ![Main] = "teardown"] /\ UNCHANGED <<panicking, faults, process>>
  BY DEF LockForCleanup, IsIn, MoveTo, vars
<1>2. \A g \in Goroutines : hand[g] = None
  BY <1>1, OnlyMain DEF CreatorInv, HandInv, Tests
<1>3. Stacked /\ open = Infrastructure
  BY <1>1 DEF OrderInv, OpenInv
<1>4. Remaining' = Range(deferred)
  <2>1. DOMAIN deferred = 1 .. Len(deferred)
    BY <1>3 DEF Stacked
  <2> QED
    BY <1>1, <2>1 DEF Remaining, Range
<1>5. creator \subseteq Remaining'
  BY <1>1, <1>4 DEF CreatorsInv
<1>6. \A i \in running : kind[i] \in Remaining'
  <2>1. \A i \in running : i \in Instances /\ kind[i] \in Pools
    BY DEF CreatorInv, TypeOK, ReturnedInv
  <2> QED
    BY <1>5, <2>1 DEF CreatorsInv
<1>7. panicking = {} => \A i \in containers : kind[i] \in Servers => kind[i] \in Remaining'
  <2>1. \A i \in containers : i # None
    BY DEF CreatorInv, TypeOK
  <2> QED
    BY <1>2, <1>5, <2>1 DEF LockInv
<1>8. open \subseteq Remaining'
  <2>1. 1 \in 1 .. Len(deferred) /\ 2 \in 1 .. Len(deferred) /\ 3 \in 1 .. Len(deferred)
    BY <1>3 DEF Stacked
  <2> QED
    BY <1>1, <1>3, <2>1 DEF Stacked, Remaining, Infrastructure
<1> QED
  BY <1>1, <1>6, <1>7, <1>8 DEF SweepInv, Before, After

\* Removing what exists, and panicking over it, is all a creator does then.
LEMMA SweepStepKeeps ==
  ASSUME OrderInv, CreatorInv, SweepInv, pc[Main] = "teardown",
         InCreator(Main)
  PROVE  SweepInv'
<1> USE MainAssumption, NoneAssumption
<1>1. /\ UNCHANGED <<pc, left, deferred, open, panicking>> /\ Remaining' = Remaining
  BY DEF InCreator, itVars, Remaining
<1>2. /\ at \in [Goroutines -> Steps] /\ hand \in [Goroutines -> Instances \cup {None}]
      /\ todo \in [Goroutines -> SUBSET Instances]
  BY DEF CreatorInv, TypeOK
<1>3. at[Main] \notin Before \cup After
  BY DEF SweepInv
<1>4. CASE CallFails(Main)
  <2>1. /\ UNCHANGED <<kind, running, todo, hand, containers>> /\ faults' # 0
        /\ at[Main] # "delete" /\ process = "up"
        /\ at' = at \/ at' = [at EXCEPT ![Main] = "panicked"]
    BY <1>4 DEF CallFails, FailureMode, Goto, poolVars, worldVars, CreatorInv, TypeOK
  <2>2. at'[Main] \in {at[Main], "panicked"}
    BY <1>2, <2>1
  <2> QED
    BY <1>1, <1>3, <2>1, <2>2 DEF SweepInv, Before, After
<1>5. CASE CleanupStep(Main)
  <2>1. /\ kind' = kind /\ faults' = faults /\ process' = process /\ process = "up"
        /\ containers' \subseteq containers
    BY <1>5 DEF CleanupStep, DeleteFromRunning, RemoveContainer, RemoveConfigFile,
       CleanupNext, poolVars, worldVars, IsAt
  <2>2. /\ at'[Main] \notin {"loop", "panicked"} \cup Cleaning => todo'[Main] = {}
        /\ at'[Main] \notin Before \cup After
        /\ \A i \in running' : \/ i \in running /\ kind[i] \in Remaining
                               \/ i \in todo'[Main]
                               \/ at'[Main] = "delete" /\ hand'[Main] = i
    <3>1. \A i \in running : \/ kind[i] \in Remaining
                             \/ i \in todo[Main]
                             \/ at[Main] = "delete" /\ hand[Main] = i
      BY <2>1 DEF SweepInv
    <3>2. CASE DeleteFromRunning(Main)
      <4>1. /\ at'[Main] = "remove" /\ running' = running \ {hand[Main]} /\ todo' = todo
        BY <1>2, <3>2 DEF DeleteFromRunning, Goto
      <4> QED
        BY <3>1, <4>1 DEF Before, After, Cleaning
    <3>3. CASE RemoveContainer(Main) \/ RemoveConfigFile(Main)
      <4>1. /\ at'[Main] \in {"panicked", "unlink", "loop"} /\ UNCHANGED <<running, todo>>
            /\ at[Main] # "delete"
        BY <1>2, <3>3
        DEF RemoveContainer, RemoveConfigFile, Finish, Goto, IsAt, poolVars
      <4> QED
        BY <3>1, <4>1 DEF Before, After, Cleaning
    <3>4. CASE CleanupNext(Main)
      <4>1. running' = running /\ at[Main] = "loop"
        BY <3>4 DEF CleanupNext, IsAt, poolVars
      <4>2. CASE todo[Main] = {} /\ Goto(Main, "idle") /\ UNCHANGED <<todo, hand>>
        <5>1. at'[Main] = "idle"
          BY <1>2, <4>2 DEF Goto
        <5> QED
          BY <3>1, <4>1, <4>2, <5>1 DEF Before, After, Cleaning
      <4>3. ASSUME NEW i \in todo[Main], todo' = [todo EXCEPT ![Main] = @ \ {i}],
                   hand' = [hand EXCEPT ![Main] = i], Goto(Main, "delete")
            PROVE  <2>2!1 /\ <2>2!2 /\ <2>2!3
        <5>1. at'[Main] = "delete" /\ hand'[Main] = i /\ todo'[Main] = todo[Main] \ {i}
          BY <1>2, <4>3 DEF Goto
        <5> QED
          BY <3>1, <4>1, <5>1 DEF Before, After, Cleaning
      <4> QED
        BY <3>4, <4>2, <4>3 DEF CleanupNext
    <3> QED
      BY <1>5, <3>2, <3>3, <3>4 DEF CleanupStep
  <2> QED
    BY <1>1, <2>1, <2>2 DEF SweepInv
<1>6. CASE CreateStep(Main)
  BY <1>3, <1>6
  DEF CreateStep, CreateConfigFile, WriteConfigFile, TakeNumber, Prepare, CreateContainer,
      StartContainer, AwaitReady, IsAt, Before, After
<1> QED
  BY <1>4, <1>5, <1>6 DEF InCreator

\* Each call of a clean-up function takes away all it is responsible for.
LEMMA TeardownKeepsSweep ==
  ASSUME OrderInv, CreatorInv, RestInv, HeldInv, SweepInv, Teardown
  PROVE  SweepInv'
<1> USE MainAssumption, NoneAssumption, KindsAssumption
<1> DEFINE f == deferred[left]
<1>1. /\ UNCHANGED <<pc, deferred, panicking>> /\ at[Main] = "idle" /\ pc[Main] = "teardown"
      /\ process = "up" /\ left > 0 /\ left' = left - 1 /\ CallDeferred(f)
  BY DEF Teardown, IsIn
<1>2. /\ Stacked /\ left \in 1 .. Len(deferred)
      /\ f \in Kinds \cup Infrastructure
  BY <1>1 DEF OrderInv, OpenInv, Stacked
<1>3. \A e \in Remaining : e # f => e \in Remaining'
  BY <1>1, <1>2 DEF Remaining
<1>4. todo[Main] = {} /\ \A i \in running : kind[i] \in Remaining
  BY <1>1 DEF SweepInv, Cleaning
<1>5. \A g \in Goroutines : hand[g] = None
  BY <1>1, OnlyMain DEF CreatorInv, HandInv, Tests
<1>6. /\ at \in [Goroutines -> Steps] /\ containers \subseteq Instances
      /\ \A i \in running : i \in Instances /\ kind[i] \in Pools
      /\ todo \in [Goroutines -> SUBSET Instances] /\ faults \in Nat
  BY DEF CreatorInv, TypeOK, ReturnedInv
<1>7. ASSUME panicking = {}, NEW i \in containers
      PROVE  i \in running \/ (i \in returned /\ kind[i] \in Servers)
  BY <1>5, <1>6, <1>7 DEF HeldInv
<1> HIDE DEF f
<1>8. CASE f \in Pools /\ CleanupAll(Main, f) /\ UNCHANGED open
  <2>1. /\ UNCHANGED <<kind, running, containers, hand, faults, process>>
        /\ at'[Main] = "loop" /\ todo'[Main] = {i \in running : kind[i] = f}
    BY <1>6, <1>8 DEF CleanupAll, Goto, poolVars, worldVars
  <2>2. \A i \in running : kind[i] \in Remaining' \/ i \in todo'[Main]
    BY <1>3, <1>4, <2>1
  <2>3. \A e \in Servers \cup Infrastructure : e # f
    BY <1>8 DEF Infrastructure
  <2>4. panicking = {} /\ faults = 0 =>
          /\ \A i \in containers : kind[i] \in Servers => kind[i] \in Remaining'
          /\ open \subseteq Remaining'
    BY <1>1, <1>3, <2>3 DEF SweepInv, RestInv
  <2> QED
    BY <1>1, <1>8, <2>1, <2>2, <2>4 DEF SweepInv, Before, After, Cleaning
<1>9. CASE ~(f \in Pools /\ CleanupAll(Main, f))
  <2>1. /\ UNCHANGED <<kind, running, hand, todo, at, process>>
        /\ containers' \subseteq containers
    BY <1>1, <1>9 DEF CallDeferred, CleanupServer, RemoveNetwork, vars, poolVars, worldVars
  <2>2. f \notin Pools
    BY <1>1, <1>9 DEF CallDeferred, Infrastructure
  <2>3. \A i \in running : kind[i] \in Remaining'
    BY <1>3, <1>4, <1>6, <2>2
  <2>4. ASSUME panicking = {}, faults' = 0
        PROVE  /\ \A i \in containers' : kind[i] \in Servers => kind[i] \in Remaining'
               /\ open' \subseteq Remaining'
    <3>1. faults = 0
      BY <1>1, <1>6, <1>9, <2>4
      DEF CallDeferred, CleanupServer, RemoveNetwork, Fault, vars
    <3>2. /\ \A i \in containers : kind[i] \in Servers => kind[i] \in Remaining
          /\ open \subseteq Remaining /\ open \subseteq Infrastructure
      BY <1>1, <2>4, <3>1 DEF SweepInv, RestInv
    <3>3. CASE f \in Servers
      <4>1. CleanupServer(f)
        BY <1>1, <1>9, <3>3 DEF CallDeferred, Infrastructure
      <4>2. containers' = containers \ {i \in returned : kind[i] = f} /\ open' = open
        BY <1>6, <2>4, <3>1, <4>1 DEF CleanupServer, Fault
      <4>3. \A i \in containers' : kind[i] \in Servers => kind[i] # f
        BY <1>6, <1>7, <2>4, <3>3, <4>2
      <4>4. \A e \in open : e # f
        BY <3>2, <3>3 DEF Infrastructure
      <4> QED
        BY <1>3, <3>2, <4>2, <4>3, <4>4
    <3>4. CASE f = "network"
      <4>1. RemoveNetwork
        BY <1>1, <1>9, <3>4 DEF CallDeferred
      <4>2. left = 3
        <5>1. f \notin Kinds
          BY <3>4 DEF Kinds
        <5>2. left \in 4 .. Len(deferred) => f \in Kinds
          BY <1>2 DEF Stacked, f
        <5> QED
          BY <1>2, <3>4, <5>1, <5>2 DEF Stacked, f
      <4>3. Remaining \subseteq Infrastructure
        BY <1>2, <4>2 DEF Stacked, Remaining, Infrastructure
      <4>4. \A e \in Kinds : e \notin Remaining
        BY <4>3 DEF Kinds, Infrastructure
      <4>5. containers = {}
        BY <1>4, <1>6, <1>7, <2>4, <3>2, <4>4 DEF Kinds
      <4>6. open' = open \ {"network"} /\ containers' = containers
        BY <1>6, <2>4, <3>1, <4>1, <4>5 DEF RemoveNetwork, Fault, worldVars
      <4> QED
        BY <1>3, <3>2, <3>4, <4>5, <4>6
    <3>5. CASE f \in {"client", "logs"}
      <4>1. open' = open \ {f} /\ containers' = containers
        BY <1>1, <1>9, <3>5 DEF CallDeferred, vars
      <4>2. \A e \in Servers : e # f
        BY <3>5
      <4> QED
        BY <1>3, <3>2, <4>1, <4>2
    <3> QED
      BY <1>2, <2>2, <3>3, <3>4, <3>5 DEF Kinds, Infrastructure
  <2> QED
    BY <1>1, <1>4, <2>1, <2>3, <2>4 DEF SweepInv, Before, After
<1> QED
  BY <1>1, <1>8, <1>9 DEF CallDeferred

\* While IT.Cleanup runs, only TestMain moves.
LEMMA TeardownAlone ==
  ASSUME OrderInv, SweepInv, pc[Main] = "teardown", NEW g \in Goroutines, Goroutine(g)
  PROVE  g = Main /\ (InCreator(Main) \/ Unwind(Main))
<1> USE MainAssumption
<1>1. ASSUME NEW t \in Tests PROVE ~Goroutine(t)
  <2>1. pc[t] \in {"waiting", "ended"} /\ at[t] = "idle" /\ t \in Goroutines
    BY OnlyMain DEF Tests
  <2>2. ~InCreator(t)
    BY <2>1, InCreatorMoves DEF OrderInv
  <2> QED
    BY <2>1, <2>2
    DEF Goroutine, Proceed, Ask, NoBinary, GetPool, GetServer, Receive, Register,
        CreateDatabase, TestCleanup, TestDone, Unwind, EndTest, IsIn, IsAt
<1>2. g = Main
  BY <1>1 DEF Tests
<1>3. InCreator(Main) \/ Receive(Main) \/ Unwind(Main)
  BY <1>2
  DEF Goroutine, Proceed, Ask, NoBinary, GetPool, GetServer, CreateDatabase, TestCleanup,
      TestDone, EndTest, IsIn, Tests
<1>4. ~Receive(Main)
  BY DEF SweepInv, Receive, Register, IsAt, Before, After
<1> QED
  BY <1>2, <1>3, <1>4

LEMMA GoroutineKeepsSweep ==
  ASSUME OrderInv, CreatorInv, OwnerInv, SweepInv, NEW g \in Goroutines, Goroutine(g)
  PROVE  SweepInv'
<1> USE MainAssumption, NoneAssumption
<1>1. /\ pc \in [Goroutines -> MainPlaces \cup TestPlaces] /\ at \in [Goroutines -> Steps]
      /\ todo \in [Goroutines -> SUBSET Instances]
  BY DEF OrderInv, PlacesInv, CreatorInv, TypeOK
<1>2. CASE pc[Main] = "teardown"
  <2>1. InCreator(Main) \/ Unwind(Main)
    BY <1>2, TeardownAlone
  <2>2. CASE Unwind(Main)
    <3>1. /\ at'[Main] = "idle" /\ todo'[Main] = {} /\ process' = "crashed"
      BY <1>1, <1>2, <2>2 DEF Unwind
    <3> QED
      BY <3>1 DEF SweepInv, Before, After
  <2> QED
    BY <1>2, <2>1, <2>2, SweepStepKeeps
<1>3. CASE pc[Main] # "teardown"
  <2>1. pc'[Main] # "teardown"
    <3>1. CASE UNCHANGED pc
      BY <1>3, <3>1
    <3>2. CASE \E place \in {"body", "get", "database", "deferred", "ending", "ended"} :
                 pc' = [pc EXCEPT ![g] = place]
      BY <1>1, <1>3, <3>2
    <3> QED
      BY <1>3, <3>1, <3>2
      DEF Goroutine, Proceed, Ask, NoBinary, GetPool, GetServer, InCreator, Receive,
          CreateDatabase, TestCleanup, TestDone, Unwind, EndTest, MoveTo, itVars
  <2>2. CASE UNCHANGED <<at, todo>>
    BY <2>1, <2>2, OutsideSweep
  <2>3. CASE todo' = todo /\ \E step : at' = [at EXCEPT ![g] = step]
               /\ (at[g] \in {"loop", "panicked"} \cup Cleaning =>
                     step \in {"loop", "panicked"} \cup Cleaning)
    BY <1>1, <2>1, <2>3, OutsideSweep
  <2>4. CASE at' = [at EXCEPT ![g] = "idle"] /\ (todo' = [todo EXCEPT ![g] = {}]
               \/ (todo' = todo /\ todo[g] = {}))
    BY <1>1, <2>1, <2>4, OutsideSweep
  <2>5. CASE \/ TestDone(g) \/ EndTest(g) \/ (GetServer(g) /\ UNCHANGED vars)
             \/ \E k \in Kinds, withT \in BOOLEAN : Ask(g, k, withT)
    BY <2>2, <2>5 DEF TestDone, EndTest, Ask, vars
  <2>6. CASE NoBinary(g) \/ CreateDatabase(g) \/ TestCleanup(g)
    BY <1>1, <2>2, <2>3, <2>6
    DEF NoBinary, CreateDatabase, TestCleanup, BeginCleanup, DropDatabase, Goto, vars, IsIn,
        Cleaning
  <2>7. CASE GetPool(g) \/ (GetServer(g) /\ ~UNCHANGED vars)
    <3>1. at[g] = "idle" /\ todo' = todo /\ \E step : at' = [at EXCEPT ![g] = step]
      BY <2>7 DEF GetPool, GetServer, Begin, IsAt, Goto
    <3> QED
      BY <2>3, <3>1 DEF Cleaning
  <2>8. CASE Receive(g)
    <3>1. at[g] = "register" /\ todo' = todo /\ at' = [at EXCEPT ![g] = "idle"]
      BY <2>8 DEF Receive, Register, IsAt, Goto
    <3> QED
      BY <2>3, <3>1 DEF Cleaning
  <2>9. CASE Unwind(g)
    BY <2>4, <2>9 DEF Unwind
  <2>10. CASE InCreator(g)
    <3>1. CASE CreateStep(g)
      <4>1. at[g] \notin {"loop", "panicked"} \cup Cleaning /\ todo' = todo
        BY <3>1
        DEF CreateStep, CreateConfigFile, WriteConfigFile, TakeNumber, Prepare,
            CreateContainer, StartContainer, AwaitReady, IsAt, Cleaning
      <4>2. at' = at \/ \E step : at' = [at EXCEPT ![g] = step]
        BY <3>1
        DEF CreateStep, CreateConfigFile, WriteConfigFile, TakeNumber, Prepare,
            CreateContainer, StartContainer, AwaitReady, Goto
      <4> QED
        BY <2>2, <2>3, <4>1, <4>2
    <3>2. CASE DeleteFromRunning(g) \/ RemoveContainer(g) \/ RemoveConfigFile(g) \/ CallFails(g)
      <4>1. /\ todo' = todo
            /\ at' = at \/ \E step \in {"loop", "panicked"} \cup Cleaning :
                            at' = [at EXCEPT ![g] = step]
        BY <3>2
        DEF DeleteFromRunning, RemoveContainer, RemoveConfigFile, CallFails, Finish, Goto,
            Cleaning
      <4> QED
        BY <2>2, <2>3, <4>1
    <3>3. CASE CleanupNext(g)
      <4>1. CASE Goto(g, "idle") /\ todo[g] = {} /\ todo' = todo
        BY <2>4, <4>1 DEF Goto
      <4>2. CASE Goto(g, "delete")
        <5>1. at'[g] \in Cleaning /\ \A h \in Goroutines : h # g => at'[h] = at[h]
          BY <1>1, <4>2 DEF Goto, Cleaning
        <5>2. \A h \in Goroutines : h # g => todo'[h] = todo[h]
          BY <1>1, <3>3 DEF CleanupNext
        <5> QED
          BY <2>1, <5>1, <5>2, OutsideSweep
      <4> QED
        BY <3>3, <4>1, <4>2 DEF CleanupNext
    <3> QED
      BY <2>10, <3>1, <3>2, <3>3 DEF InCreator, CleanupStep
  <2> QED
    BY <2>5, <2>6, <2>7, <2>8, <2>9, <2>10 DEF Goroutine, Proceed
<1> QED
  BY <1>2, <1>3

LEMMA NextSweepInv ==
  ASSUME OrderInv, CreatorInv, LockInv, OwnerInv, RestInv, CreatorsInv, HeldInv, SweepInv,
         [ITNext]_allVars
  PROVE  SweepInv'
<1> USE MainAssumption
<1>1. pc \in [Goroutines -> MainPlaces \cup TestPlaces]
  BY DEF OrderInv, PlacesInv
<1>2. CASE SetUp \/ RunTests \/ TestsDone \/ TeardownDone
  <2>1. UNCHANGED <<at, todo>>
    BY <1>2 DEF SetUp, NewIT, RunTests, TestsDone, TeardownDone, vars
  <2>2. pc'[Main] # "teardown"
    <3>1. CASE RunTests \/ TestsDone \/ TeardownDone
      BY <1>1, <3>1 DEF RunTests, TestsDone, TeardownDone, MoveTo
    <3>2. ASSUME NEW part \in Infrastructure, NewIT(part) PROVE pc'[Main] # "teardown"
      BY <1>1, <3>2 DEF NewIT, IsIn, MoveTo, Infrastructure
    <3> QED
      BY <1>2, <3>1, <3>2 DEF SetUp
  <2> QED
    BY <2>1, <2>2, OutsideSweep
<1>3. CASE UNCHANGED allVars
  BY <1>3 DEF SweepInv, Remaining, allVars, vars, itVars
<1> QED
  BY <1>2, <1>3, LockKeepsSweep, TeardownKeepsSweep, GoroutineKeepsSweep
  DEF ITNext, TearDown, Ended

\* The process ends once.
LEMMA EndIsFinal ==
  ASSUME ITNext, process # "up"
  PROVE  UNCHANGED allVars
<1>1. ASSUME NEW g \in Goroutines, Goroutine(g) PROVE FALSE
  BY <1>1
  DEF Goroutine, Proceed, Ask, NoBinary, GetPool, GetServer, InCreator, Receive, Register,
      CreateDatabase, TestCleanup, TestDone, Unwind, EndTest, IsIn, IsAt, CallFails,
      CreateStep, CreateConfigFile, WriteConfigFile, TakeNumber, Prepare, CreateContainer,
      StartContainer, AwaitReady, CleanupStep, DeleteFromRunning, RemoveContainer,
      RemoveConfigFile, CleanupNext
<1>2. ~(SetUp \/ RunTests \/ TearDown)
  BY DEF SetUp, NewIT, RunTests, TearDown, TestsDone, LockForCleanup, Teardown, TeardownDone,
     IsIn
<1> QED
  BY <1>1, <1>2 DEF ITNext, Ended

\* The process is done only when IT.Cleanup comes to its end.
LEMMA DoneAtTheEnd ==
  ASSUME CreatorInv, ITNext, process = "up", process' = "done"
  PROVE  TeardownDone
<1>1. ASSUME NEW g \in Goroutines, Goroutine(g) PROVE FALSE
  BY <1>1
  DEF Goroutine, Proceed, Ask, NoBinary, GetPool, GetServer, InCreator, Receive, Register,
      CreateDatabase, TestCleanup, TestDone, Unwind, EndTest, CallFails, CreateStep,
      CreateConfigFile, WriteConfigFile, TakeNumber, Prepare, CreateContainer,
      StartContainer, AwaitReady, CleanupStep, DeleteFromRunning, RemoveContainer,
      RemoveConfigFile, CleanupNext, Begin, BeginCleanup, DropDatabase, FailureMode, vars
<1>2. ~(SetUp \/ RunTests \/ TestsDone \/ LockForCleanup \/ Teardown)
  BY DEF SetUp, NewIT, RunTests, TestsDone, LockForCleanup, Teardown, CallDeferred,
     CleanupAll, CleanupServer, RemoveNetwork, vars
<1> QED
  BY <1>1, <1>2 DEF ITNext, TearDown, Ended

\* The inductive invariant of all of the above.
SafeInv ==
  /\ OrderInv /\ CreatorInv /\ LockInv /\ WantInv /\ OwnerInv /\ RestInv
  /\ CreatorsInv /\ HeldInv /\ PanicInv /\ SweepInv

LEMMA SafeInvariance == ITSpec => []SafeInv
<1>1. ITInit => SafeInv
  BY InitOrderInv, InitIInv, InitLockInv, InitOwnerInv, InitSweepInv
  DEF ITInit, Init, IInv, SafeInv, RestInv
<1>2. SafeInv /\ [ITNext]_allVars => SafeInv'
  BY NextOrderInv, NextCreatorInv, NextLockInv, NextWantInv, NextOwnerInv, NextRestInv,
     NextCreatorsInv, NextHeldInv, NextPanicInv, NextSweepInv DEF SafeInv
<1> QED
  BY <1>1, <1>2, PTL DEF ITSpec

LEMMA TeardownDoneCompletes ==
  ASSUME SafeInv, TeardownDone
  PROVE  CleanupComplete'
<1> USE MainAssumption, NoneAssumption DEF SafeInv
<1> SUFFICES ASSUME process' = "done" PROVE CleanupComplete'
  BY DEF CleanupComplete
<1>1. /\ at[Main] = "idle" /\ pc[Main] = "teardown" /\ left = 0 /\ process = "up"
      /\ Main \notin panicking
      /\ UNCHANGED <<containers, files, open, faults, kind>>
  BY DEF TeardownDone, IsIn, poolVars, worldVars
<1>2. panicking = {}
  BY <1>1, OnlyMain DEF PanicInv, RestInv, Tests
<1>3. \A g \in Goroutines : hand[g] = None
  BY <1>1, OnlyMain DEF CreatorInv, HandInv, Tests
<1>4. Remaining = {}
  BY <1>1 DEF Remaining
<1>5. running = {}
  BY <1>1, <1>4 DEF SweepInv, Cleaning
<1>6. \A i \in containers \cup files : kind[i] \in Servers
  <2>1. \A i \in containers \cup files : i # None
    BY DEF CreatorInv, TypeOK
  <2> QED
    BY <1>2, <1>3, <1>5, <2>1 DEF HeldInv
<1>7. files = {}
  BY <1>6, KindsAssumption DEF HeldInv
<1>8. faults = 0 => containers = {} /\ open = {}
  BY <1>1, <1>2, <1>4, <1>6 DEF SweepInv
<1> QED
  BY <1>1, <1>6, <1>7, <1>8 DEF CleanupComplete

\* When TestMain returns normally, IT.Cleanup has removed every instance and every
\* configuration file, whatever failed; and if nothing failed, everything.
THEOREM NothingIsLeftBehind == ITSpec => []CleanupComplete
<1>1. ITInit => CleanupComplete
  BY DEF ITInit, Init, CleanupComplete
<1>2. SafeInv /\ CleanupComplete /\ [ITNext]_allVars => CleanupComplete'
  <2> SUFFICES ASSUME SafeInv, CleanupComplete, [ITNext]_allVars, process' = "done"
               PROVE  CleanupComplete'
    BY DEF CleanupComplete
  <2>1. CASE UNCHANGED allVars
    BY <2>1 DEF CleanupComplete, allVars, vars, itVars
  <2>2. CASE ITNext /\ process # "up"
    BY <2>1, <2>2, EndIsFinal
  <2>3. CASE ITNext /\ process = "up"
    BY <2>3, DoneAtTheEnd, TeardownDoneCompletes DEF SafeInv
  <2> QED
    BY <2>1, <2>2, <2>3
<1> QED
  BY <1>1, <1>2, SafeInvariance, PTL DEF ITSpec

-----------------------------------------------------------------------------
(* Icinga DB does not outlive what it uses.                                *)

\* Where a goroutine is when it is inside a creator; the tests wait for m.Run.
PhaseInv ==
  /\ \A g \in Goroutines :
       /\ at[g] \in Before \cup After => pc[g] \in {"body", "database"}
       /\ at[g] \in Cleaning \cup {"loop"} => pc[g] \in {"ending", "teardown"}
  /\ pc[Main] \notin {"run", "deferred", "teardown", "returned"} =>
       \A t \in Tests : pc[t] = "waiting"

\* None might be any value but those of Kinds.
IsIcingaDb(i) == kind[i] = "icingadb" /\ kind[i] \in Pools

\* What an Icinga DB instance was given: a Redis server of the same test or of
\* no test, and a database in a server that is there.
LinkInv ==
  \A i \in Instances : IsIcingaDb(i) =>
    /\ uses[i] \in returned /\ kind[uses[i]] = "redis"
    /\ owner[uses[i]] \in {None, owner[i]}
    /\ rdb[i] \in creator \cap Servers

\* A goroutine works on its own instances and on those of no test.
HandsInv ==
  \A g \in Goroutines :
    hand[g] # None /\ kind[hand[g]] \in Pools => owner[hand[g]] \in {g, None}

\* An instance stays until the end of its test, or until IT.Cleanup.
StillInv ==
  \A i \in returned : kind[i] \in Pools =>
    \/ i \in running
    \/ owner[i] = None /\ pc[Main] \in {"teardown", "returned"}
    \/ owner[i] # None /\ pc[owner[i]] \in {"ending", "ended"}

\* A test's own Redis server was registered before the Icinga DB that uses it.
ListInv ==
  \A g \in Goroutines : \A n \in DOMAIN cleanups[g] :
    LET i == cleanups[g][n] IN
    i \in Instances /\ IsIcingaDb(i) /\ owner[uses[i]] = g =>
      \E m \in 1 .. n - 1 : cleanups[g][m] = uses[i]

\* deferredCleanup has one entry for each pool, Redis before Icinga DB.
StackInv ==
  /\ \A e \in DOMAIN deferred : deferred[e] = "icingadb" =>
       \E d \in 1 .. e - 1 : deferred[d] = "redis"
  /\ \A d, e \in DOMAIN deferred :
       deferred[d] \in Pools /\ deferred[d] = deferred[e] => d = e
  /\ Range(deferred) \cap Pools \subseteq creator

\* A server that was published is there until IT.Cleanup.
ServerInv ==
  pc[Main] \notin {"teardown", "returned"} =>
    \A k \in creator \cap Servers : \E s \in containers : kind[s] = k

\* When IT.Cleanup comes to the Redis servers, no Icinga DB is left.
LastInv ==
  process = "up" /\ pc[Main] = "teardown" /\ panicking = {} =>
    \A r \in todo[Main] \cup {hand[Main]}, i \in containers :
      r \in Instances => ~(kind[r] = "redis" /\ IsIcingaDb(i))

\* The steps that do not allocate, list or return an instance, or unlist one.
Plain == UNCHANGED <<kind, running, returned, owner, uses, rdb, creator>>

LEMMA InCreatorIsPlain ==
  ASSUME NEW g \in Goroutines, InCreator(g)
  PROVE  Plain \/ (DeleteFromRunning(g) /\ UNCHANGED itVars)
  BY DEF InCreator, Plain, CreateStep, CreateConfigFile, WriteConfigFile, TakeNumber, Prepare,
     CreateContainer, StartContainer, AwaitReady, CleanupStep, RemoveContainer,
     RemoveConfigFile, CleanupNext, CallFails, poolVars, itVars

\* One by one, the steps that are not.
LEMMA StepKinds ==
  ASSUME [ITNext]_allVars
  PROVE  \/ Plain
         \/ \E g \in Goroutines :
              \/ GetPool(g) \/ Receive(g)
              \/ GetServer(g) /\ Begin(g, want[g][1]) /\ mutex' = g
              \/ DeleteFromRunning(g) /\ UNCHANGED itVars
<1>1. CASE UNCHANGED allVars
  BY <1>1 DEF Plain, allVars, vars, itVars
<1>2. CASE SetUp \/ RunTests \/ TearDown
  BY <1>2
  DEF SetUp, NewIT, RunTests, TearDown, TestsDone, LockForCleanup, Teardown, TeardownDone,
      CallDeferred, CleanupAll, CleanupServer, RemoveNetwork, Plain, vars, poolVars
<1>3. ASSUME NEW g \in Goroutines, Goroutine(g)
      PROVE  \/ Plain \/ GetPool(g) \/ Receive(g)
             \/ GetServer(g) /\ Begin(g, want[g][1]) /\ mutex' = g
             \/ DeleteFromRunning(g) /\ UNCHANGED itVars
  <2>1. CASE GetServer(g)
    BY <2>1 DEF GetServer, Plain, vars
  <2>2. CASE InCreator(g)
    BY <2>2, InCreatorIsPlain
  <2>3. CASE \/ NoBinary(g) \/ CreateDatabase(g) \/ TestDone(g) \/ EndTest(g) \/ Unwind(g)
             \/ \E k \in Kinds, withT \in BOOLEAN : Ask(g, k, withT)
    BY <2>3 DEF NoBinary, CreateDatabase, TestDone, EndTest, Unwind, Ask, Plain, vars, poolVars
  <2>4. CASE TestCleanup(g)
    BY <2>4 DEF TestCleanup, BeginCleanup, DropDatabase, Plain, vars, poolVars
  <2> QED
    BY <1>3, <2>1, <2>2, <2>3, <2>4 DEF Goroutine, Proceed
<1> QED
  BY <1>1, <1>2, <1>3 DEF ITNext, Ended

\* What an instance is and belongs to is settled when it is allocated, and
\* nothing that was returned or published is taken back.
Settling ==
  /\ \A i \in Instances : kind[i] \in Kinds =>
       /\ kind'[i] = kind[i] /\ owner'[i] = owner[i]
       /\ uses'[i] = uses[i] /\ rdb'[i] = rdb[i]
  /\ returned \subseteq returned' /\ creator \subseteq creator'

LEMMA StepSettles ==
  ASSUME SafeInv, [ITNext]_allVars
  PROVE  Settling
<1> USE NoneAssumption, KindsAssumption DEF SafeInv
<1>1. /\ kind \in [Instances -> Kinds \cup {None}]
      /\ hand \in [Goroutines -> Instances \cup {None}]
      /\ owner \in [Instances -> Tests \cup {None}]
      /\ uses \in [Instances -> Instances \cup {None}]
      /\ rdb \in [Instances -> Servers \cup {None}]
  BY DEF CreatorInv, TypeOK, OwnerInv, BelongsInv, RestInv
<1>2. CASE Plain
  BY <1>2 DEF Plain, Settling
<1>3. ASSUME NEW g \in Goroutines, DeleteFromRunning(g) /\ UNCHANGED itVars PROVE Settling
  BY <1>3 DEF DeleteFromRunning, itVars, Settling
<1>4. ASSUME NEW g \in Goroutines, Receive(g) PROVE Settling
  BY <1>4 DEF Receive, Register, Settling
<1>5. ASSUME NEW g \in Goroutines, GetPool(g) PROVE Settling
  <2>1. PICK i \in Instances : /\ kind[i] = None /\ kind' = [kind EXCEPT ![i] = want[g][1]]
                               /\ hand' = [hand EXCEPT ![g] = i]
    BY <1>5 DEF GetPool, Begin
  <2>2. hand'[g] = i /\ returned' = returned /\ creator \subseteq creator'
    BY <1>1, <1>5, <2>1 DEF GetPool, Begin
  <2>3. \A j \in Instances : j # i =>
          /\ kind'[j] = kind[j] /\ owner'[j] = owner[j]
          /\ uses'[j] = uses[j] /\ rdb'[j] = rdb[j]
    BY <1>1, <1>5, <2>1, <2>2 DEF GetPool
  <2>4. kind[i] \notin Kinds
    BY <2>1
  <2> QED
    BY <2>2, <2>3, <2>4 DEF Settling
<1>6. ASSUME NEW g \in Goroutines, GetServer(g), Begin(g, want[g][1]) PROVE Settling
  BY <1>1, <1>6 DEF GetServer, Begin, Settling
<1> QED
  BY <1>2, <1>3, <1>4, <1>5, <1>6, StepKinds

\* A step of a goroutine that is inside a creator, or enters or leaves one.
PhaseStep(g) ==
  /\ \A h \in Goroutines : h # g => at'[h] = at[h] /\ pc'[h] = pc[h]
  /\ pc[g] \in {"body", "get", "database", "ending", "teardown"}
  /\ \/ pc'[g] = pc[g]
     \/ g \in Tests
     \/ g = Main /\ pc[g] # "teardown" /\ pc'[g] \in {"body", "get", "database", "deferred"}
  /\ at'[g] \in Before \cup After => pc'[g] \in {"body", "database"}
  /\ at'[g] \in Cleaning \cup {"loop"} => pc'[g] \in {"ending", "teardown"}

LEMMA PhaseStepKeeps ==
  ASSUME OrderInv, PhaseInv, NEW g \in Goroutines, PhaseStep(g)
  PROVE  PhaseInv'
<1> USE MainAssumption DEF Tests, PhaseStep
<1>1. g # Main => pc[Main] = "run" \/ pc[g] = "ended" \/ pc[g] = "waiting"
  BY DEF OrderInv, ActiveInv
<1>2. pc'[Main] \notin {"run", "deferred", "teardown", "returned"} =>
        \A t \in Tests : pc'[t] = "waiting"
  BY <1>1 DEF PhaseInv
<1> QED
  BY <1>2 DEF PhaseInv

LEMMA InCreatorPhase ==
  ASSUME OrderInv, PhaseInv, NEW g \in Goroutines, InCreator(g)
  PROVE  PhaseStep(g)
<1> USE DEF Before, After, Cleaning
<1>1. /\ at[g] # "idle" /\ at' \in [Goroutines -> Steps] /\ pc' = pc
      /\ \A h \in Goroutines : h # g => at'[h] = at[h]
  BY InCreatorMoves DEF OrderInv, InCreator, itVars
<1>2. pc[g] \in {"body", "database", "ending", "teardown"}
  BY <1>1 DEF OrderInv, ActiveInv
<1>3. at \in [Goroutines -> Steps]
  BY DEF OrderInv, PlacesInv
<1>4. \/ at[g] \in Before \cup After /\ at'[g] \in Before \cup After \cup {"panicked"}
      \/ at[g] \in Cleaning \cup {"loop"} /\
           at'[g] \in Cleaning \cup {"loop", "idle", "panicked"}
      \/ at'[g] = at[g] \/ at'[g] = "panicked"
  <2>1. CASE CreateStep(g)
    BY <1>3, <2>1
    DEF CreateStep, CreateConfigFile, WriteConfigFile, TakeNumber, Prepare, CreateContainer,
        StartContainer, AwaitReady, IsAt, Goto
  <2>2. CASE CleanupStep(g)
    BY <1>3, <2>2
    DEF CleanupStep, DeleteFromRunning, RemoveContainer, RemoveConfigFile, CleanupNext, Finish,
        IsAt, Goto
  <2>3. CASE CallFails(g)
    BY <1>3, <2>3 DEF CallFails, Goto
  <2> QED
    BY <2>1, <2>2, <2>3 DEF InCreator
<1> QED
  BY <1>1, <1>2, <1>4 DEF PhaseStep, PhaseInv

LEMMA GoroutinePhase ==
  ASSUME OrderInv, CreatorInv, PhaseInv, NEW g \in Goroutines, Goroutine(g)
  PROVE  PhaseStep(g)
<1> USE MainAssumption, KindsAssumption DEF Before, After, Cleaning, Tests, IsIn, IsAt, Goto, MoveTo
<1>1. at \in [Goroutines -> Steps] /\ pc \in [Goroutines -> MainPlaces \cup TestPlaces]
  BY DEF OrderInv, PlacesInv
<1>2. pc[g] = "ending" => g \in Tests
  BY DEF OrderInv, PlacesInv, MainPlaces, Tests
<1>3. CASE \/ NoBinary(g) \/ TestDone(g) \/ EndTest(g) \/ CreateDatabase(g)
           \/ \E k \in Kinds, withT \in BOOLEAN : Ask(g, k, withT)
  BY <1>1, <1>2, <1>3
  DEF PhaseStep, NoBinary, TestDone, EndTest, CreateDatabase, Ask, vars
<1>4. CASE TestCleanup(g)
  BY <1>1, <1>2, <1>4 DEF PhaseStep, TestCleanup, BeginCleanup, DropDatabase, vars
<1>5. CASE GetPool(g) \/ GetServer(g)
  <2>1. FirstStep(want[g][1]) \in {"config", "name", "prepare"}
    BY DEF FirstStep
  <2> QED
    BY <1>1, <1>5, <2>1 DEF PhaseStep, GetPool, GetServer, Begin, vars
<1>6. CASE Receive(g)
  BY <1>1, <1>6 DEF PhaseStep, Receive, Register, OrderInv, ActiveInv
<1>7. CASE Unwind(g)
  BY <1>1, <1>7 DEF PhaseStep, Unwind, OrderInv, ActiveInv
<1> QED
  BY <1>3, <1>4, <1>5, <1>6, <1>7, InCreatorPhase DEF Goroutine, Proceed

LEMMA NextPhaseInv ==
  ASSUME OrderInv, CreatorInv, PhaseInv, [ITNext]_allVars
  PROVE  PhaseInv'
<1> USE MainAssumption DEF Before, After, Cleaning, Tests, IsIn, Goto, MoveTo
<1>1. at \in [Goroutines -> Steps] /\ pc \in [Goroutines -> MainPlaces \cup TestPlaces]
  BY DEF OrderInv, PlacesInv
<1>2. ASSUME NEW part \in Infrastructure, NewIT(part) PROVE PhaseInv'
  BY <1>1, <1>2 DEF PhaseInv, NewIT, Infrastructure
<1>3. CASE RunTests
  <2>1. /\ at' = at /\ pc[Main] = "body" /\ at[Main] = "idle"
        /\ pc' = [g \in Goroutines |-> IF g = Main THEN "run" ELSE "body"]
    BY <1>3 DEF RunTests, vars
  <2>2. \A t \in Tests : at[t] = "idle"
    BY <2>1 DEF PhaseInv, OrderInv, ActiveInv
  <2> QED
    BY <2>1, <2>2 DEF PhaseInv
<1>4. CASE TestsDone \/ LockForCleanup \/ TeardownDone
  BY <1>1, <1>4 DEF PhaseInv, TestsDone, LockForCleanup, TeardownDone, vars
<1>5. CASE Teardown
  <2>1. at' = at \/ at' = [at EXCEPT ![Main] = "loop"]
    BY <1>5 DEF Teardown, CallDeferred, CleanupAll, CleanupServer, RemoveNetwork, vars
  <2>2. pc' = pc /\ pc[Main] = "teardown"
    BY <1>5 DEF Teardown
  <2> QED
    BY <1>1, <2>1, <2>2 DEF PhaseInv
<1>6. CASE UNCHANGED allVars
  BY <1>6 DEF PhaseInv, allVars, vars, itVars
<1> QED
  BY <1>2, <1>3, <1>4, <1>5, <1>6, GoroutinePhase, PhaseStepKeeps
  DEF ITNext, SetUp, TearDown, Ended

LEMMA NextLinkInv ==
  ASSUME SafeInv, LinkInv, [ITNext]_allVars
  PROVE  LinkInv'
<1> USE NoneAssumption, KindsAssumption DEF SafeInv
<1>1. /\ kind \in [Instances -> Kinds \cup {None}] /\ returned \subseteq Instances
      /\ uses \in [Instances -> Instances \cup {None}]
      /\ rdb \in [Instances -> Servers \cup {None}]
      /\ owner \in [Instances -> Tests \cup {None}]
      /\ hand \in [Goroutines -> Instances \cup {None}]
  BY DEF CreatorInv, TypeOK, RestInv, OwnerInv, BelongsInv
<1>2. Settling
  BY StepSettles
<1>3. \A r \in returned : r \in Instances /\ kind[r] \in Kinds
  BY <1>1 DEF CreatorInv, KindInv
<1> SUFFICES ASSUME NEW i \in Instances, kind'[i] = "icingadb", kind'[i] \in Pools
             PROVE  /\ uses'[i] \in returned' /\ kind'[uses'[i]] = "redis"
                    /\ owner'[uses'[i]] \in {None, owner'[i]}
                    /\ rdb'[i] \in creator' \cap Servers
  BY DEF LinkInv, IsIcingaDb
<1>4. CASE kind[i] \in Kinds
  <2>1. kind[i] = "icingadb" /\ uses'[i] = uses[i] /\ rdb'[i] = rdb[i] /\ owner'[i] = owner[i]
    BY <1>2, <1>4 DEF Settling
  <2>2. /\ uses[i] \in returned /\ kind[uses[i]] = "redis"
        /\ owner[uses[i]] \in {None, owner[i]} /\ rdb[i] \in creator \cap Servers
    BY <2>1 DEF LinkInv, IsIcingaDb
  <2> QED
    BY <1>2, <1>3, <2>1, <2>2 DEF Settling
<1>5. CASE kind[i] = None
  <2>1. kind' # kind
    BY <1>5 DEF Kinds
  <2>2. PICK g \in Goroutines : GetPool(g) \/ (GetServer(g) /\ Begin(g, want[g][1]))
    BY <2>1, StepKinds DEF Plain, Receive, Register, DeleteFromRunning
  <2>3. PICK j \in Instances : /\ kind[j] = None /\ kind' = [kind EXCEPT ![j] = want[g][1]]
                               /\ hand' = [hand EXCEPT ![g] = j]
    BY <2>2 DEF GetPool, Begin
  <2>4. j = i /\ want[g][1] = "icingadb" /\ hand'[g] = i
    BY <1>1, <1>5, <2>3 DEF Kinds
  <2>5. GetPool(g)
    BY <2>2, <2>4 DEF GetServer
  <2>6. PICK r \in Redis(g, want[g][2]), s \in creator \cap Servers :
          uses' = [uses EXCEPT ![i] = r] /\ rdb' = [rdb EXCEPT ![i] = s]
    BY <2>4, <2>5 DEF GetPool
  <2>7. owner'[i] = IF want[g][2] THEN g ELSE None
    BY <1>1, <2>4, <2>5 DEF GetPool
  <2>8. uses'[i] = r /\ rdb'[i] = s
    BY <1>1, <2>6
  <2>9. /\ r \in returned /\ kind[r] = "redis"
        /\ owner[r] = None \/ (want[g][2] /\ owner[r] = g)
    BY <2>6 DEF Redis
  <2>10. r \in Instances /\ kind[r] \in Kinds
    BY <1>3, <2>9
  <2> QED
    BY <1>2, <2>7, <2>8, <2>9, <2>10, <2>6 DEF Settling
<1> QED
  BY <1>1, <1>4, <1>5

\* Whoever panics keeps in hand what it had in hand.
LEMMA PanickedKeepsHand ==
  ASSUME CreatorInv, [ITNext]_allVars, NEW h \in Goroutines, at'[h] = "panicked"
  PROVE  hand'[h] = hand[h]
<1> USE DEF Goto, Before, After, Cleaning
<1>1. at \in [Goroutines -> Steps] /\ hand \in [Goroutines -> Instances \cup {None}]
  BY DEF CreatorInv, TypeOK
<1>2. CASE SetUp \/ RunTests \/ TearDown \/ UNCHANGED allVars
  BY <1>2
  DEF SetUp, NewIT, RunTests, TearDown, TestsDone, LockForCleanup, Teardown, TeardownDone,
      CallDeferred, CleanupAll, CleanupServer, RemoveNetwork, allVars, vars
<1>3. ASSUME NEW g \in Goroutines, Goroutine(g) PROVE hand'[h] = hand[h]
  <2>1. CASE hand' = hand
    BY <2>1
  <2>2. CASE \E i, step : /\ hand' = [hand EXCEPT ![g] = i]
                          /\ at' = [at EXCEPT ![g] = step] /\ step # "panicked"
    BY <1>1, <2>2
  <2>3. CASE GetPool(g) \/ GetServer(g)
    <3>1. FirstStep(want[g][1]) # "panicked"
      BY DEF FirstStep
    <3>2. Begin(g, want[g][1]) => \E i : hand' = [hand EXCEPT ![g] = i]
      BY DEF Begin
    <3> QED
      BY <2>1, <2>2, <2>3, <3>1, <3>2 DEF GetPool, GetServer, Begin, vars
  <2>4. CASE Receive(g) \/ Unwind(g)
    BY <2>2, <2>4 DEF Receive, Register, Unwind
  <2>5. CASE \/ NoBinary(g) \/ TestDone(g) \/ EndTest(g) \/ CreateDatabase(g)
             \/ \E k \in Kinds, withT \in BOOLEAN : Ask(g, k, withT)
    BY <2>1, <2>5 DEF NoBinary, TestDone, EndTest, CreateDatabase, Ask, vars
  <2>6. CASE TestCleanup(g)
    BY <2>1, <2>2, <2>6 DEF TestCleanup, BeginCleanup, DropDatabase, vars
  <2>7. CASE InCreator(g)
    <3>1. CASE CreateStep(g) \/ CallFails(g)
      BY <2>1, <3>1
      DEF CreateStep, CreateConfigFile, WriteConfigFile, TakeNumber, Prepare, CreateContainer,
          StartContainer, AwaitReady, CallFails
    <3>2. CASE CleanupStep(g)
      BY <2>1, <2>2, <3>2
      DEF CleanupStep, DeleteFromRunning, RemoveContainer, RemoveConfigFile, CleanupNext, Finish
    <3> QED
      BY <2>7, <3>1, <3>2 DEF InCreator
  <2> QED
    BY <1>3, <2>3, <2>4, <2>5, <2>6, <2>7 DEF Goroutine, Proceed
<1> QED
  BY <1>2, <1>3 DEF ITNext, Ended

LEMMA NextHandsInv ==
  ASSUME SafeInv, SafeInv', HandsInv, [ITNext]_allVars
  PROVE  HandsInv'
<1> USE NoneAssumption DEF SafeInv
<1> SUFFICES ASSUME NEW g \in Goroutines, hand'[g] # None, kind'[hand'[g]] \in Pools
             PROVE  owner'[hand'[g]] \in {g, None}
  BY DEF HandsInv
<1>1. at'[g] \in Steps
  BY DEF CreatorInv, TypeOK
<1>2. CASE at'[g] \in Before \cup After
  BY <1>2 DEF OwnerInv, BelongsInv
<1>3. CASE at'[g] \in Cleaning
  BY <1>3 DEF OwnerInv, CleanerInv
<1>4. CASE at'[g] \in {"idle", "loop"}
  BY <1>4 DEF CreatorInv, HandInv
<1>5. CASE at'[g] = "panicked"
  <2>1. hand'[g] = hand[g] /\ hand[g] \in Instances
    BY <1>5, PanickedKeepsHand DEF CreatorInv, TypeOK
  <2>2. kind[hand[g]] \in Kinds
    BY <2>1 DEF CreatorInv, HandInv
  <2> QED
    BY <2>1, <2>2, StepSettles DEF Settling, HandsInv
<1> QED
  BY <1>1, <1>2, <1>3, <1>4, <1>5 DEF Steps, Before, After, Cleaning

\* A test that ends has ended, and IT.Cleanup is not left again.
LEMMA LaterStays ==
  ASSUME OrderInv, PhaseInv, [ITNext]_allVars
  PROVE  /\ pc[Main] \in {"teardown", "returned"} => pc'[Main] \in {"teardown", "returned"}
         /\ \A t \in Tests : pc[t] \in {"ending", "ended"} => pc'[t] \in {"ending", "ended"}
<1> USE MainAssumption DEF IsIn, IsAt, MoveTo, Tests
<1>1. pc \in [Goroutines -> MainPlaces \cup TestPlaces]
  BY DEF OrderInv, PlacesInv
<1>2. CASE SetUp \/ TearDown \/ UNCHANGED allVars
  BY <1>1, <1>2
  DEF SetUp, NewIT, Infrastructure, TearDown, TestsDone, LockForCleanup, Teardown,
      TeardownDone, allVars, itVars
<1>3. CASE RunTests
  BY <1>1, <1>3 DEF RunTests, PhaseInv
<1>4. ASSUME NEW g \in Goroutines, Goroutine(g)
      PROVE  /\ pc[Main] \in {"teardown", "returned"} => pc'[Main] \in {"teardown", "returned"}
             /\ \A t \in Tests : pc[t] \in {"ending", "ended"} => pc'[t] \in {"ending", "ended"}
  <2>1. CASE pc' = pc
    BY <2>1
  <2>2. CASE /\ pc[g] \notin {"ending", "ended", "teardown", "returned"}
             /\ \E place : pc' = [pc EXCEPT ![g] = place]
    BY <1>1, <2>2
  <2>3. CASE TestDone(g)
    BY <1>1, <2>3 DEF TestDone, OrderInv, PlacesInv, MainPlaces
  <2>4. CASE Unwind(g)
    BY <1>1, <2>4 DEF Unwind, OrderInv, PlacesInv, ActiveInv, TestPlaces
  <2>5. CASE ~(TestDone(g) \/ Unwind(g))
    BY <1>4, <2>1, <2>2, <2>5
    DEF Goroutine, Proceed, Ask, NoBinary, GetPool, GetServer, InCreator, Receive,
        CreateDatabase, TestCleanup, EndTest, itVars
  <2> QED
    BY <2>3, <2>4, <2>5
<1> QED
  BY <1>2, <1>3, <1>4 DEF ITNext, Ended

LEMMA NextStillInv ==
  ASSUME SafeInv, PhaseInv, StillInv, [ITNext]_allVars
  PROVE  StillInv'
<1> USE NoneAssumption, KindsAssumption, MainAssumption DEF SafeInv
<1>1. /\ hand \in [Goroutines -> Instances \cup {None}] /\ returned \subseteq Instances
      /\ running \subseteq returned /\ owner \in [Instances -> Tests \cup {None}]
  BY DEF CreatorInv, TypeOK, ReturnedInv, OwnerInv, BelongsInv
<1> SUFFICES ASSUME NEW i \in returned', kind'[i] \in Pools, i \notin running'
             PROVE  \/ owner'[i] = None /\ pc'[Main] \in {"teardown", "returned"}
                    \/ owner'[i] # None /\ pc'[owner'[i]] \in {"ending", "ended"}
  BY DEF StillInv
<1>2. CASE i \notin returned
  <2>1. PICK g \in Goroutines : Receive(g)
    BY <1>2, StepKinds DEF Plain, GetPool, GetServer, Begin, DeleteFromRunning
  <2>2. /\ returned' = returned \cup {hand[g]} /\ kind' = kind
        /\ running' = IF kind[hand[g]] \in Pools THEN running \cup {hand[g]} ELSE running
    BY <2>1 DEF Receive, Register
  <2> QED
    BY <1>2, <2>2
<1>3. CASE i \in returned
  <2>1. i \in Instances /\ kind[i] \in Kinds
    BY <1>1, <1>3 DEF CreatorInv, KindInv
  <2>2. kind[i] \in Pools /\ owner'[i] = owner[i]
    BY <2>1, StepSettles DEF Settling
  <2>3. owner[i] \in Tests \cup {None} /\ (owner[i] # None => owner[i] \in Tests)
    BY <1>1, <2>1
  <2>4. CASE i \notin running
    BY <1>3, <2>2, <2>3, <2>4, LaterStays DEF StillInv
  <2>5. CASE i \in running
    <3>1. PICK g \in Goroutines : DeleteFromRunning(g) /\ UNCHANGED itVars
      BY <2>5, StepKinds DEF Plain, GetPool, GetServer, Begin, Receive, Register
    <3>2. hand[g] = i /\ at[g] = "delete" /\ pc' = pc
      BY <2>5, <3>1 DEF DeleteFromRunning, IsAt, itVars
    <3>3. owner[i] = IF g = Main THEN None ELSE g
      BY <3>2 DEF OwnerInv, CleanerInv, Cleaning
    <3>4. pc[g] \in {"ending", "teardown"}
      BY <3>2 DEF PhaseInv, Cleaning
    <3>5. g = Main => pc[g] = "teardown"
      BY <3>4 DEF OrderInv, PlacesInv, MainPlaces
    <3>6. g # Main => pc[g] = "ending"
      BY <3>4 DEF OrderInv, PlacesInv, TestPlaces, Tests
    <3> QED
      BY <2>2, <3>2, <3>3, <3>5, <3>6
  <2> QED
    BY <2>4, <2>5
<1> QED
  BY <1>2, <1>3

\* The list of clean-ups of a test grows when a service is received or a
\* database created, and shrinks at its end.
LEMMA CleanupsChange ==
  ASSUME [ITNext]_allVars
  PROVE  \/ cleanups' = cleanups
         \/ \E g \in Goroutines : Receive(g) \/ CreateDatabase(g) \/ TestCleanup(g)
<1>1. CASE SetUp \/ RunTests \/ TearDown \/ UNCHANGED allVars
  BY <1>1
  DEF SetUp, NewIT, RunTests, TearDown, TestsDone, LockForCleanup, Teardown, TeardownDone,
      allVars, itVars
<1> QED
  BY <1>1
  DEF ITNext, Ended, Goroutine, Proceed, Ask, NoBinary, GetPool, GetServer, InCreator, TestDone,
      EndTest, Unwind, itVars

LEMMA NextListInv ==
  ASSUME SafeInv, PhaseInv, LinkInv, StillInv, ListInv, [ITNext]_allVars
  PROVE  ListInv'
<1> USE NoneAssumption, KindsAssumption, MainAssumption DEF SafeInv
<1>1. /\ hand \in [Goroutines -> Instances \cup {None}] /\ returned \subseteq Instances
      /\ running \subseteq returned /\ owner \in [Instances -> Tests \cup {None}]
      /\ cleanups \in [Goroutines -> Seq(Instances \cup Servers)]
  BY DEF CreatorInv, TypeOK, ReturnedInv, OwnerInv, BelongsInv, BoundInv
<1>2. \A j \in returned : j \in Instances /\ kind[j] \in Kinds
  BY <1>1 DEF CreatorInv, KindInv
<1> SUFFICES ASSUME NEW g \in Goroutines, NEW n \in DOMAIN cleanups'[g], NEW i \in Instances,
                    cleanups'[g][n] = i, IsIcingaDb(i)', owner'[uses'[i]] = g
             PROVE  \E m \in 1 .. n - 1 : cleanups'[g][m] = uses'[i]
  BY DEF ListInv
<1> DEFINE s == cleanups[g]
<1>3. /\ s \in Seq(Instances \cup Servers) /\ Len(s) \in Nat /\ DOMAIN s = 1 .. Len(s)
  BY <1>1
<1>4. ASSUME kind[i] \in Kinds
      PROVE  /\ IsIcingaDb(i) /\ uses'[i] = uses[i] /\ uses[i] \in returned
             /\ kind[uses[i]] \in Pools /\ owner[uses[i]] = g /\ kind[uses[i]] = "redis"
             /\ owner'[i] = owner[i]
  <2>1. IsIcingaDb(i) /\ uses'[i] = uses[i] /\ owner'[i] = owner[i]
    BY <1>4, StepSettles DEF Settling, IsIcingaDb
  <2>2. uses[i] \in returned /\ kind[uses[i]] = "redis"
    BY <2>1 DEF LinkInv
  <2>3. uses[i] \in Instances /\ kind[uses[i]] \in Kinds
    BY <1>2, <2>2
  <2>4. owner'[uses[i]] = owner[uses[i]]
    BY <2>3, StepSettles DEF Settling
  <2> QED
    BY <2>1, <2>2, <2>3, <2>4 DEF Kinds
<1>5. ASSUME n \in DOMAIN s, s[n] = i
      PROVE  \E m \in 1 .. n - 1 : s[m] = uses'[i]
  <2>1. i \in Range(s)
    BY <1>5 DEF Range
  <2>2. kind[i] \in Kinds
    BY <1>1, <1>2, <2>1 DEF OwnerInv, BoundInv
  <2> QED
    BY <1>4, <1>5, <2>2 DEF ListInv
<1>6. CASE cleanups'[g] = s
  BY <1>5, <1>6
<1>7. CASE Receive(g) /\ cleanups'[g] = Append(s, hand[g])
  <2>1. /\ owner[hand[g]] = g \/ cleanups'[g] = s
        /\ at[g] = "register" /\ owner' = owner
    BY <1>1, <1>7 DEF Receive, Register, IsAt
  <2>2. hand[g] \in Instances /\ kind[hand[g]] \in Kinds
    BY <2>1 DEF CreatorInv, HandInv
  <2>3. /\ Len(Append(s, hand[g])) = Len(s) + 1
        /\ DOMAIN Append(s, hand[g]) = 1 .. Len(s) + 1
        /\ \A m \in 1 .. Len(s) : Append(s, hand[g])[m] = s[m]
        /\ Append(s, hand[g])[Len(s) + 1] = hand[g]
    BY <1>3, <2>2
  <2>4. CASE n \in 1 .. Len(s)
    BY <1>3, <1>5, <1>7, <2>3, <2>4
  <2>5. CASE n = Len(s) + 1
    <3>1. i = hand[g] /\ cleanups'[g] # s
      BY <1>3, <1>7, <2>3, <2>5
    <3>2. owner[i] = g /\ g \in Tests
      BY <1>1, <2>1, <2>2, <3>1
    <3>3. /\ uses'[i] = uses[i] /\ uses[i] \in returned /\ kind[uses[i]] \in Pools
          /\ owner[uses[i]] = g
      BY <1>4, <2>2, <3>1
    <3>4. pc[g] \in {"body", "database"}
      BY <2>1 DEF PhaseInv, After
    <3>5. uses[i] \in running
      BY <3>2, <3>3, <3>4 DEF StillInv
    <3>6. uses[i] \in Range(s)
      BY <2>1, <3>3, <3>5 DEF OwnerInv, BelongsInv
    <3> QED
      BY <1>3, <1>7, <2>3, <2>5, <3>3, <3>6 DEF Range
  <2> QED
    BY <1>3, <1>7, <2>3, <2>4, <2>5
<1>8. CASE CreateDatabase(g) /\ cleanups'[g] = Append(s, want[g][1])
  <2>1. want[g][1] \in Servers
    BY <1>8 DEF CreateDatabase, IsIn, WantInv
  <2>2. /\ Len(Append(s, want[g][1])) = Len(s) + 1
        /\ DOMAIN Append(s, want[g][1]) = 1 .. Len(s) + 1
        /\ \A m \in 1 .. Len(s) : Append(s, want[g][1])[m] = s[m]
        /\ Append(s, want[g][1])[Len(s) + 1] = want[g][1]
    BY <1>3, <2>1
  <2>3. CASE n \in 1 .. Len(s)
    BY <1>3, <1>5, <1>8, <2>2, <2>3
  <2>4. CASE n = Len(s) + 1
    BY <1>8, <2>1, <2>2, <2>4, DistinctAssumption DEF Kinds
  <2>5. n \in 1 .. Len(s) + 1
    BY <1>8, <2>2
  <2> QED
    BY <1>3, <2>3, <2>4, <2>5
<1>9. CASE s # <<>> /\ cleanups'[g] = Front(s)
  <2>1. /\ Len(s) >= 1 /\ DOMAIN Front(s) = 1 .. Len(s) - 1
        /\ \A m \in 1 .. Len(s) - 1 : Front(s)[m] = s[m]
    BY <1>3, <1>9 DEF Front
  <2> QED
    BY <1>3, <1>5, <1>9, <2>1
<1> QED
  <2>1. ASSUME NEW h \in Goroutines, Receive(h)
        PROVE  \/ cleanups'[g] = s
               \/ g = h /\ cleanups'[g] = Append(s, hand[g])
    BY <1>1, <2>1 DEF Receive
  <2>2. ASSUME NEW h \in Goroutines, CreateDatabase(h)
        PROVE  \/ cleanups'[g] = s
               \/ g = h /\ cleanups'[g] = Append(s, want[g][1])
    BY <1>1, <2>2 DEF CreateDatabase
  <2>3. ASSUME NEW h \in Goroutines, TestCleanup(h)
        PROVE  cleanups'[g] = s \/ (s # <<>> /\ cleanups'[g] = Front(s))
    BY <1>1, <2>3 DEF TestCleanup
  <2> QED
    BY <1>6, <1>7, <1>8, <1>9, <2>1, <2>2, <2>3, CleanupsChange

\* deferredCleanup only grows, and what it gets.
LEMMA DeferredChange ==
  ASSUME [ITNext]_allVars
  PROVE  \/ deferred' = deferred
         \/ \E part \in Infrastructure : deferred' = Append(deferred, part)
         \/ \E g \in Goroutines :
              \/ GetPool(g) /\ want[g][1] \notin creator /\ deferred' = Append(deferred, want[g][1])
              \/ /\ Receive(g) /\ kind[hand[g]] \in Servers
                 /\ deferred' = Append(deferred, kind[hand[g]])
<1>1. CASE SetUp \/ RunTests \/ TearDown \/ UNCHANGED allVars
  BY <1>1
  DEF SetUp, NewIT, RunTests, TearDown, TestsDone, LockForCleanup, Teardown, TeardownDone,
      allVars, itVars
<1> QED
  BY <1>1
  DEF ITNext, Ended, Goroutine, Proceed, Ask, NoBinary, GetPool, GetServer, InCreator, Receive,
      CreateDatabase, TestCleanup, TestDone, EndTest, Unwind, itVars

LEMMA AppendKeepsStack ==
  ASSUME NEW S, deferred \in Seq(S), NEW e \in S, deferred' = Append(deferred, e), StackInv,
         creator \subseteq creator', e \in Pools => e \in creator' \ creator,
         e = "icingadb" => "redis" \in Range(deferred)
  PROVE  StackInv'
<1>1. /\ Len(deferred) \in Nat /\ DOMAIN deferred = 1 .. Len(deferred)
      /\ DOMAIN deferred' = 1 .. Len(deferred) + 1
      /\ \A n \in 1 .. Len(deferred) : deferred'[n] = deferred[n]
      /\ deferred'[Len(deferred) + 1] = e
  OBVIOUS
<1>2. \A n \in 1 .. Len(deferred) : deferred[n] \in Pools => deferred[n] \in creator
  BY <1>1 DEF StackInv, Range
<1>3. ASSUME NEW n \in DOMAIN deferred', deferred'[n] = "icingadb"
      PROVE  \E d \in 1 .. n - 1 : deferred'[d] = "redis"
  <2>1. CASE n \in 1 .. Len(deferred)
    BY <1>1, <1>3, <2>1 DEF StackInv
  <2>2. CASE n = Len(deferred) + 1
    <3>1. PICK d \in DOMAIN deferred : deferred[d] = "redis"
      BY <1>1, <1>3, <2>2 DEF Range
    <3> QED
      BY <1>1, <2>2, <3>1
  <2> QED
    BY <1>1, <2>1, <2>2
<1>4. ASSUME NEW d \in DOMAIN deferred', NEW n \in DOMAIN deferred',
             deferred'[d] \in Pools, deferred'[d] = deferred'[n]
      PROVE  d = n
  BY <1>1, <1>2, <1>4 DEF StackInv
<1>5. Range(deferred') \cap Pools \subseteq creator'
  BY <1>1, <1>2 DEF Range
<1> QED
  BY <1>3, <1>4, <1>5 DEF StackInv

LEMMA NextStackInv ==
  ASSUME SafeInv, StackInv, [ITNext]_allVars
  PROVE  StackInv'
<1> USE NoneAssumption, KindsAssumption, MainAssumption DEF SafeInv
<1>1. deferred \in Seq(Kinds \cup Infrastructure) /\ creator \subseteq creator'
  BY StepSettles DEF RestInv, Settling
<1>2. CASE deferred' = deferred
  BY <1>1, <1>2 DEF StackInv
<1>3. ASSUME NEW part \in Infrastructure, deferred' = Append(deferred, part) PROVE StackInv'
  <2>1. part \notin Pools /\ part # "icingadb"
    BY DEF Infrastructure
  <2> QED
    BY <1>1, <1>3, <2>1, AppendKeepsStack
<1>4. ASSUME NEW g \in Goroutines, GetPool(g), want[g][1] \notin creator,
             deferred' = Append(deferred, want[g][1])
      PROVE  StackInv'
  <2>1. want[g][1] \in creator' \ creator /\ want[g][1] \in Kinds
    BY <1>4 DEF GetPool, Kinds
  <2>2. ASSUME want[g][1] = "icingadb" PROVE "redis" \in Range(deferred)
    <3>1. PICK r \in returned : kind[r] = "redis"
      BY <1>4, <2>2 DEF GetPool, Redis
    <3>2. r \in Instances /\ kind[r] \in Kinds
      BY DEF CreatorInv, TypeOK, KindInv
    <3>3. "redis" \in creator
      BY <3>1, <3>2 DEF CreatorsInv, Kinds
    <3>4. pc[g] = "get"
      BY <1>4 DEF GetPool, IsIn
    <3>5. pc[Main] \notin {"teardown", "returned"}
      BY <3>4 DEF OrderInv, ActiveInv, Tests
    <3> QED
      BY <3>3, <3>5 DEF CreatorsInv
  <2> QED
    BY <1>1, <1>4, <2>1, <2>2, AppendKeepsStack
<1>5. ASSUME NEW g \in Goroutines, kind[hand[g]] \in Servers,
             deferred' = Append(deferred, kind[hand[g]])
      PROVE  StackInv'
  <2>1. kind[hand[g]] \in Kinds \ Pools /\ kind[hand[g]] # "icingadb"
    BY <1>5 DEF Kinds
  <2> QED
    BY <1>1, <1>5, <2>1, AppendKeepsStack
<1> QED
  BY <1>2, <1>3, <1>4, <1>5, DeferredChange

\* Docker gets a container, or loses one, in three places.
LEMMA ContainersChange ==
  ASSUME [ITNext]_allVars
  PROVE  \/ containers' = containers
         \/ \E g \in Goroutines : (CreateContainer(g) \/ RemoveContainer(g)) /\ UNCHANGED itVars
         \/ Teardown /\ deferred[left] \in Servers /\ CleanupServer(deferred[left])
<1>1. CASE SetUp \/ RunTests \/ TearDown \/ UNCHANGED allVars
  BY <1>1
  DEF SetUp, NewIT, RunTests, TearDown, TestsDone, LockForCleanup, Teardown, TeardownDone,
      CallDeferred, CleanupAll, RemoveNetwork, allVars, vars, worldVars
<1>2. ASSUME NEW g \in Goroutines, InCreator(g), ~(CreateContainer(g) \/ RemoveContainer(g))
      PROVE  containers' = containers
  BY <1>2
  DEF InCreator, CreateStep, CreateConfigFile, WriteConfigFile, TakeNumber, Prepare,
      StartContainer, AwaitReady, CleanupStep, DeleteFromRunning, RemoveConfigFile, CleanupNext,
      CallFails, worldVars
<1>3. ASSUME NEW g \in Goroutines, Goroutine(g), ~InCreator(g)
      PROVE  containers' = containers
  BY <1>3
  DEF Goroutine, Proceed, Ask, NoBinary, GetPool, GetServer, Receive, CreateDatabase,
      TestCleanup, TestDone, EndTest, Unwind, Begin, Register, BeginCleanup, DropDatabase, vars,
      worldVars
<1>4. ASSUME NEW g \in Goroutines, InCreator(g) PROVE UNCHANGED itVars
  BY <1>4 DEF InCreator
<1> QED
  BY <1>1, <1>2, <1>3, <1>4 DEF ITNext, Ended

LEMMA NextServerInv ==
  ASSUME SafeInv, PhaseInv, ServerInv, [ITNext]_allVars
  PROVE  ServerInv'
<1> USE NoneAssumption, KindsAssumption, MainAssumption DEF SafeInv
<1> SUFFICES ASSUME pc'[Main] \notin {"teardown", "returned"}, NEW k \in creator' \cap Servers
             PROVE  \E s \in containers' : kind'[s] = k
  BY DEF ServerInv
<1>1. pc[Main] \notin {"teardown", "returned"}
  BY LaterStays
<1>2. \A s \in containers : s \in Instances /\ kind[s] \in Kinds /\ kind'[s] = kind[s]
  BY StepSettles DEF CreatorInv, TypeOK, KindInv, Settling
<1>3. CASE k \in creator
  <2>1. PICK s \in containers : kind[s] = k
    BY <1>1, <1>3 DEF ServerInv
  <2>2. s \in containers'
    <3>1. ASSUME NEW g \in Goroutines, RemoveContainer(g) PROVE s \in containers'
      <4>1. kind[hand[g]] \in Pools /\ containers' = containers \ {hand[g]}
        BY <3>1 DEF RemoveContainer, IsAt, CreatorInv, HandInv, Cleaning
      <4> QED
        BY <2>1, <4>1
    <3>2. ASSUME NEW g \in Goroutines, CreateContainer(g) PROVE s \in containers'
      BY <3>2 DEF CreateContainer
    <3>3. ~Teardown
      BY <1>1 DEF Teardown, IsIn
    <3> QED
      BY <3>1, <3>2, <3>3, ContainersChange
  <2> QED
    BY <1>2, <2>1, <2>2
<1>4. CASE k \notin creator
  <2>1. PICK g \in Goroutines : Receive(g)
    BY <1>4, StepKinds DEF Plain, GetPool, GetServer, itVars
  <2>2. /\ at[g] = "register" /\ UNCHANGED <<kind, containers>>
        /\ creator' \subseteq creator \cup {kind[hand[g]]}
    BY <2>1 DEF Receive, Register, IsAt, worldVars
  <2>3. hand[g] \in containers /\ k = kind[hand[g]]
    BY <1>4, <2>2 DEF CreatorInv, ContainerInv, After
  <2> QED
    BY <2>2, <2>3
<1> QED
  BY <1>3, <1>4

LEMMA NextLastInv ==
  ASSUME SafeInv, StackInv, LastInv, [ITNext]_allVars
  PROVE  LastInv'
<1> USE NoneAssumption, KindsAssumption, MainAssumption DEF SafeInv
<1> SUFFICES ASSUME process' = "up", pc'[Main] = "teardown", panicking' = {},
                    NEW r \in todo'[Main] \cup {hand'[Main]}, NEW i \in containers',
                    r \in Instances, kind'[r] = "redis", IsIcingaDb(i)'
             PROVE  FALSE
  BY DEF LastInv
<1>1. /\ todo \in [Goroutines -> SUBSET Instances] /\ containers \subseteq Instances
      /\ hand \in [Goroutines -> Instances \cup {None}]
      /\ pc \in [Goroutines -> MainPlaces \cup TestPlaces]
  BY DEF CreatorInv, TypeOK, OrderInv, PlacesInv
<1>2. CASE LockForCleanup
  <2>1. UNCHANGED vars /\ at[Main] = "idle"
    BY <1>2 DEF LockForCleanup, IsIn
  <2>2. hand[Main] = None /\ todo[Main] = {}
    BY <2>1 DEF CreatorInv, HandInv, SweepInv, Cleaning
  <2> QED
    BY <2>1, <2>2 DEF vars
<1>3. ASSUME process = "up", pc[Main] = "teardown", panicking = {},
             todo'[Main] \cup {hand'[Main]} \subseteq todo[Main] \cup {hand[Main]},
             containers' \subseteq containers, kind' = kind
      PROVE  FALSE
  BY <1>3 DEF LastInv, IsIcingaDb
<1>4. CASE UNCHANGED allVars
  BY <1>3, <1>4 DEF allVars, vars, itVars
<1>5. CASE Teardown
  <2>1. /\ process = "up" /\ at[Main] = "idle" /\ pc[Main] = "teardown" /\ panicking = {}
        /\ left > 0 /\ CallDeferred(deferred[left]) /\ deferred' = deferred
    BY <1>5 DEF Teardown, IsIn
  <2>2. CASE UNCHANGED <<todo, hand, kind>> /\ containers' \subseteq containers
    BY <1>3, <2>1, <2>2
  <2>3. CASE CleanupAll(Main, deferred[left])
    <3>1. /\ UNCHANGED <<kind, running, containers, hand>> /\ hand[Main] = None
          /\ todo'[Main] = {j \in running : kind[j] = deferred[left]}
      BY <1>1, <2>1, <2>3 DEF CleanupAll, poolVars, worldVars, CreatorInv, HandInv
    <3>2. deferred[left] = "redis" /\ kind[r] \in Pools
      BY <3>1 DEF CreatorInv, ReturnedInv
    <3>3. i \in running
      <4>1. \A g \in Goroutines : hand[g] = None
        BY <2>1, OnlyMain DEF CreatorInv, HandInv, Tests
      <4>2. i \in Instances /\ i \in containers /\ kind[i] = "icingadb"
        BY <1>1, <3>1 DEF IsIcingaDb
      <4> QED
        BY <2>1, <4>1, <4>2 DEF HeldInv
    <3>4. "icingadb" \in Remaining
      BY <2>1, <3>1, <3>3 DEF SweepInv, Cleaning, IsIcingaDb
    <3>5. PICK e \in 1 .. left : deferred[e] = "icingadb"
      BY <3>4 DEF Remaining
    <3>6. left \in DOMAIN deferred /\ left \in Nat /\ e \in DOMAIN deferred
      BY <2>1 DEF RestInv
    <3>7. PICK d \in 1 .. e - 1 : deferred[d] = "redis"
      BY <3>5, <3>6 DEF StackInv
    <3>8. d \in DOMAIN deferred /\ d # left
      BY <3>6, <3>7 DEF RestInv
    <3> QED
      BY <3>1, <3>2, <3>6, <3>7, <3>8 DEF StackInv
  <2> QED
    BY <2>1, <2>2, <2>3
    DEF CallDeferred, CleanupServer, RemoveNetwork, poolVars, worldVars, vars
<1>6. ASSUME NEW g \in Goroutines, Goroutine(g), pc[Main] = "teardown" PROVE FALSE
  <2>1. InCreator(Main) \/ Unwind(Main)
    BY <1>6, TeardownAlone
  <2>2. ~Unwind(Main)
    BY <1>6 DEF Unwind
  <2>3. at[Main] \notin Before \cup After
    BY <1>6 DEF SweepInv
  <2>4. CleanupStep(Main) \/ CallFails(Main)
    BY <2>1, <2>2, <2>3
    DEF InCreator, CreateStep, CreateConfigFile, WriteConfigFile, TakeNumber, Prepare,
        CreateContainer, StartContainer, AwaitReady, IsAt, Before, After
  <2>5. process = "up" /\ panicking = {} /\ kind' = kind /\ containers' \subseteq containers
    BY <2>1, <2>2, <2>4
    DEF InCreator, CleanupStep, DeleteFromRunning, RemoveContainer, RemoveConfigFile,
        CleanupNext, CallFails, IsAt, poolVars, worldVars, itVars
  <2>6. todo'[Main] \cup {hand'[Main]} \subseteq todo[Main] \cup {hand[Main]}
        \/ (todo' = todo /\ hand'[Main] = None)
    BY <1>1, <2>4
    DEF CleanupStep, DeleteFromRunning, RemoveContainer, RemoveConfigFile, CleanupNext, Finish,
        CallFails
  <2>7. CASE todo' = todo /\ hand'[Main] = None
    BY <1>6, <2>5, <2>7 DEF LastInv, IsIcingaDb
  <2> QED
    BY <1>3, <1>6, <2>5, <2>6, <2>7
<1>7. ASSUME NEW g \in Goroutines, Goroutine(g), pc[Main] # "teardown" PROVE FALSE
  <2>1. CASE pc' = pc
    BY <1>7, <2>1
  <2>2. CASE \E place \in {"body", "get", "database", "deferred", "ending", "ended"} :
               pc' = [pc EXCEPT ![g] = place]
    BY <1>1, <1>7, <2>2
  <2> QED
    BY <1>7, <2>1, <2>2
    DEF Goroutine, Proceed, Ask, NoBinary, GetPool, GetServer, InCreator, Receive,
        CreateDatabase, TestCleanup, TestDone, Unwind, EndTest, MoveTo, itVars
<1>8. ~(SetUp \/ RunTests \/ TestsDone \/ TeardownDone)
  BY <1>1 DEF SetUp, NewIT, Infrastructure, RunTests, TestsDone, TeardownDone, IsIn, MoveTo
<1> QED
  BY <1>2, <1>4, <1>5, <1>6, <1>7, <1>8 DEF ITNext, TearDown, Ended

\* The inductive invariant of what Icinga DB uses.
LinksInv ==
  /\ PhaseInv /\ LinkInv /\ HandsInv /\ StillInv /\ ListInv /\ StackInv /\ ServerInv
  /\ LastInv

LEMMA InitLinksInv == ITInit => LinksInv
<1> SUFFICES ASSUME ITInit PROVE LinksInv
  OBVIOUS
<1> USE NoneAssumption, MainAssumption DEF ITInit, Init
<1>1. PhaseInv
  BY DEF PhaseInv, Before, After, Cleaning, Tests
<1>2. LinkInv /\ HandsInv /\ StillInv /\ ServerInv /\ LastInv
  BY DEF LinkInv, IsIcingaDb, Kinds, HandsInv, StillInv, ServerInv, LastInv
<1>3. ListInv /\ StackInv
  BY DEF ListInv, StackInv, Range
<1> QED
  BY <1>1, <1>2, <1>3 DEF LinksInv

LEMMA NextLinksInv ==
  ASSUME SafeInv, SafeInv', LinksInv, [ITNext]_allVars
  PROVE  LinksInv'
  BY NextPhaseInv, NextLinkInv, NextHandsInv, NextStillInv, NextListInv, NextStackInv,
     NextServerInv, NextLastInv DEF LinksInv, SafeInv

LEMMA PanickingGrows == ASSUME [ITNext]_allVars PROVE panicking \subseteq panicking'
<1>1. CASE SetUp \/ RunTests \/ TearDown \/ UNCHANGED allVars
  BY <1>1
  DEF SetUp, NewIT, RunTests, TearDown, TestsDone, LockForCleanup, Teardown, TeardownDone,
      allVars, itVars
<1> QED
  BY <1>1
  DEF ITNext, Ended, Goroutine, Proceed, Ask, NoBinary, GetPool, GetServer, InCreator, Receive,
      CreateDatabase, TestCleanup, TestDone, EndTest, Unwind, itVars

LEMMA DeferredGrows ==
  ASSUME RestInv, [ITNext]_allVars
  PROVE  \A n \in DOMAIN deferred : n \in DOMAIN deferred' /\ deferred'[n] = deferred[n]
<1>1. deferred' = deferred \/ \E e : deferred' = Append(deferred, e)
  BY DeferredChange
<1> QED
  BY <1>1 DEF RestInv

\* An Icinga DB instance that is being created is one of a running test, or of
\* TestMain before the end: what it uses is not torn down meanwhile.
LEMMA WhileCreating ==
  ASSUME SafeInv, LinksInv, NEW g \in Goroutines, at[g] \in Before, IsIcingaDb(hand[g])
  PROVE  uses[hand[g]] \in containers /\ \E s \in containers : kind[s] = rdb[hand[g]]
<1> USE NoneAssumption, MainAssumption, KindsAssumption DEF SafeInv, LinksInv
<1> DEFINE i == hand[g]
           r == uses[i]
<1>1. i \in Instances /\ kind[i] \in Pools /\ at[g] \in Before \cup After
  BY DEF CreatorInv, HandInv, Before, IsIcingaDb
<1>2. pc[g] \in {"body", "database"}
  BY DEF PhaseInv
<1>3. pc[Main] \notin {"teardown", "returned"}
  BY <1>2 DEF OrderInv, ActiveInv, Tests
<1>4. /\ r \in returned /\ kind[r] = "redis" /\ owner[r] \in {None, owner[i]}
      /\ rdb[i] \in creator \cap Servers
  BY <1>1 DEF LinkInv
<1>5. kind[r] \in Pools
  BY <1>4 DEF CreatorInv, TypeOK, KindInv, Kinds
<1>6. owner[i] \in {g, None}
  BY <1>1 DEF OwnerInv, BelongsInv
<1>7. r \in running
  BY <1>2, <1>3, <1>4, <1>5, <1>6 DEF StillInv
<1>8. r \in containers
  BY <1>7 DEF CreatorInv, RegisteredExists
<1> QED
  BY <1>3, <1>4, <1>8 DEF ServerInv

\* Whoever removes a Redis server removed every Icinga DB that uses it before.
LEMMA RedisIsLast ==
  ASSUME SafeInv, LinksInv, panicking = {}, NEW g \in Goroutines, at[g] = "remove",
         process = "up", NEW i \in containers, IsIcingaDb(i)
  PROVE  uses[i] # hand[g]
<1> USE NoneAssumption, MainAssumption, KindsAssumption DEF SafeInv, LinksInv
<1> SUFFICES ASSUME uses[i] = hand[g] PROVE FALSE
  OBVIOUS
<1> DEFINE r == hand[g]
<1>1. i \in Instances /\ r \in Instances
  BY DEF CreatorInv, TypeOK, HandInv
<1>2. kind[r] = "redis" /\ owner[r] \in {None, owner[i]}
  BY <1>1 DEF LinkInv
<1>3. r \notin running /\ owner[r] = IF g = Main THEN None ELSE g
  BY DEF CreatorInv, ContainerInv, OwnerInv, CleanerInv, Cleaning
<1>4. CASE g = Main
  <2>1. pc[Main] = "teardown"
    BY <1>4 DEF PhaseInv, Cleaning, OrderInv, PlacesInv, MainPlaces
  <2> QED
    BY <1>1, <1>2, <1>4, <2>1 DEF LastInv
<1>5. CASE g # Main
  <2>1. owner[i] = g /\ owner[r] = g
    BY <1>2, <1>3, <1>5
  <2>2. CASE i \in running
    <3>1. PICK n \in DOMAIN cleanups[g] : cleanups[g][n] = i
      BY <2>1, <2>2 DEF OwnerInv, BelongsInv, Range
    <3>2. PICK m \in 1 .. n - 1 : cleanups[g][m] = r
      BY <1>1, <2>1, <3>1 DEF ListInv
    <3>3. cleanups[g] \in Seq(Instances \cup Servers)
      BY DEF OwnerInv, BoundInv
    <3>4. m \in DOMAIN cleanups[g]
      BY <3>1, <3>2, <3>3
    <3>5. r \in Range(cleanups[g])
      BY <3>2, <3>4 DEF Range
    <3> QED
      BY <1>1, <1>3, <3>5 DEF OwnerInv, BoundInv
  <2>3. ASSUME NEW h \in Goroutines, hand[h] = i PROVE FALSE
    <3>1. h = g
      BY <1>1, <2>1, <2>3 DEF HandsInv, IsIcingaDb
    <3> QED
      BY <1>2, <2>3, <3>1 DEF IsIcingaDb
  <2> QED
    BY <2>2, <2>3 DEF HeldInv, IsIcingaDb
<1> QED
  BY <1>4, <1>5

\* When IT.Cleanup calls the Cleanup of a server, whatever Icinga DB is left has
\* its own still to come.
LEMMA IcingaDbToCome ==
  ASSUME SafeInv, Teardown, panicking = {}, deferred[left] \in Servers,
         NEW i \in containers, IsIcingaDb(i)
  PROVE  \E d \in DOMAIN deferred :
           d < left /\ left \in DOMAIN deferred /\ deferred[d] = "icingadb"
<1> USE NoneAssumption, MainAssumption, KindsAssumption DEF SafeInv
<1>1. process = "up" /\ at[Main] = "idle" /\ pc[Main] = "teardown" /\ left > 0
  BY DEF Teardown, IsIn
<1>2. \A g \in Goroutines : hand[g] = None
  BY <1>1, OnlyMain DEF CreatorInv, HandInv, Tests
<1>3. i \in running
  BY <1>2 DEF CreatorInv, TypeOK, HeldInv, IsIcingaDb
<1>4. kind[i] \in Remaining
  BY <1>1, <1>3 DEF SweepInv, Cleaning
<1>5. PICK d \in 1 .. left : deferred[d] = "icingadb"
  BY <1>4 DEF Remaining, IsIcingaDb
<1>6. left \in Nat /\ left \in DOMAIN deferred /\ DOMAIN deferred = 1 .. Len(deferred)
  BY <1>1 DEF RestInv
<1> QED
  BY <1>5, <1>6

LEMMA NextOutlives ==
  ASSUME SafeInv, SafeInv', LinksInv, [ITNext]_allVars,
         RedisOutlivesIcingaDb, ServerOutlivesIcingaDb
  PROVE  RedisOutlivesIcingaDb' /\ ServerOutlivesIcingaDb'
<1> USE NoneAssumption, MainAssumption, KindsAssumption
<1> DEFINE Late(j) == \E d, e \in DOMAIN deferred :
                        d < e /\ deferred[d] = "icingadb" /\ deferred[e] = rdb[j]
<1> SUFFICES ASSUME panicking' = {}, NEW i \in containers', kind'[i] = "icingadb"
             PROVE  uses'[i] \in containers' /\ ((\E s \in containers' : kind'[s] = rdb'[i]) \/ Late(i)')
  BY DEF RedisOutlivesIcingaDb, ServerOutlivesIcingaDb
<1>1. panicking = {} /\ Settling
  BY PanickingGrows, StepSettles
<1>2. \A j \in containers \cup returned : j \in Instances /\ kind[j] \in Kinds
  BY DEF SafeInv, CreatorInv, TypeOK, KindInv
<1>3. \A j \in containers \cup returned :
        kind'[j] = kind[j] /\ uses'[j] = uses[j] /\ rdb'[j] = rdb[j]
  BY <1>1, <1>2 DEF Settling
<1>4. i \in containers => IsIcingaDb(i)
  BY <1>2, <1>3 DEF IsIcingaDb, Kinds
<1>5. i \in containers => /\ uses[i] \in containers /\ uses[i] \in returned
                          /\ kind[uses[i]] = "redis" /\ rdb[i] \in Servers
                          /\ (\E s \in containers : kind[s] = rdb[i]) \/ Late(i)
  BY <1>1, <1>2, <1>4
  DEF RedisOutlivesIcingaDb, ServerOutlivesIcingaDb, LinksInv, LinkInv, IsIcingaDb
<1>6. i \in containers /\ Late(i) => Late(i)'
  BY <1>3, DeferredGrows DEF SafeInv
<1>7. CASE i \in containers /\ containers \subseteq containers'
  BY <1>3, <1>5, <1>6, <1>7
<1>8. ASSUME NEW g \in Goroutines, CreateContainer(g), UNCHANGED itVars, i \notin containers
      PROVE  uses'[i] \in containers' /\ \E s \in containers' : kind'[s] = rdb'[i]
  <2>1. /\ at[g] = "create" /\ i = hand[g] /\ containers \subseteq containers'
        /\ UNCHANGED <<kind, uses, rdb>>
    BY <1>8 DEF CreateContainer, IsAt, poolVars, itVars
  <2>2. i \in Instances /\ kind[i] \in Kinds
    BY <2>1 DEF SafeInv, CreatorInv, HandInv
  <2>3. at[g] \in Before /\ IsIcingaDb(i)
    BY <2>1, <2>2 DEF Before, IsIcingaDb, Kinds
  <2> QED
    BY <2>1, <2>3, WhileCreating
<1>9. ASSUME NEW g \in Goroutines, RemoveContainer(g), UNCHANGED itVars
      PROVE  uses'[i] \in containers' /\ ((\E s \in containers' : kind'[s] = rdb'[i]) \/ Late(i)')
  <2>1. /\ at[g] = "remove" /\ process = "up" /\ containers' = containers \ {hand[g]}
    BY <1>9 DEF RemoveContainer, IsAt
  <2>2. kind[hand[g]] \in Pools
    BY <2>1 DEF SafeInv, CreatorInv, HandInv, Cleaning
  <2>3. i \in containers /\ uses[i] # hand[g]
    BY <1>1, <1>4, <2>1, RedisIsLast
  <2>4. uses'[i] \in containers'
    BY <1>3, <1>5, <2>1, <2>3
  <2>5. \A s \in containers : kind[s] \in Servers => s \in containers'
    BY <2>1, <2>2
  <2> QED
    BY <1>3, <1>5, <1>6, <2>3, <2>4, <2>5
<1>10. ASSUME Teardown, deferred[left] \in Servers, CleanupServer(deferred[left])
       PROVE  uses'[i] \in containers' /\ ((\E s \in containers' : kind'[s] = rdb'[i]) \/ Late(i)')
  <2>1. /\ containers' \subseteq containers /\ deferred' = deferred
        /\ \A j \in containers : j \in containers' \/ kind[j] = deferred[left]
    BY <1>10 DEF CleanupServer, Teardown
  <2>2. uses[i] \in containers'
    BY <1>5, <1>10, <2>1
  <2>3. CASE \E s \in containers : s \notin containers' /\ kind[s] = rdb[i]
    <3>1. deferred[left] = rdb[i]
      BY <2>1, <2>3
    <3>2. Late(i)
      BY <1>1, <1>4, <1>10, <2>1, <3>1, IcingaDbToCome
    <3> QED
      BY <1>3, <1>6, <2>1, <2>2, <3>2
  <2>4. CASE ~\E s \in containers : s \notin containers' /\ kind[s] = rdb[i]
    BY <1>3, <1>5, <1>6, <2>1, <2>2, <2>4
  <2> QED
    BY <2>3, <2>4
<1>11. ASSUME NEW g \in Goroutines, CreateContainer(g) PROVE containers \subseteq containers'
  BY <1>11 DEF CreateContainer
<1> QED
  BY <1>7, <1>8, <1>9, <1>10, <1>11, ContainersChange

LEMMA OutlivesInvariance == ITSpec => [](RedisOutlivesIcingaDb /\ ServerOutlivesIcingaDb)
<1>1. ITInit => RedisOutlivesIcingaDb /\ ServerOutlivesIcingaDb
  BY DEF ITInit, Init, RedisOutlivesIcingaDb, ServerOutlivesIcingaDb
<1> QED
  BY <1>1, SafeInvariance, InitLinksInv, NextLinksInv, NextOutlives, PTL DEF ITSpec

\* An Icinga DB container never outlives the Redis server it was given, as long as
\* no one panicked.
THEOREM RedisGoesLast == ITSpec => []RedisOutlivesIcingaDb
  BY OutlivesInvariance, PTL

\* Nor the server of its database, unless that was started after the first call of
\* IcingaDbInstance.
THEOREM ServersGoLast == ITSpec => []ServerOutlivesIcingaDb
  BY OutlivesInvariance, PTL

=============================================================================
