------------------------- MODULE DockerCreatorProofs -------------------------
(***************************************************************************)
(* Proofs of the safety properties of DockerCreator, for any number of     *)
(* goroutines, instances and failing calls.                                *)
(***************************************************************************)
EXTENDS DockerCreator, TLAPS

\* The steps of a creation before and after its container exists, and the
\* steps of a clean-up.
Before == {"config", "write", "name", "prepare", "create"}
After == {"start", "ready", "register"}
Cleaning == {"delete", "remove", "unlink"}

\* A goroutine has an instance in hand while it works on one, and may have one
\* when it panicked; only instances of pools are numbered and cleaned up.
HandInv ==
  \A g \in Goroutines :
    /\ at[g] \in {"idle", "loop"} => hand[g] = None
    /\ at[g] \notin {"idle", "loop", "panicked"} => hand[g] \in Instances
    /\ hand[g] # None => kind[hand[g]] \in Kinds
    /\ at[g] \in {"config", "write", "name"} \cup Cleaning => kind[hand[g]] \in Pools

\* Only returned instances of pools are listed, cleaned up or about to be.
ReturnedInv ==
  /\ running \subseteq returned
  /\ \A g \in Goroutines : todo[g] \subseteq returned
  /\ \A i \in running : kind[i] \in Pools
  /\ \A g \in Goroutines : \A i \in todo[g] : kind[i] \in Pools
  /\ \A g \in Goroutines : at[g] \in Cleaning => hand[g] \in returned

\* An instance that was not allocated is nowhere.
KindInv ==
  \A i \in Instances :
    /\ i \in returned \cup containers => kind[i] \in Kinds
    /\ kind[i] \notin Pools => number[i] = 0

\* An instance that is being created belongs to its creator alone.
OwnInv ==
  \A g \in Goroutines : at[g] \in Before \cup After =>
    /\ hand[g] \notin returned
    /\ \A h \in Goroutines : hand[h] = hand[g] => h = g

\* The container exists from its creation to its removal.
ContainerInv ==
  \A g \in Goroutines :
    /\ at[g] \in Before => hand[g] \notin containers
    /\ at[g] \in After => hand[g] \in containers
    /\ at[g] \in {"remove", "unlink"} => hand[g] \notin running
    /\ at[g] = "unlink" => hand[g] \notin containers

\* The configuration file exists from its creation on.
FileInv ==
  \A g \in Goroutines :
    at[g] \in (Before \cup After) \ {"config"} /\ kind[hand[g]] = "icingadb" =>
      hand[g] \in files

\* Numbers are given out once for each kind.
NumberInv ==
  /\ \A i \in Instances : kind[i] \in Pools => number[i] <= counter[kind[i]]
  /\ \A i, j \in Instances :
       Name(i) = Name(j) /\ kind[i] \in Pools /\ number[i] > 0 => i = j
  /\ \A i \in containers : kind[i] \in Pools => number[i] > 0
  /\ \A g \in Goroutines :
       at[g] \in {"prepare", "create"} \cup After /\ kind[hand[g]] \in Pools =>
         number[hand[g]] > 0

\* What each step of a goroutine inside a creator may rely on and preserves,
\* also where servers are started and panics are recovered from, as in IT.
CreatorInv ==
  /\ TypeOK /\ HandInv /\ ReturnedInv /\ KindInv /\ OwnInv /\ ContainerInv
  /\ FileInv /\ NumberInv /\ RegisteredExists /\ ConfigOutlivesContainer

\* The creators on their own start no server.
PoolsOnly == \A i \in Instances : kind[i] \in Pools \cup {None}

\* The inductive invariant.
IInv == CreatorInv /\ PoolsOnly /\ Tracked

-----------------------------------------------------------------------------

\* Initially no goroutine and no instance has anything.
LEMMA InitIInv == Init => IInv
  BY NoneAssumption, KindsAssumption
     DEF Init, IInv, CreatorInv, PoolsOnly, TypeOK, HandInv, ReturnedInv, KindInv, OwnInv,
         ContainerInv,
         FileInv, NumberInv, RegisteredExists, Tracked,
         ConfigOutlivesContainer, Before, After, Cleaning, Steps, Kinds, Name

\* An instance is allocated for its creator.
LEMMA BeginKeeps ==
  ASSUME CreatorInv, NEW g \in Goroutines, NEW k \in Kinds, Begin(g, k)
  PROVE  CreatorInv' /\ (Tracked => Tracked')
<1> USE NoneAssumption, KindsAssumption
    DEF CreatorInv, Begin, FirstStep, IsAt, Goto, poolVars, worldVars, Before,
        After, Cleaning, Steps, Kinds
<1>1. HandInv'
  BY DEF TypeOK, HandInv
<1>2. OwnInv'
  BY DEF TypeOK, HandInv, KindInv, OwnInv
<1>3. ContainerInv'
  BY DEF TypeOK, KindInv, ContainerInv
<1>4. FileInv'
  BY DEF TypeOK, HandInv, FileInv
<1>5. NumberInv'
  <2>1. PICK i \in Instances : kind[i] = None /\ kind' = [kind EXCEPT ![i] = k]
                             /\ hand' = [hand EXCEPT ![g] = i]
    OBVIOUS
  <2>2. number[i] = 0 /\ i \notin containers
    BY <2>1 DEF KindInv, TypeOK
  <2>3. /\ \A j \in Instances : kind'[j] \in Pools => number'[j] <= counter'[kind'[j]]
        /\ \A j \in containers' : kind'[j] \in Pools => number'[j] > 0
    BY <2>1, <2>2 DEF TypeOK, NumberInv
  <2>4. \A j, l \in Instances :
          Name(j)' = Name(l)' /\ kind'[j] \in Pools /\ number'[j] > 0 => j = l
    BY <2>1, <2>2 DEF TypeOK, NumberInv, Name
  <2>5. \A h \in Goroutines :
          at'[h] \in {"prepare", "create"} \cup After /\ kind'[hand'[h]] \in Pools =>
            number'[hand'[h]] > 0
    BY <2>1, <2>2 DEF TypeOK, NumberInv, HandInv
  <2> QED
    BY <2>3, <2>4, <2>5 DEF NumberInv
<1>6. Tracked => Tracked'
  BY DEF TypeOK, HandInv, Tracked
<1>7. ConfigOutlivesContainer'
  BY DEF KindInv, ConfigOutlivesContainer
<1>8. TypeOK' /\ ReturnedInv' /\ KindInv' /\ RegisteredExists'
  BY DEF TypeOK, ReturnedInv, KindInv, RegisteredExists
<1> QED  BY <1>1, <1>2, <1>3, <1>4, <1>5, <1>6, <1>7, <1>8

\* The configuration file appears.
LEMMA CreateConfigFileKeeps ==
  ASSUME CreatorInv, NEW g \in Goroutines, CreateConfigFile(g)
  PROVE  CreatorInv' /\ (Tracked => Tracked')
<1> USE NoneAssumption
    DEF CreatorInv, CreateConfigFile, IsAt, Goto, poolVars, worldVars, Before,
        After, Cleaning, Steps
<1>1. TypeOK'
  BY DEF TypeOK, HandInv
<1>2. /\ HandInv' /\ ReturnedInv' /\ KindInv' /\ OwnInv' /\ ContainerInv'
      /\ FileInv' /\ NumberInv' /\ RegisteredExists' /\ (Tracked => Tracked')
      /\ ConfigOutlivesContainer'
  BY DEF HandInv, ReturnedInv, KindInv, OwnInv, ContainerInv, FileInv,
      NumberInv, RegisteredExists, Tracked, ConfigOutlivesContainer, Name
<1> QED  BY <1>1, <1>2

\* Only the program counter moves.
LEMMA WriteConfigFileKeeps ==
  ASSUME CreatorInv, NEW g \in Goroutines, WriteConfigFile(g)
  PROVE  CreatorInv' /\ (Tracked => Tracked')
<1> USE NoneAssumption
    DEF CreatorInv, WriteConfigFile, IsAt, Goto, poolVars, worldVars, Before,
        After, Cleaning, Steps
<1>1. /\ TypeOK' /\ HandInv' /\ ReturnedInv' /\ KindInv' /\ OwnInv'
      /\ ContainerInv' /\ FileInv' /\ NumberInv' /\ RegisteredExists'
      /\ (Tracked => Tracked') /\ ConfigOutlivesContainer'
  BY DEF TypeOK, HandInv, ReturnedInv, KindInv, OwnInv, ContainerInv,
      FileInv, NumberInv, RegisteredExists, Tracked,
      ConfigOutlivesContainer, Name
<1> QED  BY <1>1

\* The number is larger than any the counter gave out before.
LEMMA TakeNumberKeeps ==
  ASSUME CreatorInv, NEW g \in Goroutines, TakeNumber(g)
  PROVE  CreatorInv' /\ (Tracked => Tracked')
<1> USE NoneAssumption, KindsAssumption
    DEF CreatorInv, TakeNumber, IsAt, Goto, poolVars, worldVars, Before, After,
        Cleaning, Steps, Kinds
<1>1. hand[g] \in Instances /\ kind[hand[g]] \in Pools
  BY DEF TypeOK, HandInv
<1>2. counter[kind[hand[g]]] \in Nat
  BY <1>1 DEF TypeOK
<1>3. TypeOK'
  <2>1. number' \in [Instances -> Nat] /\ counter' \in [Pools -> Nat]
    BY <1>1, <1>2 DEF TypeOK
  <2> QED
    BY <2>1 DEF TypeOK
<1>4. KindInv'
  BY <1>1 DEF KindInv
<1>5. NumberInv'
  <2>1. /\ counter' = [counter EXCEPT ![kind[hand[g]]] = @ + 1]
        /\ number' = [number EXCEPT ![hand[g]] = counter[kind[hand[g]]] + 1]
        /\ UNCHANGED <<kind, containers, hand>>
    OBVIOUS
  <2>2. \A i \in Instances :
          kind'[i] \in Pools => number'[i] <= counter'[kind'[i]]
    BY <1>1, <1>2, <2>1 DEF TypeOK, NumberInv
  <2>3. \A i, j \in Instances :
          Name(i)' = Name(j)' /\ kind'[i] \in Pools /\ number'[i] > 0 => i = j
    BY <1>1, <1>2, <2>1 DEF TypeOK, NumberInv, Name
  <2>4. \A i \in containers' : kind'[i] \in Pools => number'[i] > 0
    BY <1>1, <1>2, <2>1 DEF TypeOK, NumberInv
  <2>5. \A h \in Goroutines :
          at'[h] \in {"prepare", "create"} \cup After /\ kind'[hand'[h]] \in Pools =>
            number'[hand'[h]] > 0
    BY <1>1, <1>2, <2>1 DEF TypeOK, NumberInv, HandInv
  <2> QED
    BY <2>2, <2>3, <2>4, <2>5 DEF NumberInv
<1>6. /\ HandInv' /\ ReturnedInv' /\ OwnInv' /\ ContainerInv' /\ FileInv'
      /\ RegisteredExists' /\ (Tracked => Tracked') /\ ConfigOutlivesContainer'
  BY DEF HandInv, ReturnedInv, OwnInv, ContainerInv, FileInv,
      RegisteredExists, Tracked, ConfigOutlivesContainer
<1> QED  BY <1>3, <1>4, <1>5, <1>6

\* Only the program counter moves.
LEMMA PrepareKeeps ==
  ASSUME CreatorInv, NEW g \in Goroutines, Prepare(g)
  PROVE  CreatorInv' /\ (Tracked => Tracked')
<1> USE NoneAssumption
    DEF CreatorInv, Prepare, IsAt, Goto, poolVars, worldVars, Before, After,
        Cleaning, Steps
<1>1. /\ TypeOK' /\ HandInv' /\ ReturnedInv' /\ KindInv' /\ OwnInv'
      /\ ContainerInv' /\ FileInv' /\ NumberInv' /\ RegisteredExists'
      /\ (Tracked => Tracked') /\ ConfigOutlivesContainer'
  BY DEF TypeOK, HandInv, ReturnedInv, KindInv, OwnInv, ContainerInv,
      FileInv, NumberInv, RegisteredExists, Tracked,
      ConfigOutlivesContainer, Name
<1> QED  BY <1>1

\* The container appears, in the hands of its creator.
LEMMA CreateContainerKeeps ==
  ASSUME CreatorInv, NEW g \in Goroutines, CreateContainer(g)
  PROVE  CreatorInv' /\ (Tracked => Tracked')
<1> USE NoneAssumption
    DEF CreatorInv, CreateContainer, NameTaken, IsAt, Goto, poolVars, worldVars,
        Before, After, Cleaning, Steps
<1>1. TypeOK'
  BY DEF TypeOK, HandInv
<1>2. HandInv'
  BY DEF TypeOK, HandInv
<1>3. ReturnedInv'
  BY DEF TypeOK, ReturnedInv
<1>4. KindInv'
  BY DEF HandInv, KindInv
<1>5. OwnInv'
  BY DEF TypeOK, OwnInv
<1>6. ContainerInv'
  BY DEF TypeOK, OwnInv, ContainerInv
<1>7. FileInv'
  BY DEF TypeOK, FileInv
<1>8. NumberInv'
  BY DEF TypeOK, NumberInv, Name
<1>9. ConfigOutlivesContainer'
  BY DEF FileInv, ConfigOutlivesContainer
<1>10. RegisteredExists' /\ (Tracked => Tracked')
  BY DEF RegisteredExists, Tracked
<1> QED  BY <1>1, <1>2, <1>3, <1>4, <1>5, <1>6, <1>7, <1>8, <1>9, <1>10

\* Only the program counter moves.
LEMMA StartContainerKeeps ==
  ASSUME CreatorInv, NEW g \in Goroutines, StartContainer(g)
  PROVE  CreatorInv' /\ (Tracked => Tracked')
<1> USE NoneAssumption
    DEF CreatorInv, StartContainer, IsAt, Goto, poolVars, worldVars, Before,
        After, Cleaning, Steps
<1>1. TypeOK'
  BY DEF TypeOK, HandInv
<1>2. KindInv'
  BY DEF TypeOK, KindInv
<1>3. /\ HandInv' /\ ReturnedInv' /\ OwnInv' /\ ContainerInv' /\ FileInv'
      /\ NumberInv' /\ RegisteredExists' /\ (Tracked => Tracked')
      /\ ConfigOutlivesContainer'
  BY DEF HandInv, ReturnedInv, OwnInv, ContainerInv, FileInv, NumberInv,
      RegisteredExists, Tracked, ConfigOutlivesContainer, Name
<1> QED  BY <1>1, <1>2, <1>3

\* Only the program counter moves.
LEMMA AwaitReadyKeeps ==
  ASSUME CreatorInv, NEW g \in Goroutines, AwaitReady(g)
  PROVE  CreatorInv' /\ (Tracked => Tracked')
<1> USE NoneAssumption
    DEF CreatorInv, AwaitReady, IsAt, Goto, poolVars, worldVars, Before, After,
        Cleaning, Steps
<1>1. /\ TypeOK' /\ HandInv' /\ ReturnedInv' /\ KindInv' /\ OwnInv'
      /\ ContainerInv' /\ FileInv' /\ NumberInv' /\ RegisteredExists'
      /\ (Tracked => Tracked') /\ ConfigOutlivesContainer'
  BY DEF TypeOK, HandInv, ReturnedInv, KindInv, OwnInv, ContainerInv,
      FileInv, NumberInv, RegisteredExists, Tracked,
      ConfigOutlivesContainer, Name
<1> QED  BY <1>1

\* The instance passes from its creator to the map and the caller.
LEMMA RegisterKeeps ==
  ASSUME CreatorInv, NEW g \in Goroutines, Register(g)
  PROVE  CreatorInv' /\ (kind[hand[g]] \in Pools /\ Tracked => Tracked')
<1> USE NoneAssumption
    DEF CreatorInv, Register, IsAt, Goto, poolVars, worldVars, Before, After,
        Cleaning, Steps
<1>1. TypeOK'
  BY DEF TypeOK, HandInv
<1>2. HandInv'
  BY DEF TypeOK, HandInv
<1>3. KindInv'
  BY DEF HandInv, KindInv
<1>4. OwnInv'
  BY DEF TypeOK, HandInv, OwnInv
<1>5. ContainerInv'
  BY DEF TypeOK, OwnInv, ContainerInv
<1>6. FileInv'
  BY DEF TypeOK, FileInv
<1>7. NumberInv'
  BY DEF TypeOK, NumberInv, Name
<1>8. RegisteredExists'
  BY DEF ContainerInv, RegisteredExists
<1>9. kind[hand[g]] \in Pools /\ Tracked => Tracked'
  <2> SUFFICES ASSUME kind[hand[g]] \in Pools, Tracked, NEW i \in containers
               PROVE  i \in running' \/ \E h \in Goroutines : hand'[h] = i
    BY DEF Tracked
  <2>1. /\ running' = running \cup {hand[g]}
        /\ \A h \in Goroutines : h # g => hand'[h] = hand[h]
    BY DEF TypeOK
  <2>2. CASE i \in running \cup {hand[g]}
    BY <2>1, <2>2
  <2>3. ASSUME NEW h \in Goroutines, h # g, hand[h] = i
        PROVE  hand'[h] = i
    BY <2>1, <2>3
  <2> QED
    BY <2>2, <2>3 DEF Tracked
<1>10. ReturnedInv' /\ ConfigOutlivesContainer'
  BY DEF ReturnedInv, ConfigOutlivesContainer
<1> QED  BY <1>1, <1>2, <1>3, <1>4, <1>5, <1>6, <1>7, <1>8, <1>9, <1>10

\* A returned instance is taken in hand, by any number of goroutines.
LEMMA BeginCleanupKeeps ==
  ASSUME CreatorInv, NEW g \in Goroutines, NEW i \in Instances, BeginCleanup(g, i)
  PROVE  CreatorInv' /\ (Tracked => Tracked')
<1> USE NoneAssumption
    DEF CreatorInv, BeginCleanup, IsAt, Goto, poolVars, worldVars, Before, After,
        Cleaning, Steps
<1>1. HandInv'
  BY DEF TypeOK, HandInv, Kinds
<1>2. ReturnedInv'
  BY DEF TypeOK, ReturnedInv
<1>3. Tracked => Tracked'
  BY DEF TypeOK, HandInv, Tracked
<1>4. /\ TypeOK' /\ KindInv' /\ OwnInv' /\ ContainerInv' /\ FileInv'
      /\ NumberInv' /\ RegisteredExists' /\ ConfigOutlivesContainer'
  BY DEF TypeOK, KindInv, OwnInv, ContainerInv, FileInv, NumberInv,
      RegisteredExists, ConfigOutlivesContainer, Name
<1> QED  BY <1>1, <1>2, <1>3, <1>4

\* The map loses an instance that its cleaner has in hand.
LEMMA DeleteFromRunningKeeps ==
  ASSUME CreatorInv, NEW g \in Goroutines, DeleteFromRunning(g)
  PROVE  CreatorInv' /\ (Tracked => Tracked')
<1> USE NoneAssumption
    DEF CreatorInv, DeleteFromRunning, IsAt, Goto, poolVars, worldVars, Before,
        After, Cleaning, Steps
<1>1. /\ TypeOK' /\ HandInv' /\ ReturnedInv' /\ KindInv' /\ OwnInv'
      /\ ContainerInv' /\ FileInv' /\ NumberInv' /\ RegisteredExists'
      /\ (Tracked => Tracked') /\ ConfigOutlivesContainer'
  BY DEF TypeOK, HandInv, ReturnedInv, KindInv, OwnInv, ContainerInv,
      FileInv, NumberInv, RegisteredExists, Tracked,
      ConfigOutlivesContainer, Name
<1> QED  BY <1>1

\* The container goes, of an instance that no map lists any more.
LEMMA RemoveContainerKeeps ==
  ASSUME CreatorInv, NEW g \in Goroutines, RemoveContainer(g)
  PROVE  CreatorInv' /\ (Tracked => Tracked')
<1> USE NoneAssumption
    DEF CreatorInv, RemoveContainer, Finish, IsAt, Goto, poolVars, worldVars,
        Before, After, Cleaning, Steps
<1>1. HandInv'
  BY DEF TypeOK, HandInv
<1>2. ReturnedInv'
  BY DEF TypeOK, ReturnedInv
<1>3. OwnInv'
  BY DEF TypeOK, HandInv, OwnInv
<1>4. ContainerInv'
  BY DEF TypeOK, OwnInv, ContainerInv
<1>5. FileInv'
  BY DEF TypeOK, FileInv
<1>6. NumberInv'
  BY DEF TypeOK, NumberInv, Name
<1>7. RegisteredExists'
  BY DEF ContainerInv, RegisteredExists
<1>8. Tracked => Tracked'
  BY DEF TypeOK, HandInv, Tracked
<1>9. TypeOK' /\ KindInv' /\ ConfigOutlivesContainer'
  BY DEF TypeOK, KindInv, ConfigOutlivesContainer
<1> QED  BY <1>1, <1>2, <1>3, <1>4, <1>5, <1>6, <1>7, <1>8, <1>9

\* The file goes, of an instance whose container is gone.
LEMMA RemoveConfigFileKeeps ==
  ASSUME CreatorInv, NEW g \in Goroutines, RemoveConfigFile(g)
  PROVE  CreatorInv' /\ (Tracked => Tracked')
<1> USE NoneAssumption
    DEF CreatorInv, RemoveConfigFile, Finish, IsAt, Goto, poolVars, worldVars,
        Before, After, Cleaning, Steps
<1>1. HandInv'
  BY DEF TypeOK, HandInv
<1>2. ReturnedInv'
  BY DEF TypeOK, ReturnedInv
<1>3. OwnInv'
  BY DEF TypeOK, HandInv, OwnInv
<1>4. ContainerInv'
  BY DEF TypeOK, ContainerInv
<1>5. FileInv'
  BY DEF TypeOK, OwnInv, FileInv
<1>6. NumberInv'
  BY DEF TypeOK, NumberInv, Name
<1>7. Tracked => Tracked'
  BY DEF TypeOK, ContainerInv, Tracked
<1>8. ConfigOutlivesContainer'
  BY DEF ContainerInv, ConfigOutlivesContainer
<1>9. TypeOK' /\ KindInv' /\ RegisteredExists'
  BY DEF TypeOK, KindInv, RegisteredExists
<1> QED  BY <1>1, <1>2, <1>3, <1>4, <1>5, <1>6, <1>7, <1>8, <1>9

\* The copy of the map holds returned instances.
LEMMA CleanupAllKeeps ==
  ASSUME CreatorInv, NEW g \in Goroutines, NEW k \in Pools, CleanupAll(g, k)
  PROVE  CreatorInv' /\ (Tracked => Tracked')
<1> USE NoneAssumption
    DEF CreatorInv, CleanupAll, IsAt, Goto, poolVars, worldVars, Before, After,
        Cleaning, Steps
<1>1. /\ TypeOK' /\ HandInv' /\ ReturnedInv' /\ KindInv' /\ OwnInv'
      /\ ContainerInv' /\ FileInv' /\ NumberInv' /\ RegisteredExists'
      /\ (Tracked => Tracked') /\ ConfigOutlivesContainer'
  BY DEF TypeOK, HandInv, ReturnedInv, KindInv, OwnInv, ContainerInv,
      FileInv, NumberInv, RegisteredExists, Tracked,
      ConfigOutlivesContainer, Name
<1> QED  BY <1>1

\* The next of the copied instances is taken in hand.
LEMMA CleanupNextKeeps ==
  ASSUME CreatorInv, NEW g \in Goroutines, CleanupNext(g)
  PROVE  CreatorInv' /\ (Tracked => Tracked')
<1> USE NoneAssumption
    DEF CreatorInv, CleanupNext, IsAt, Goto, poolVars, worldVars, Before, After,
        Cleaning, Steps
<1>1. HandInv'
  BY DEF TypeOK, HandInv, ReturnedInv, KindInv
<1>2. ReturnedInv'
  BY DEF TypeOK, ReturnedInv
<1>3. OwnInv'
  BY DEF TypeOK, ReturnedInv, OwnInv
<1>4. ContainerInv'
  BY DEF TypeOK, ContainerInv
<1>5. FileInv'
  BY DEF TypeOK, FileInv
<1>6. NumberInv'
  BY DEF TypeOK, NumberInv, Name
<1>7. Tracked => Tracked'
  BY DEF TypeOK, HandInv, Tracked
<1>8. TypeOK' /\ KindInv' /\ RegisteredExists' /\ ConfigOutlivesContainer'
  BY DEF TypeOK, KindInv, RegisteredExists, ConfigOutlivesContainer
<1> QED  BY <1>1, <1>2, <1>3, <1>4, <1>5, <1>6, <1>7, <1>8

\* A failed call changes nothing but the program counter.
LEMMA CallFailsKeeps ==
  ASSUME CreatorInv, NEW g \in Goroutines, CallFails(g)
  PROVE  CreatorInv' /\ (Tracked => Tracked')
<1> USE NoneAssumption
    DEF CreatorInv, CallFails, IsAt, Goto, poolVars, worldVars, Before, After,
        Cleaning, Steps
<1>1. HandInv'
  BY DEF TypeOK, HandInv
<1>2. ReturnedInv'
  BY DEF TypeOK, ReturnedInv
<1>3. OwnInv'
  BY DEF TypeOK, OwnInv
<1>4. ContainerInv'
  BY DEF TypeOK, ContainerInv
<1>5. FileInv'
  BY DEF TypeOK, FileInv
<1>6. NumberInv'
  BY DEF TypeOK, NumberInv, Name
<1>7. /\ TypeOK' /\ KindInv' /\ RegisteredExists' /\ (Tracked => Tracked')
      /\ ConfigOutlivesContainer'
  BY DEF TypeOK, KindInv, RegisteredExists, Tracked, ConfigOutlivesContainer
<1> QED  BY <1>1, <1>2, <1>3, <1>4, <1>5, <1>6, <1>7

\* Nor does a step that changes nothing.
LEMMA SameCreator == CreatorInv /\ UNCHANGED vars => CreatorInv'
  BY DEF CreatorInv, vars, TypeOK, HandInv, ReturnedInv, KindInv, OwnInv, ContainerInv,
     FileInv, NumberInv, Name, RegisteredExists, ConfigOutlivesContainer

-----------------------------------------------------------------------------

\* Every step of the creators preserves the invariant.
LEMMA NextIInv == IInv /\ [Next]_vars => IInv'
<1> SUFFICES ASSUME IInv, [Next]_vars
             PROVE  IInv'
  OBVIOUS
<1> USE DEF IInv
<1>1. ASSUME NEW g \in Goroutines, NEW k \in Pools, Begin(g, k) \/ CleanupAll(g, k)
      PROVE  IInv'
  <2>1. PoolsOnly'
    BY <1>1 DEF Begin, CleanupAll, PoolsOnly, poolVars, CreatorInv, TypeOK
  <2> QED
    BY <1>1, <2>1, BeginKeeps, CleanupAllKeeps DEF Kinds
<1>2. ASSUME NEW g \in Goroutines, NEW i \in Instances, BeginCleanup(g, i)
      PROVE  IInv'
  BY <1>2, BeginCleanupKeeps DEF BeginCleanup, PoolsOnly, poolVars
<1>3. ASSUME NEW g \in Goroutines, CreateStep(g) \/ Register(g)
      PROVE  IInv'
  <2>1. PoolsOnly'
    BY <1>3 DEF CreateStep, CreateConfigFile, WriteConfigFile, TakeNumber, Prepare,
       CreateContainer, StartContainer, AwaitReady, Register, PoolsOnly, poolVars
  <2>2. CASE CreateStep(g)
    BY <2>1, <2>2, CreateConfigFileKeeps, WriteConfigFileKeeps, TakeNumberKeeps,
       PrepareKeeps, CreateContainerKeeps, StartContainerKeeps, AwaitReadyKeeps
    DEF CreateStep
  <2>3. CASE Register(g)
    <3>1. kind[hand[g]] \in Pools
      BY <2>3, NoneAssumption
      DEF Register, IsAt, CreatorInv, TypeOK, HandInv, PoolsOnly, Kinds
    <3> QED
      BY <2>1, <2>3, <3>1, RegisterKeeps
  <2> QED
    BY <1>3, <2>2, <2>3
<1>4. ASSUME NEW g \in Goroutines, CleanupStep(g) \/ CallFails(g)
      PROVE  IInv'
  <2>1. PoolsOnly'
    BY <1>4 DEF CleanupStep, DeleteFromRunning, RemoveContainer, RemoveConfigFile,
       CleanupNext, CallFails, PoolsOnly, poolVars
  <2> QED
    BY <1>4, <2>1, DeleteFromRunningKeeps, RemoveContainerKeeps, RemoveConfigFileKeeps,
       CleanupNextKeeps, CallFailsKeeps DEF CleanupStep
<1>5. CASE UNCHANGED vars
  BY <1>5, SameCreator DEF vars, PoolsOnly, Tracked
<1> QED
  BY <1>1, <1>2, <1>3, <1>4, <1>5 DEF Next, Terminated

\* The inductive invariant holds in every behaviour of the creators.
THEOREM Invariance == Spec => []IInv
  BY InitIInv, NextIInv, PTL DEF Spec

\* Every variable keeps its type: a goroutine has an instance in hand in
\* every step that looks one up.
THEOREM TypeCorrectness == Spec => []TypeOK
  BY Invariance, PTL DEF IInv, CreatorInv

\* A creator's Cleanup never copies an instance whose container was already
\* removed (delete under runningMutex precedes ContainerRemove).
THEOREM ListedInstancesExist == Spec => []RegisteredExists
  BY Invariance, PTL DEF IInv, CreatorInv

\* No container is forgotten between ContainerCreate and the insertion into
\* the running map, or between its deletion from there and ContainerRemove.
THEOREM ContainersAreTracked == Spec => []Tracked
  BY Invariance, PTL DEF IInv, CreatorInv

\* The bind-mounted icingadb.yml outlives the container that reads it.
THEOREM ConfigurationOutlivesContainer == Spec => []ConfigOutlivesContainer
  BY Invariance, PTL DEF IInv, CreatorInv

\* The atomic counters give no two containers of a kind the same name.
THEOREM NamesAreUnique == Spec => []NoNameConflict
<1>1. IInv => NoNameConflict
  BY NoneAssumption
  DEF IInv, CreatorInv, PoolsOnly, TypeOK, HandInv, ContainerInv, NumberInv, NoNameConflict,
     NameTaken, Name, Before
<1> QED
  BY <1>1, Invariance, PTL

-----------------------------------------------------------------------------

\* A step that creates and removes no container, and returns no instance,
\* is a stutter of the lease.
LEMMA LeaseStutter ==
  ASSUME UNCHANGED <<returned, containers>>
  PROVE  UNCHANGED Phases
  BY DEF Phases, Phase

\* Only three actions move a lease on.
LEMMA LeaseStep == IInv /\ [Next]_vars => [Lease!Next]_Phases
<1> SUFFICES ASSUME IInv, [Next]_vars
             PROVE  [Lease!Next]_Phases
  OBVIOUS
<1> USE DEF Lease!Next, Lease!Start, Lease!Lease, Lease!Remove, Lease!Move,
            Phases, Phase
<1>1. ASSUME NEW g \in Goroutines, CreateContainer(g)
      PROVE  [Lease!Next]_Phases
  <2>1. CASE NameTaken(hand[g])
    BY <1>1, <2>1 DEF CreateContainer, poolVars
  <2>2. CASE ~NameTaken(hand[g])
    <3>1. /\ hand[g] \in Instances \ (containers \cup returned)
          /\ containers' = containers \cup {hand[g]}
          /\ returned' = returned
      BY <1>1, <2>2 DEF CreateContainer, IsAt, poolVars, IInv, CreatorInv, HandInv, OwnInv,
         ContainerInv, Before, TypeOK
    <3> QED
      BY <3>1
  <2> QED
    BY <2>1, <2>2
<1>2. ASSUME NEW g \in Goroutines, Register(g)
      PROVE  [Lease!Next]_Phases
  <2>1. /\ hand[g] \in (Instances \cap containers) \ returned
        /\ returned' = returned \cup {hand[g]}
        /\ containers' = containers
    BY <1>2 DEF Register, IsAt, worldVars, IInv, CreatorInv, HandInv, OwnInv, ContainerInv,
       After, TypeOK
  <2> QED
    BY <2>1
<1>3. ASSUME NEW g \in Goroutines, RemoveContainer(g)
      PROVE  [Lease!Next]_Phases
  <2>1. /\ hand[g] \in Instances \cap returned
        /\ containers' = containers \ {hand[g]}
        /\ returned' = returned
    BY <1>3 DEF RemoveContainer, IsAt, poolVars, IInv, CreatorInv, HandInv, ReturnedInv,
       Cleaning, TypeOK
  <2>2. CASE hand[g] \notin containers
    BY <2>1, <2>2
  <2>3. CASE hand[g] \in containers
    BY <2>1, <2>3
  <2> QED
    BY <2>2, <2>3
<1>4. ASSUME NEW g \in Goroutines,
             \/ \E k \in Pools : Begin(g, k) \/ CleanupAll(g, k)
             \/ \E i \in Instances : BeginCleanup(g, i)
             \/ CreateStep(g) /\ ~CreateContainer(g)
             \/ CleanupStep(g) /\ ~RemoveContainer(g)
             \/ CallFails(g)
      PROVE  UNCHANGED Phases
  <2>1. UNCHANGED <<returned, containers>>
    BY <1>4 DEF Begin, CleanupAll, BeginCleanup, CreateStep, CreateConfigFile,
       WriteConfigFile, TakeNumber, Prepare, StartContainer, AwaitReady,
       CleanupStep, DeleteFromRunning, RemoveConfigFile, CleanupNext, CallFails,
       poolVars, worldVars
  <2> QED
    BY <2>1, LeaseStutter
<1>5. CASE UNCHANGED vars
  BY <1>5, LeaseStutter DEF vars
<1> QED
  BY <1>1, <1>2, <1>3, <1>4, <1>5 DEF Next, Terminated, CreateStep, CleanupStep

\* The creators keep the promise of a lease: a service exists before the
\* caller gets it, is removed only after that, and does not come back.
THEOREM ImplementsLease == Spec => LeaseSpec
<1>1. Init => Lease!Init
  BY DEF Init, Lease!Init, Phases, Phase
<1> QED
  BY <1>1, Invariance, LeaseStep, PTL DEF Spec, LeaseSpec, Lease!Spec

=============================================================================
