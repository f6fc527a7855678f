-------------------------- MODULE RootConnectionProofs --------------------------
(***************************************************************************)
(* Safety of RootConnection, for any number of goroutines, databases and   *)
(* faults.                                                                 *)
(***************************************************************************)
EXTENDS RootConnection, FiniteSetTheorems, TLAPS

-----------------------------------------------------------------------------
(* The inductive invariant.                                                *)

\* A number belongs to one goroutine at most: it works on it or owns it.
Exclusive ==
  /\ \A g, h \in Goroutines : g # h =>
       /\ id[g] # 0 => id[g] # id[h]
       /\ \A n \in owner[g] : n \notin owner[h]
  /\ \A g, h \in Goroutines : id[g] \notin owner[h]

\* Only numbers that were given out are in use.
GivenOut ==
  /\ \A g \in Goroutines :
       /\ at[g] = "idle" <=> id[g] = 0
       /\ id[g] <= counter
       /\ owner[g] \subseteq returned
  /\ \A n \in db.users \cup db.databases \cup returned : n <= counter

\* What exists of the database that a goroutine creates or drops.
ProgressOf(g) ==
  /\ at[g] = "user" => id[g] \notin db.users
  /\ at[g] \in {"user", "database", "dropuser", "finished"} => id[g] \notin db.databases
  /\ at[g] \in {"database", "grant", "extra", "return", "version", "terminate",
                "drop", "dropuser"} => id[g] \in db.users
  /\ at[g] \in {"grant", "extra", "return", "version", "terminate", "drop"} =>
       id[g] \in db.databases
  /\ at[g] = "grant" => db.kind = "mysql"
  /\ at[g] \in {"extra", "return"} => id[g] \in db.grants
  /\ at[g] = "return" => id[g] \in db.extras
  /\ at[g] = "finished" => id[g] \notin db.users
  /\ at[g] \in {"user", "database", "grant", "extra", "return"} => id[g] \notin returned
  /\ at[g] \in {"version", "terminate", "drop", "dropuser", "finished"} =>
       id[g] \in returned

Progress == \A g \in Goroutines : ProgressOf(g)

IInv == TypeOK /\ Exclusive /\ GivenOut /\ Progress /\ HeldIsComplete /\ Tracked

LEMMA InitIInv == Init => IInv
BY KindsAssumption, BoundsAssumption
DEF Init, IInv, TypeOK, Server, Exclusive, GivenOut, Progress, ProgressOf,
    HeldIsComplete, Tracked

-----------------------------------------------------------------------------
(* Statements.                                                             *)

Busy == {"user", "database", "grant", "extra", "return", "version", "terminate",
         "drop", "dropuser", "finished", "panicked"}

\* A statement of g concerns the user and the database of its number only.
Concerns(g) ==
  /\ db' \in Server /\ db'.kind = db.kind
  /\ \A n \in Ids : n # id[g] =>
       /\ n \in db'.users <=> n \in db.users
       /\ n \in db'.databases <=> n \in db.databases
       /\ n \in db'.grants <=> n \in db.grants
       /\ n \in db'.extras <=> n \in db.extras

\* What all statements have in common.
LEMMA Statement ==
  ASSUME IInv, NEW g \in Goroutines, at[g] # "idle",
         UNCHANGED <<counter, id, returned, owner>>, faults' \in 0 .. MaxFaults,
         at' = [at EXCEPT ![g] = at'[g]], at'[g] \in Busy,
         Concerns(g), ProgressOf(g)'
  PROVE  IInv'
<1> USE DEF IInv
<1>1. /\ id[g] \in Ids /\ id[g] <= counter
      /\ \A h \in Goroutines : h # g => id[h] # id[g] /\ at'[h] = at[h]
      /\ \A h \in Goroutines : id[g] \notin owner[h] /\ owner[h] \subseteq Ids
  BY DEF TypeOK, Exclusive, GivenOut
<1>2. TypeOK'
  BY DEF TypeOK, Concerns, Busy
<1>3. Exclusive'
  BY DEF Exclusive
<1>4. GivenOut'
  <2>1. \A n \in db'.users \cup db'.databases : n <= counter
    BY <1>1 DEF GivenOut, Concerns, Server
  <2> QED
    BY <2>1, <1>1 DEF TypeOK, GivenOut, Busy
<1>5. Progress'
  <2> SUFFICES ASSUME NEW h \in Goroutines, h # g PROVE ProgressOf(h)'
    BY DEF Progress
  <2>1. id[h] \in Ids \/ at[h] = "idle"
    BY DEF TypeOK, GivenOut
  <2> QED
    BY <1>1, <2>1 DEF Progress, ProgressOf, Concerns
<1>6. HeldIsComplete'
  BY <1>1 DEF HeldIsComplete, Concerns
<1>7. Tracked'
  BY <1>1 DEF Tracked, Concerns, Server
<1> QED
  BY <1>2, <1>3, <1>4, <1>5, <1>6, <1>7

LEMMA CreateUserKeeps == ASSUME IInv, NEW g \in Goroutines, CreateUser(g) PROVE IInv'
<1>1. /\ at[g] = "user" /\ at' = [at EXCEPT ![g] = at'[g]]
      /\ UNCHANGED <<counter, id, returned, owner>> /\ faults' \in 0 .. MaxFaults
  BY BoundsAssumption DEF CreateUser, Execute, Goto, IInv, TypeOK
<1>2. \/ at'[g] = "panicked" /\ db' = db
      \/ /\ at'[g] \in {"database", "panicked"}
         /\ db' = [db EXCEPT !.users = @ \cup {id[g]}]
  BY DEF CreateUser, Execute, Goto, IInv, TypeOK
<1>3. id[g] \in Ids
  BY <1>1 DEF IInv, TypeOK, GivenOut
<1>4. Concerns(g)
  BY <1>2, <1>3 DEF IInv, TypeOK, Server, Concerns
<1>5. ProgressOf(g)'
  BY <1>1, <1>2, <1>3 DEF IInv, TypeOK, Server, Progress, ProgressOf
<1> QED
  BY <1>1, <1>2, <1>4, <1>5, Statement DEF Busy

LEMMA CreateDatabaseKeeps == ASSUME IInv, NEW g \in Goroutines, CreateDatabase(g) PROVE IInv'
<1>1. /\ at[g] = "database" /\ at' = [at EXCEPT ![g] = at'[g]]
      /\ UNCHANGED <<counter, id, returned, owner>> /\ faults' \in 0 .. MaxFaults
  BY BoundsAssumption DEF CreateDatabase, Execute, Goto, IInv, TypeOK
<1>2. \/ at'[g] = "panicked" /\ db' = db
      \/ /\ at'[g] \in {"grant", "extra", "panicked"}
         /\ at'[g] = "grant" => db.kind = "mysql"
         /\ at'[g] = "extra" => db.kind # "mysql"
         /\ id[g] \in db.users
         /\ db' = [db EXCEPT !.databases = @ \cup {id[g]},
                               !.grants = IF db.kind = "mysql" THEN @ ELSE @ \cup {id[g]}]
  BY DEF CreateDatabase, Execute, Goto, IInv, TypeOK, MayCreate, Created,
         StepAfterDatabase, Progress, ProgressOf
<1>3. id[g] \in Ids
  BY <1>1 DEF IInv, TypeOK, GivenOut
<1>4. Concerns(g)
  <2>1. CASE db' = db
    BY <2>1 DEF IInv, TypeOK, Concerns
  <2>2. CASE db' # db
    <3>1. db' = [kind |-> db.kind, reconnects |-> db.reconnects, users |-> db.users,
                 databases |-> db.databases \cup {id[g]},
                 grants |-> IF db.kind = "mysql" THEN db.grants ELSE db.grants \cup {id[g]},
                 extras |-> db.extras, clients |-> db.clients]
      BY <1>2, <2>2 DEF IInv, TypeOK, Server
    <3>2. db' \in Server
      BY <1>3, <3>1 DEF IInv, TypeOK, Server
    <3> QED
      BY <3>1, <3>2 DEF Concerns
  <2> QED
    BY <2>1, <2>2
<1>5. ProgressOf(g)'
  <2>1. CASE at'[g] = "panicked"
    BY <2>1 DEF ProgressOf
  <2>2. CASE at'[g] # "panicked"
    <3>1. /\ at'[g] \in {"grant", "extra"}
          /\ id[g] \in db'.users /\ id[g] \in db'.databases /\ db'.kind = db.kind
          /\ db.kind = "mysql" \/ id[g] \in db'.grants
      BY <1>2, <1>3, <2>2 DEF IInv, TypeOK, Server
    <3> QED
      BY <1>1, <1>2, <2>2, <3>1 DEF IInv, Progress, ProgressOf
  <2> QED
    BY <2>1, <2>2
<1> QED
  BY <1>1, <1>2, <1>4, <1>5, Statement DEF Busy

LEMMA GrantKeeps == ASSUME IInv, NEW g \in Goroutines, Grant(g) PROVE IInv'
<1>1. /\ at[g] = "grant" /\ at' = [at EXCEPT ![g] = at'[g]]
      /\ UNCHANGED <<counter, id, returned, owner>> /\ faults' \in 0 .. MaxFaults
  BY BoundsAssumption DEF Grant, Execute, Goto, IInv, TypeOK
<1>2. \/ at'[g] = "panicked" /\ db' = db
      \/ /\ at'[g] \in {"extra", "panicked"}
         /\ db' = [db EXCEPT !.grants = @ \cup {id[g]}]
  BY DEF Grant, Execute, Goto, IInv, TypeOK
<1>3. id[g] \in Ids
  BY <1>1 DEF IInv, TypeOK, GivenOut
<1>4. Concerns(g)
  BY <1>2, <1>3 DEF IInv, TypeOK, Server, Concerns
<1>5. ProgressOf(g)'
  BY <1>1, <1>2, <1>3 DEF IInv, TypeOK, Server, Progress, ProgressOf
<1> QED
  BY <1>1, <1>2, <1>4, <1>5, Statement DEF Busy

LEMMA AddExtraKeeps == ASSUME IInv, NEW g \in Goroutines, AddExtra(g) PROVE IInv'
<1>1. /\ at[g] = "extra" /\ at' = [at EXCEPT ![g] = at'[g]]
      /\ UNCHANGED <<counter, id, returned, owner>> /\ faults' \in 0 .. MaxFaults
  BY BoundsAssumption DEF AddExtra, Execute, Goto, IInv, TypeOK
<1>2. \/ at'[g] = "panicked" /\ db' = db
      \/ /\ at'[g] \in {"return", "panicked"}
         /\ db' = [db EXCEPT !.extras = @ \cup {id[g]}]
  BY DEF AddExtra, Execute, Goto, IInv, TypeOK
<1>3. id[g] \in Ids
  BY <1>1 DEF IInv, TypeOK, GivenOut
<1>4. Concerns(g)
  BY <1>2, <1>3 DEF IInv, TypeOK, Server, Concerns
<1>5. ProgressOf(g)'
  BY <1>1, <1>2, <1>3 DEF IInv, TypeOK, Server, Progress, ProgressOf
<1> QED
  BY <1>1, <1>2, <1>4, <1>5, Statement DEF Busy

LEMMA QueryVersionKeeps == ASSUME IInv, NEW g \in Goroutines, QueryVersion(g) PROVE IInv'
<1>1. /\ at[g] = "version" /\ at' = [at EXCEPT ![g] = at'[g]]
      /\ UNCHANGED <<counter, id, returned, owner>> /\ faults' \in 0 .. MaxFaults
  <2>1. PICK step \in Busy : at' = [at EXCEPT ![g] = step]
    BY DEF QueryVersion, Execute, Goto, Busy
  <2>2. at'[g] = step
    BY <2>1 DEF IInv, TypeOK
  <2>3. at[g] = "version" /\ UNCHANGED <<counter, id, returned, owner>>
    BY DEF QueryVersion, Execute
  <2>4. faults' = faults \/ (faults < MaxFaults /\ faults' = faults + 1)
    BY DEF QueryVersion, Execute
  <2> QED
    BY <2>1, <2>2, <2>3, <2>4, BoundsAssumption DEF IInv, TypeOK
<1>2. \/ at'[g] = "panicked" /\ db' = db
      \/ /\ at'[g] \in {"drop", "terminate", "panicked"}
         /\ db' = db
  BY DEF QueryVersion, Execute, Goto, IInv, TypeOK
<1>3. id[g] \in Ids
  BY <1>1 DEF IInv, TypeOK, GivenOut
<1>4. Concerns(g)
  BY <1>2, <1>3 DEF IInv, TypeOK, Server, Concerns
<1>5. ProgressOf(g)'
  BY <1>1, <1>2, <1>3 DEF IInv, TypeOK, Server, Progress, ProgressOf
<1> QED
  BY <1>1, <1>2, <1>4, <1>5, Statement DEF Busy

LEMMA TerminateKeeps == ASSUME IInv, NEW g \in Goroutines, Terminate(g) PROVE IInv'
<1>1. /\ at[g] = "terminate" /\ at' = [at EXCEPT ![g] = at'[g]]
      /\ UNCHANGED <<counter, id, returned, owner>> /\ faults' \in 0 .. MaxFaults
  BY BoundsAssumption DEF Terminate, Execute, Goto, IInv, TypeOK
<1>2. \/ at'[g] = "panicked" /\ db' = db
      \/ /\ at'[g] \in {"drop", "panicked"}
         /\ db' = [db EXCEPT !.clients = @ \ {id[g]}]
  BY DEF Terminate, Execute, Goto, IInv, TypeOK
<1>3. id[g] \in Ids
  BY <1>1 DEF IInv, TypeOK, GivenOut
<1>4. Concerns(g)
  BY <1>2, <1>3 DEF IInv, TypeOK, Server, Concerns
<1>5. ProgressOf(g)'
  BY <1>1, <1>2, <1>3 DEF IInv, TypeOK, Server, Progress, ProgressOf
<1> QED
  BY <1>1, <1>2, <1>4, <1>5, Statement DEF Busy

LEMMA DropDatabaseKeeps == ASSUME IInv, NEW g \in Goroutines, DropDatabase(g) PROVE IInv'
<1>1. /\ at[g] = "drop" /\ at' = [at EXCEPT ![g] = at'[g]]
      /\ UNCHANGED <<counter, id, returned, owner>> /\ faults' \in 0 .. MaxFaults
  BY BoundsAssumption DEF DropDatabase, Execute, Goto, IInv, TypeOK
<1>2. \/ at'[g] = "panicked" /\ db' = db
      \/ /\ at'[g] \in {"dropuser", "panicked"}
         /\ db' = Dropped(g)
  BY DEF DropDatabase, Execute, Goto, IInv, TypeOK
<1>3. id[g] \in Ids
  BY <1>1 DEF IInv, TypeOK, GivenOut
<1>4. /\ Dropped(g) \in Server /\ Dropped(g).kind = db.kind
      /\ Dropped(g).users = db.users
      /\ Dropped(g).databases = db.databases \ {id[g]}
      /\ Dropped(g).clients = db.clients \ {id[g]}
      /\ Dropped(g).grants \in {db.grants, db.grants \ {id[g]}}
      /\ Dropped(g).extras \in {db.extras, db.extras \ {id[g]}}
  <2> DEFINE left(set) == IF db.kind = "mysql" THEN set ELSE set \ {id[g]}
  <2>1. /\ db \in Server
        /\ db.databases \ {id[g]} \in SUBSET Ids /\ db.clients \ {id[g]} \in SUBSET Ids
        /\ left(db.grants) \in SUBSET Ids /\ left(db.extras) \in SUBSET Ids
    BY DEF IInv, TypeOK, Server
  <2>2. Dropped(g) =
          [db EXCEPT !.databases = db.databases \ {id[g]}, !.clients = db.clients \ {id[g]},
                     !.grants = left(db.grants), !.extras = left(db.extras)]
    BY DEF Dropped
  <2>3. /\ left(db.grants) \in {db.grants, db.grants \ {id[g]}}
        /\ left(db.extras) \in {db.extras, db.extras \ {id[g]}}
    OBVIOUS
  <2> HIDE DEF left
  <2>4. /\ Dropped(g) \in Server
        /\ Dropped(g).kind = db.kind /\ Dropped(g).users = db.users
        /\ Dropped(g).databases = db.databases \ {id[g]}
        /\ Dropped(g).clients = db.clients \ {id[g]}
        /\ Dropped(g).grants = left(db.grants) /\ Dropped(g).extras = left(db.extras)
    <3> DEFINE a == db.databases \ {id[g]}
               b == db.clients \ {id[g]}
               c == left(db.grants)
               d == left(db.extras)
    <3>1. a \in SUBSET Ids /\ b \in SUBSET Ids /\ c \in SUBSET Ids /\ d \in SUBSET Ids
      BY <2>1
    <3>2. Dropped(g) = [db EXCEPT !.databases = a, !.clients = b, !.grants = c, !.extras = d]
      BY <2>2
    <3> HIDE DEF a, b, c, d
    <3>3. Dropped(g) \in Server
      BY <2>1, <3>1, <3>2 DEF Server
    <3>4. Dropped(g).kind = db.kind /\ Dropped(g).users = db.users
      BY <2>1, <3>2 DEF Server
    <3>5. Dropped(g).databases = a /\ Dropped(g).clients = b
      BY <2>1, <3>2 DEF Server
    <3>6. Dropped(g).grants = c /\ Dropped(g).extras = d
      BY <2>1, <3>2 DEF Server
    <3> QED
      BY <3>3, <3>4, <3>5, <3>6 DEF a, b, c, d
  <2> QED
    BY <2>3, <2>4
<1>5. Concerns(g)
  <2>1. CASE db' = db
    BY <2>1 DEF IInv, TypeOK, Concerns
  <2>2. CASE db' = Dropped(g)
    BY <1>4, <2>2 DEF Concerns
  <2> QED
    BY <1>2, <2>1, <2>2
<1>6. ProgressOf(g)'
  <2>1. CASE at'[g] = "panicked"
    BY <2>1 DEF ProgressOf
  <2>2. CASE at'[g] # "panicked"
    <3>1. /\ at'[g] \in {"dropuser"}
          /\ db'.users = db.users /\ id[g] \notin db'.databases
      BY <1>2, <1>4, <2>2
    <3> QED
      BY <1>1, <1>2, <2>2, <3>1 DEF IInv, Progress, ProgressOf
  <2> QED
    BY <2>1, <2>2
<1> QED
  BY <1>1, <1>2, <1>5, <1>6, Statement DEF Busy

LEMMA DropUserKeeps == ASSUME IInv, NEW g \in Goroutines, DropUser(g) PROVE IInv'
<1>1. /\ at[g] = "dropuser" /\ at' = [at EXCEPT ![g] = at'[g]]
      /\ UNCHANGED <<counter, id, returned, owner>> /\ faults' \in 0 .. MaxFaults
  BY BoundsAssumption DEF DropUser, Execute, Goto, IInv, TypeOK
<1>2. \/ at'[g] = "panicked" /\ db' = db
      \/ /\ at'[g] \in {"finished", "panicked"}
         /\ db' = [db EXCEPT !.users = @ \ {id[g]}, !.grants = @ \ {id[g]},
                               !.extras = @ \ {id[g]}]
  BY DEF DropUser, Execute, Goto, IInv, TypeOK
<1>3. id[g] \in Ids
  BY <1>1 DEF IInv, TypeOK, GivenOut
<1>4. Concerns(g)
  <2>1. CASE db' = db
    BY <2>1 DEF IInv, TypeOK, Concerns
  <2>2. CASE db' # db
    <3>1. db' = [kind |-> db.kind, reconnects |-> db.reconnects, users |-> db.users \ {id[g]},
                 databases |-> db.databases,
                 grants |-> db.grants \ {id[g]},
                 extras |-> db.extras \ {id[g]}, clients |-> db.clients]
      BY <1>2, <2>2 DEF IInv, TypeOK, Server
    <3>2. db' \in Server
      BY <1>3, <3>1 DEF IInv, TypeOK, Server
    <3> QED
      BY <3>1, <3>2 DEF Concerns
  <2> QED
    BY <2>1, <2>2
<1>5. ProgressOf(g)'
  <2>1. CASE at'[g] = "panicked"
    BY <2>1 DEF ProgressOf
  <2>2. CASE at'[g] # "panicked"
    <3>1. /\ at'[g] \in {"finished"}
          /\ db'.databases = db.databases /\ id[g] \notin db'.users
      BY <1>2, <1>3, <2>2 DEF IInv, TypeOK, Server
    <3> QED
      BY <1>1, <1>2, <2>2, <3>1 DEF IInv, Progress, ProgressOf
  <2> QED
    BY <2>1, <2>2
<1> QED
  BY <1>1, <1>2, <1>4, <1>5, Statement DEF Busy

-----------------------------------------------------------------------------
(* The other steps.                                                        *)

LEMMA TakeIdKeeps ==
  ASSUME IInv, NEW g \in Goroutines, TakeId(g)
  PROVE  IInv'
<1> USE KindsAssumption, BoundsAssumption
    DEF IInv, TakeId, Goto
<1>1. TypeOK'
  BY DEF TypeOK, Server, Ids
<1>2. Exclusive' /\ GivenOut'
  BY DEF TypeOK, Server, Ids, Exclusive, GivenOut, Progress, ProgressOf
<1>3. Progress'
  <2>1. ASSUME NEW h \in Goroutines, h # g PROVE ProgressOf(h)'
    <3>1. at'[h] = at[h] /\ id'[h] = id[h]
      BY <2>1 DEF TypeOK
    <3> QED
      BY <3>1 DEF Progress, ProgressOf
  <2>2. ProgressOf(g)'
    <3>1. at'[g] = "user" /\ id'[g] = counter + 1
      BY DEF TypeOK
    <3>2. id'[g] \notin db.users \cup db.databases \cup returned
      BY <3>1 DEF TypeOK, GivenOut
    <3> QED
      BY <3>1, <3>2 DEF ProgressOf
  <2> QED
    BY <2>1, <2>2 DEF Progress
<1>4. HeldIsComplete'
  BY DEF TypeOK, Server, Exclusive, Progress, ProgressOf, HeldIsComplete
<1>5. Tracked'
  BY DEF TypeOK, Server, Ids, Exclusive, GivenOut, Progress, ProgressOf, Tracked
<1> QED
  BY <1>1, <1>2, <1>3, <1>4, <1>5

LEMMA ReturnKeeps ==
  ASSUME IInv, NEW g \in Goroutines, Return(g)
  PROVE  IInv'
<1> USE KindsAssumption, BoundsAssumption
    DEF IInv, Return, Goto
<1>1. TypeOK'
  <2>1. id[g] \in Ids
    BY DEF TypeOK, GivenOut
  <2> QED
    BY <2>1 DEF TypeOK
<1>2. Exclusive' /\ GivenOut'
  BY DEF TypeOK, Server, Ids, Exclusive, GivenOut, Progress, ProgressOf
<1>3. Progress'
  BY DEF TypeOK, Server, Ids, AllKinds, Exclusive, GivenOut, Progress, ProgressOf
<1>4. HeldIsComplete'
  BY DEF TypeOK, Server, Exclusive, Progress, ProgressOf, HeldIsComplete
<1>5. Tracked'
  BY DEF TypeOK, Server, Ids, Exclusive, GivenOut, Progress, ProgressOf, Tracked
<1> QED
  BY <1>1, <1>2, <1>3, <1>4, <1>5

LEMMA BeginCleanupKeeps ==
  ASSUME IInv, NEW g \in Goroutines, NEW d \in Ids, BeginCleanup(g, d)
  PROVE  IInv'
<1> USE KindsAssumption, BoundsAssumption
    DEF IInv, BeginCleanup, FirstCleanupStep, Goto
<1>1. TypeOK'
  BY DEF TypeOK, Server, Ids
<1>2. Exclusive' /\ GivenOut'
  BY DEF TypeOK, Server, Ids, Exclusive, GivenOut, Progress, ProgressOf
<1>3. Progress'
  <2>1. ASSUME NEW h \in Goroutines, h # g PROVE ProgressOf(h)'
    <3>1. at'[h] = at[h] /\ id'[h] = id[h]
      BY <2>1 DEF TypeOK
    <3> QED
      BY <3>1 DEF Progress, ProgressOf
  <2>2. ProgressOf(g)'
    <3>1. at'[g] \in {"drop", "version"} /\ id'[g] = d
      BY DEF TypeOK
    <3>2. d \in db.users \cap db.databases \cap returned
      BY DEF GivenOut, HeldIsComplete
    <3> QED
      BY <3>1, <3>2 DEF ProgressOf
  <2> QED
    BY <2>1, <2>2 DEF Progress
<1>4. HeldIsComplete'
  BY DEF TypeOK, Server, Exclusive, Progress, ProgressOf, HeldIsComplete
<1>5. Tracked'
  BY DEF TypeOK, Server, Ids, Exclusive, GivenOut, Progress, ProgressOf, Tracked
<1> QED
  BY <1>1, <1>2, <1>3, <1>4, <1>5

LEMMA FinishKeeps ==
  ASSUME IInv, NEW g \in Goroutines, Finish(g)
  PROVE  IInv'
<1> USE KindsAssumption, BoundsAssumption
    DEF IInv, Finish, Goto
<1>1. TypeOK'
  BY DEF TypeOK, Server, Ids
<1>2. Exclusive' /\ GivenOut'
  BY DEF TypeOK, Server, Ids, Exclusive, GivenOut, Progress, ProgressOf
<1>3. Progress'
  BY DEF TypeOK, Server, Ids, AllKinds, Exclusive, GivenOut, Progress, ProgressOf
<1>4. HeldIsComplete'
  BY DEF TypeOK, Server, Exclusive, Progress, ProgressOf, HeldIsComplete
<1>5. Tracked'
  BY DEF TypeOK, Server, Ids, Exclusive, GivenOut, Progress, ProgressOf, Tracked
<1> QED
  BY <1>1, <1>2, <1>3, <1>4, <1>5

LEMMA ConnectKeeps ==
  ASSUME IInv, NEW d \in Ids, Connect(d)
  PROVE  IInv'
<1> USE KindsAssumption, BoundsAssumption
    DEF IInv, Connect, Cleaning, Goto
<1>1. TypeOK'
  BY DEF TypeOK, Server, Ids
<1>2. Exclusive' /\ GivenOut'
  BY DEF TypeOK, Server, Ids, Exclusive, GivenOut, Progress, ProgressOf
<1>3. Progress'
  BY DEF TypeOK, Server, Ids, AllKinds, Exclusive, GivenOut, Progress, ProgressOf
<1>4. HeldIsComplete'
  BY DEF TypeOK, Server, Exclusive, Progress, ProgressOf, HeldIsComplete
<1>5. Tracked'
  BY DEF TypeOK, Server, Ids, Exclusive, GivenOut, Progress, ProgressOf, Tracked
<1> QED
  BY <1>1, <1>2, <1>3, <1>4, <1>5

LEMMA NextIInv == IInv /\ [Next]_vars => IInv'
<1>1. IInv /\ UNCHANGED vars => IInv'
  BY DEF IInv, TypeOK, Exclusive, GivenOut, Progress, ProgressOf,
         HeldIsComplete, Tracked, vars
<1> QED
  BY <1>1, CreateUserKeeps, CreateDatabaseKeeps, GrantKeeps, AddExtraKeeps,
     QueryVersionKeeps, TerminateKeeps, DropDatabaseKeeps, DropUserKeeps, TakeIdKeeps,
     ReturnKeeps, BeginCleanupKeeps, FinishKeeps, ConnectKeeps
  DEF Next, CreateStep, CleanupStep, Ended

-----------------------------------------------------------------------------

\* In every reachable state.
THEOREM Invariance == Spec => []IInv
  BY InitIInv, NextIInv, PTL DEF Spec

\* Every variable keeps its type.
THEOREM TypeCorrectness == Spec => []TypeOK
  BY Invariance, PTL DEF IInv

\* A database that a test holds stays complete, whatever other goroutines do.
THEOREM HeldDatabasesAreComplete == Spec => []HeldIsComplete
  BY Invariance, PTL DEF IInv

\* No user and no database in the server is without a goroutine that has it.
THEOREM DatabasesAreTracked == Spec => []Tracked
  BY Invariance, PTL DEF IInv

-----------------------------------------------------------------------------
(* The databases are leased.                                               *)

Phases == [d \in Ids |-> Phase(d)]

LEMMA Moves ==
  ASSUME NEW d \in Ids, NEW from, NEW to, Phase(d) = from, Phase(d)' = to,
         \A e \in Ids : e # d => Phase(e)' = Phase(e)
  PROVE  Lease!Move(d, from, to)
BY DEF Lease!Move

\* Only three steps move a lease on.
LEMMA LeaseStep == IInv /\ [Next]_vars => [Lease!Next]_Phases
<1> SUFFICES ASSUME IInv, [Next]_vars PROVE [Lease!Next]_Phases
  OBVIOUS
<1>1. ASSUME db'.databases = db.databases, returned' = returned
      PROVE  [Lease!Next]_Phases
  BY <1>1 DEF Phases, Phase
<1> USE DEF Lease!Next, Lease!Start, Lease!Lease, Lease!Remove
<1>2. ASSUME NEW g \in Goroutines, CreateDatabase(g)
      PROVE  [Lease!Next]_Phases
  <2>1. CASE db' = db
    BY <1>1, <1>2, <2>1 DEF CreateDatabase, Execute
  <2>2. CASE db' # db
    <3>1. /\ at[g] = "database" /\ returned' = returned
          /\ db' = Created(g)
      BY <1>2, <2>2 DEF CreateDatabase, Execute
    <3>2. id[g] \in Ids \ (db.databases \cup returned)
      BY <3>1 DEF IInv, TypeOK, GivenOut, Progress, ProgressOf
    <3>3. db'.databases = db.databases \cup {id[g]}
      BY <3>1 DEF Created, IInv, TypeOK, Server
    <3> PICK n \in Ids : n = id[g]
      BY <3>2
    <3>4. /\ Phase(n) = "absent" /\ Phase(n)' = "starting"
          /\ \A e \in Ids : e # n => Phase(e)' = Phase(e)
      BY <3>1, <3>2, <3>3 DEF Phase
    <3>5. Lease!Move(n, "absent", "starting")
      BY <3>2, <3>4, Moves
    <3> QED
      BY <3>2, <3>5
  <2> QED
    BY <2>1, <2>2
<1>3. ASSUME NEW g \in Goroutines, Return(g)
      PROVE  [Lease!Next]_Phases
  <2>1. /\ id[g] \in (Ids \cap db.databases) \ returned
        /\ returned' = returned \cup {id[g]} /\ db' = db
    BY <1>3 DEF Return, IInv, TypeOK, GivenOut, Progress, ProgressOf
  <2> PICK n \in Ids : n = id[g]
    BY <2>1
  <2>2. /\ Phase(n) = "starting" /\ Phase(n)' = "usable"
        /\ \A e \in Ids : e # n => Phase(e)' = Phase(e)
    BY <2>1 DEF Phase
  <2>3. Lease!Move(n, "starting", "usable")
    BY <2>1, <2>2, Moves
  <2> QED
    BY <2>1, <2>3
<1>4. ASSUME NEW g \in Goroutines, DropDatabase(g)
      PROVE  [Lease!Next]_Phases
  <2>1. CASE db' = db
    BY <1>1, <1>4, <2>1 DEF DropDatabase, Execute
  <2>2. CASE db' # db
    <3>1. /\ at[g] = "drop" /\ returned' = returned
          /\ db' = Dropped(g)
      BY <1>4, <2>2 DEF DropDatabase, Execute
    <3>2. id[g] \in Ids \cap db.databases \cap returned
      BY <3>1 DEF IInv, TypeOK, GivenOut, Progress, ProgressOf
    <3>3. db'.databases = db.databases \ {id[g]}
      BY <3>1 DEF Dropped, IInv, TypeOK, Server
    <3> PICK n \in Ids : n = id[g]
      BY <3>2
    <3>4. /\ Phase(n) = "usable" /\ Phase(n)' = "gone"
          /\ \A e \in Ids : e # n => Phase(e)' = Phase(e)
      BY <3>1, <3>2, <3>3 DEF Phase
    <3>5. Lease!Move(n, "usable", "gone")
      BY <3>2, <3>4, Moves
    <3> QED
      BY <3>2, <3>5
  <2> QED
    BY <2>1, <2>2
<1>5. ASSUME NEW g \in Goroutines,
             CreateUser(g) \/ Grant(g) \/ AddExtra(g) \/ QueryVersion(g) \/ Terminate(g) \/ DropUser(g)
      PROVE  [Lease!Next]_Phases
  BY <1>1, <1>5
  DEF CreateUser, Grant, AddExtra, QueryVersion, Terminate, DropUser, Execute,
      IInv, TypeOK, Server
<1>6. ASSUME NEW g \in Goroutines,
             TakeId(g) \/ (\E d \in Ids : BeginCleanup(g, d)) \/ Finish(g)
      PROVE  [Lease!Next]_Phases
  BY <1>1, <1>6 DEF TakeId, BeginCleanup, Finish
<1>7. ASSUME NEW d \in Ids, Connect(d)
      PROVE  [Lease!Next]_Phases
  BY <1>1, <1>7 DEF Connect, IInv, TypeOK, Server
<1>8. CASE UNCHANGED vars
  BY <1>1, <1>8 DEF vars
<1> QED
  BY <1>2, <1>3, <1>4, <1>5, <1>6, <1>7, <1>8 DEF Next, CreateStep, CleanupStep, Ended

\* A database exists before a test gets it, is dropped only after that, and
\* does not come back.
THEOREM ImplementsLease == Spec => LeaseSpec
<1>1. Init => Lease!Init
  BY DEF Init, Lease!Init, Phases, Phase
<1> QED
  BY <1>1, Invariance, LeaseStep, PTL DEF Spec, LeaseSpec, Lease!Spec, Phases

-----------------------------------------------------------------------------
(* The server refuses nothing, except to drop a PostgreSQL 12 database that *)
(* a client has connected to again.                                        *)

\* Without such clients, nobody is connected after Terminate.
ClientsInv ==
  \A g \in Goroutines :
    at[g] = "drop" /\ db.kind = "postgresql 12" /\ ~db.reconnects =>
      id[g] \notin db.clients

Statements(g) ==
  \/ CreateUser(g) \/ CreateDatabase(g) \/ Grant(g) \/ AddExtra(g)
  \/ QueryVersion(g) \/ Terminate(g) \/ DropDatabase(g) \/ DropUser(g)

LEMMA NothingIsRefused ==
  ASSUME IInv, ClientsInv, NEW g \in Goroutines, Statements(g)
  PROVE  /\ at[g] # "panicked" /\ at' = [at EXCEPT ![g] = at'[g]]
         /\ \/ at'[g] # "panicked" /\ faults' = faults
            \/ faults' = faults + 1
            \/ faults' = faults /\ Reconnected(g)'
<1> USE DEF IInv, TypeOK, Progress, ProgressOf, Execute, Goto
<1>1. CASE CreateUser(g)
  BY <1>1 DEF CreateUser
<1>2. CASE CreateDatabase(g)
  BY <1>2 DEF CreateDatabase, MayCreate, StepAfterDatabase
<1>3. CASE Grant(g)
  BY <1>3 DEF Grant
<1>4. CASE AddExtra(g)
  BY <1>4 DEF AddExtra, MayAddExtra
<1>5. CASE QueryVersion(g)
  <2>1. PICK step \in Busy : at' = [at EXCEPT ![g] = step]
    BY <1>5 DEF QueryVersion, Busy
  <2> QED
    BY <1>5, <2>1 DEF QueryVersion
<1>6. CASE Terminate(g)
  BY <1>6 DEF Terminate
<1>7. CASE DropDatabase(g)
  <2>1. CASE MayDrop(g)
    BY <1>7, <2>1 DEF DropDatabase
  <2>2. CASE ~MayDrop(g)
    <3>1. /\ at[g] = "drop" /\ at' = [at EXCEPT ![g] = "panicked"] /\ db' = db /\ id' = id
          /\ faults' = faults \/ faults' = faults + 1
      BY <1>7, <2>2 DEF DropDatabase
    <3>2. Reconnected(g)
      BY <2>2, <3>1 DEF MayDrop, ClientsInv, Reconnected
    <3> QED
      BY <3>1, <3>2 DEF Reconnected
  <2> QED
    BY <2>1, <2>2
<1>8. CASE DropUser(g)
  BY <1>8 DEF DropUser
<1> QED
  BY <1>1, <1>2, <1>3, <1>4, <1>5, <1>6, <1>7, <1>8 DEF Statements

LEMMA ClientsKept ==
  ASSUME IInv, ClientsInv, [Next]_vars
  PROVE  ClientsInv'
<1> SUFFICES ASSUME NEW g \in Goroutines, at'[g] = "drop", db'.kind = "postgresql 12",
                    ~db'.reconnects
             PROVE  id'[g] \notin db'.clients
  BY DEF ClientsInv
<1> USE DEF IInv, TypeOK, ClientsInv
<1>1. ASSUME NEW h \in Goroutines, Statements(h) PROVE id'[g] \notin db'.clients
  <2>1. /\ db'.clients \subseteq db.clients /\ id' = id
        /\ db'.kind = db.kind /\ db'.reconnects = db.reconnects
    BY <1>1 DEF Statements, CreateUser, CreateDatabase, Grant, AddExtra, QueryVersion,
         Terminate, DropDatabase, DropUser, Execute, Created, Dropped, Server
  <2>2. CASE at[g] = "drop"
    BY <2>1, <2>2
  <2>3. CASE at[g] # "drop"
    <3>1. g = h /\ Terminate(g) /\ at'[g] # "panicked"
      BY <1>1, <2>1, <2>3 DEF Statements, CreateUser, CreateDatabase, Grant, AddExtra,
           QueryVersion, Terminate, DropDatabase, DropUser, Execute, Goto, StepAfterDatabase
    <3>2. at'[g] = "drop" => db' = [db EXCEPT !.clients = @ \ {id[g]}]
      BY <3>1 DEF Terminate, Execute, Goto
    <3> QED
      BY <2>1, <3>2 DEF Server
  <2> QED
    BY <2>2, <2>3
<1>2. ASSUME NEW d \in Ids, Connect(d) PROVE id'[g] \notin db'.clients
  <2>1. /\ at' = at /\ id' = id /\ db'.kind = db.kind /\ db'.reconnects = db.reconnects
        /\ db'.clients = db.clients \cup {d}
        /\ d \in returned /\ (Cleaning(d) => db.reconnects)
    BY <1>2 DEF Connect, Server
  <2> QED
    BY <2>1 DEF Cleaning
<1>3. ASSUME NEW h \in Goroutines,
             TakeId(h) \/ Return(h) \/ (\E d \in Ids : BeginCleanup(h, d)) \/ Finish(h)
      PROVE  id'[g] \notin db'.clients
  BY <1>3 DEF TakeId, Return, BeginCleanup, Finish, FirstCleanupStep, Goto
<1>4. CASE UNCHANGED vars
  BY <1>4 DEF vars
<1> QED
  BY <1>1, <1>2, <1>3, <1>4 DEF Next, CreateStep, CleanupStep, Ended, Statements

\* A statement leaves the clients of other databases alone.
LEMMA OtherClients ==
  ASSUME IInv, NEW g \in Goroutines, Statements(g)
  PROVE  /\ id' = id /\ db'.kind = db.kind /\ db'.reconnects = db.reconnects
         /\ \A n \in db.clients : n # id[g] => n \in db'.clients
BY DEF Statements, CreateUser, CreateDatabase, Grant, AddExtra, QueryVersion, Terminate,
       DropDatabase, DropUser, Execute, Created, Dropped, IInv, TypeOK, Server

LEMMA NoPanics == ASSUME Unexcused = {}, faults = 0 PROVE PanicsAreFaults
<1>1. Cardinality(Unexcused) = 0
  BY FS_EmptySet, Zenon
<1> QED
  BY <1>1 DEF PanicsAreFaults

LEMMA PanicsKept ==
  ASSUME IsFiniteSet(Goroutines), IInv, ClientsInv, PanicsAreFaults, [Next]_vars
  PROVE  PanicsAreFaults'
<1>1. IsFiniteSet(Unexcused) /\ Cardinality(Unexcused) \in Nat
  BY FS_Subset, FS_CardinalityType DEF Unexcused
<1>2. Cardinality(Unexcused) <= faults
  BY DEF PanicsAreFaults
<1>3. PanicsAreFaults' <=> Cardinality(Unexcused') <= faults'
  BY DEF PanicsAreFaults
<1>4. faults \in Nat
  BY BoundsAssumption DEF IInv, TypeOK
<1>5. ASSUME Unexcused' \subseteq Unexcused, faults' = faults PROVE PanicsAreFaults'
  <2>1. Cardinality(Unexcused') \in Nat /\ Cardinality(Unexcused') <= Cardinality(Unexcused)
    BY <1>1, <1>5, FS_Subset, FS_CardinalityType
  <2> QED
    BY <1>1, <1>2, <1>3, <1>4, <1>5, <2>1
<1>6. ASSUME NEW g \in Goroutines, Unexcused' \subseteq Unexcused \cup {g}, faults' = faults + 1
      PROVE  PanicsAreFaults'
  <2> DEFINE before == Cardinality(Unexcused)
             added == Cardinality(Unexcused \cup {g})
             after == Cardinality(Unexcused')
  <2>1. IsFiniteSet(Unexcused \cup {g}) /\ (added = before \/ added = before + 1)
    BY <1>1, FS_AddElement, Zenon
  <2>2. after \in Nat /\ added \in Nat /\ after <= added
    BY <1>6, <2>1, FS_Subset, FS_CardinalityType
  <2> HIDE DEF before, added, after
  <2>3. before \in Nat /\ before <= faults
    BY <1>1, <1>2 DEF before
  <2>4. after <= faults'
    BY <1>4, <1>6, <2>1, <2>2, <2>3
  <2> QED
    BY <1>3, <2>4 DEF after
<1>7. ASSUME NEW g \in Goroutines, Statements(g) PROVE PanicsAreFaults'
  <2>1. /\ at[g] # "panicked" /\ at' = [at EXCEPT ![g] = at'[g]]
        /\ \/ at'[g] # "panicked" /\ faults' = faults
           \/ faults' = faults + 1
           \/ faults' = faults /\ Reconnected(g)'
    BY <1>7, NothingIsRefused
  <2>2. ASSUME NEW h \in Goroutines, h # g, h \in Unexcused' PROVE h \in Unexcused
    <3>1. at[h] = "panicked" /\ ~Reconnected(h)'
      BY <2>1, <2>2 DEF IInv, TypeOK, Unexcused
    <3>2. ASSUME Reconnected(h) PROVE FALSE
      <4>1. id[h] \in db.clients /\ db.clients \subseteq Ids
        BY <3>2 DEF Reconnected, IInv, TypeOK, Server
      <4>2. id[h] # id[g]
        BY <2>2, <4>1 DEF Ids, IInv, Exclusive
      <4> QED
        BY <1>7, <3>1, <3>2, <4>1, <4>2, OtherClients DEF Reconnected
    <3> QED
      BY <3>1, <3>2 DEF Unexcused
  <2>3. Unexcused' \subseteq Unexcused \cup {g}
    BY <2>2 DEF Unexcused
  <2>4. CASE faults' = faults + 1
    BY <1>6, <2>3, <2>4
  <2>5. CASE faults' = faults
    <3>1. g \notin Unexcused'
      BY <1>4, <2>1, <2>5 DEF Unexcused
    <3> QED
      BY <1>5, <2>3, <2>5, <3>1
  <2> QED
    BY <2>1, <2>4, <2>5
<1>8. ASSUME NEW g \in Goroutines,
             TakeId(g) \/ Return(g) \/ (\E d \in Ids : BeginCleanup(g, d)) \/ Finish(g)
      PROVE  PanicsAreFaults'
  <2>1. /\ at[g] # "panicked" /\ faults' = faults /\ db' = db
        /\ \E step \in Busy \cup {"idle"} : step # "panicked" /\ at' = [at EXCEPT ![g] = step]
        /\ \E n : id' = [id EXCEPT ![g] = n] \/ id' = id
    BY <1>8 DEF TakeId, Return, BeginCleanup, Finish, FirstCleanupStep, Goto, Busy
  <2>2. Unexcused' \subseteq Unexcused
    BY <2>1 DEF IInv, TypeOK, Unexcused, Reconnected
  <2> QED
    BY <1>5, <2>1, <2>2
<1>9. ASSUME NEW d \in Ids, Connect(d) PROVE PanicsAreFaults'
  <2>1. /\ at' = at /\ id' = id /\ faults' = faults /\ db.clients \subseteq db'.clients
        /\ db'.kind = db.kind /\ db'.reconnects = db.reconnects
    BY <1>9 DEF Connect, IInv, TypeOK, Server
  <2>2. Unexcused' \subseteq Unexcused
    BY <2>1 DEF Unexcused, Reconnected
  <2> QED
    BY <1>5, <2>1, <2>2
<1>10. CASE UNCHANGED vars
  <2>1. Unexcused' = Unexcused /\ faults' = faults
    BY <1>10 DEF vars, Unexcused, Reconnected
  <2> QED
    BY <1>5, <2>1
<1> QED
  BY <1>7, <1>8, <1>9, <1>10 DEF Next, CreateStep, CleanupStep, Ended, Statements

\* Every panic is due to a fault of its own, unless it is the refusal to drop a
\* PostgreSQL 12 database that a client connected to after its connections had
\* been terminated.
THEOREM EveryPanicIsAFault ==
  ASSUME IsFiniteSet(Goroutines)
  PROVE  Spec => []PanicsAreFaults
<1>1. Init => ClientsInv /\ PanicsAreFaults
  <2> SUFFICES ASSUME Init PROVE ClientsInv /\ PanicsAreFaults
    OBVIOUS
  <2>1. Unexcused = {} /\ faults = 0
    BY DEF Init, Unexcused
  <2> QED
    BY <2>1, NoPanics DEF Init, ClientsInv
<1>2. IInv /\ ClientsInv /\ PanicsAreFaults /\ [Next]_vars => (ClientsInv /\ PanicsAreFaults)'
  BY ClientsKept, PanicsKept
<1> QED
  BY <1>1, <1>2, Invariance, PTL DEF Spec

=============================================================================
