--------------------------- MODULE RootConnection ---------------------------
(***************************************************************************)
(* The databases that tests get inside the one MySQL or PostgreSQL server: *)
(* rootConnection creates a user and a database with one statement after   *)
(* the other, and Cleanup drops them again.  Nothing is locked: goroutines *)
(* share the atomic counter and the server.                                *)
(*                                                                         *)
(* A statement that the server refuses, or that fails for a reason of its  *)
(* own (at most MaxFaults times), makes the caller panic.  A failing       *)
(* statement may have taken effect before its answer was lost.             *)
(***************************************************************************)
EXTENDS Naturals, FiniteSets

CONSTANTS
  Goroutines,    \* the tests
  Kinds,         \* servers to choose from, see AllKinds
  MaxDatabases,  \* bound on the databases created
  MaxFaults      \* bound on the statements that fail

\* WITH (FORCE) exists since PostgreSQL 13.
AllKinds == {"mysql", "postgresql 12", "postgresql 13"}

ASSUME KindsAssumption == Kinds \subseteq AllKinds
ASSUME BoundsAssumption == MaxDatabases \in Nat /\ MaxFaults \in Nat

Ids == 1 .. MaxDatabases

VARIABLES
  counter,   \* rootConnection.counter
  id,        \* the number a goroutine works on, 0: none
  at,        \* program counter of each goroutine
  returned,  \* numbers whose database was returned to a test
  owner,     \* the databases each goroutine got and has to clean up
  db,        \* the server, see Server
  faults     \* number of statements that failed so far

vars == <<counter, id, at, returned, owner, db, faults>>

\* User u<n> and database d<n> are both the number n.  grants: databases
\* their user may use; extras: SESSION_VARIABLES_ADMIN of the MySQL user or
\* citext of the PostgreSQL database; clients: databases with connections;
\* reconnects: clients may connect during a cleanup, too.
Server == [kind : Kinds, reconnects : BOOLEAN, users : SUBSET Ids, databases : SUBSET Ids,
           grants : SUBSET Ids, extras : SUBSET Ids, clients : SUBSET Ids]

Init ==
  /\ counter = 0
  /\ id = [g \in Goroutines |-> 0]
  /\ at = [g \in Goroutines |-> "idle"]
  /\ returned = {}
  /\ owner = [g \in Goroutines |-> {}]
  /\ db \in {[kind |-> k, reconnects |-> r, users |-> {}, databases |-> {}, grants |-> {},
              extras |-> {}, clients |-> {}] : k \in Kinds, r \in BOOLEAN}
  /\ faults = 0

Goto(g, step) == at' = [at EXCEPT ![g] = step]

\* One statement: the server carries it out and becomes new, or refuses it.
Execute(g, step, allowed, new, next) ==
  /\ at[g] = step
  /\ \/ allowed /\ db' = new /\ Goto(g, next) /\ UNCHANGED faults
     \/ ~allowed /\ Goto(g, "panicked") /\ UNCHANGED <<db, faults>>
     \/ /\ faults < MaxFaults
        /\ faults' = faults + 1
        /\ db' = db \/ (allowed /\ db' = new)
        /\ Goto(g, "panicked")
  /\ UNCHANGED <<counter, id, returned, owner>>

-----------------------------------------------------------------------------
(* CreateMysqlDatabase and CreatePostgresqlDatabase.                       *)

\* Mutant: the number is read before the counter is advanced.
TakeOldId(g) ==
  /\ at[g] = "idle"
  /\ counter < MaxDatabases
  /\ counter' = counter + 1
  /\ id' = [id EXCEPT ![g] = counter]
  /\ Goto(g, "user")
  /\ UNCHANGED <<returned, owner, db, faults>>

\* atomic.AddUint32(&counter, 1): the names are u<id> and d<id>.
TakeId(g) ==
  /\ at[g] = "idle"
  /\ counter < MaxDatabases
  /\ counter' = counter + 1
  /\ id' = [id EXCEPT ![g] = counter + 1]
  /\ Goto(g, "user")
  /\ UNCHANGED <<returned, owner, db, faults>>

CreateUser(g) ==
  Execute(g, "user", id[g] \notin db.users,
          [db EXCEPT !.users = @ \cup {id[g]}], "database")

MayCreate(g) ==
  /\ id[g] \notin db.databases
  /\ db.kind = "mysql" \/ id[g] \in db.users

\* CREATE DATABASE; on PostgreSQL WITH OWNER, who has to exist.
Created(g) ==
  [db EXCEPT !.databases = @ \cup {id[g]},
             !.grants = IF db.kind = "mysql" THEN @ ELSE @ \cup {id[g]}]

StepAfterDatabase == IF db.kind = "mysql" THEN "grant" ELSE "extra"

\* Mutant: a failure is overlooked.
CreateDatabaseUnchecked(g) ==
  /\ at[g] = "database"
  /\ db' \in {db, Created(g)}
  /\ Goto(g, StepAfterDatabase)
  /\ UNCHANGED <<counter, id, returned, owner, faults>>

CreateDatabase(g) ==
  Execute(g, "database", MayCreate(g), Created(g), StepAfterDatabase)

\* GRANT ALL PRIVILEGES, MySQL only.
Grant(g) ==
  Execute(g, "grant", id[g] \in db.users,
          [db EXCEPT !.grants = @ \cup {id[g]}], "extra")

\* MySQL gives the user a right, PostgreSQL the database an extension.
MayAddExtra(g) == id[g] \in (IF db.kind = "mysql" THEN db.users ELSE db.databases)

\* Mutant: the error of the last statement is ignored.
AddExtraUnchecked(g) ==
  /\ at[g] = "extra"
  /\ db' \in {db, [db EXCEPT !.extras = @ \cup {id[g]}]}
  /\ Goto(g, "return")
  /\ UNCHANGED <<counter, id, returned, owner, faults>>

\* GRANT SESSION_VARIABLES_ADMIN, or createExtension of citext.
AddExtra(g) ==
  Execute(g, "extra", MayAddExtra(g),
          [db EXCEPT !.extras = @ \cup {id[g]}], "return")

Return(g) ==
  /\ at[g] = "return"
  /\ returned' = returned \cup {id[g]}
  /\ owner' = [owner EXCEPT ![g] = @ \cup {id[g]}]
  /\ id' = [id EXCEPT ![g] = 0]
  /\ Goto(g, "idle")
  /\ UNCHANGED <<counter, db, faults>>

-----------------------------------------------------------------------------
(* What the test and its Icinga DB instances do with a database.           *)

Cleaning(d) == d \in returned /\ \E g \in Goroutines : id[g] = d

Connect(d) ==
  /\ d \in (returned \cap db.databases) \ db.clients
  /\ Cleaning(d) => db.reconnects
  /\ db' = [db EXCEPT !.clients = @ \cup {d}]
  /\ UNCHANGED <<counter, id, at, returned, owner, faults>>

-----------------------------------------------------------------------------
(* rootConnectionDatabase.Cleanup.                                         *)

\* PostgreSQL opens a root connection and asks for the version of the server.
FirstCleanupStep == IF db.kind = "mysql" THEN "drop" ELSE "version"

BeginCleanup(g, d) ==
  /\ at[g] = "idle"
  /\ d \in owner[g]
  /\ owner' = [owner EXCEPT ![g] = @ \ {d}]
  /\ id' = [id EXCEPT ![g] = d]
  /\ Goto(g, FirstCleanupStep)
  /\ UNCHANGED <<counter, returned, db, faults>>

\* SHOW server_version_num
QueryVersion(g) ==
  Execute(g, "version", TRUE, db,
          IF db.kind = "postgresql 13" THEN "drop" ELSE "terminate")

\* Mutant: the connections are left open.
TerminateNothing(g) == Execute(g, "terminate", TRUE, db, "drop")

\* pg_terminate_backend, before version 13.
Terminate(g) ==
  Execute(g, "terminate", TRUE, [db EXCEPT !.clients = @ \ {id[g]}], "drop")

\* MySQL drops a database in use, and so does WITH (FORCE); without it,
\* PostgreSQL refuses to.
MayDrop(g) ==
  /\ id[g] \in db.databases
  /\ db.kind = "postgresql 12" => id[g] \notin db.clients

\* PostgreSQL drops the extension with the database, MySQL keeps the grants.
Dropped(g) ==
  [db EXCEPT !.databases = @ \ {id[g]},
             !.clients = @ \ {id[g]},
             !.grants = IF db.kind = "mysql" THEN @ ELSE @ \ {id[g]},
             !.extras = IF db.kind = "mysql" THEN @ ELSE @ \ {id[g]}]

\* Mutant: the user is forgotten.
DropDatabaseOnly(g) == Execute(g, "drop", MayDrop(g), Dropped(g), "finished")

DropDatabase(g) == Execute(g, "drop", MayDrop(g), Dropped(g), "dropuser")

\* PostgreSQL refuses to drop the owner of a database.
DropUser(g) ==
  Execute(g, "dropuser",
          id[g] \in db.users /\ (db.kind = "mysql" \/ id[g] \notin db.databases),
          [db EXCEPT !.users = @ \ {id[g]}, !.grants = @ \ {id[g]},
                     !.extras = @ \ {id[g]}],
          "finished")

Finish(g) ==
  /\ at[g] = "finished"
  /\ id' = [id EXCEPT ![g] = 0]
  /\ Goto(g, "idle")
  /\ UNCHANGED <<counter, returned, owner, db, faults>>

-----------------------------------------------------------------------------
CreateStep(g) ==
  TakeId(g) \/ CreateUser(g) \/ CreateDatabase(g) \/ Grant(g) \/ AddExtra(g) \/ Return(g)

CleanupStep(g) ==
  \/ \E d \in Ids : BeginCleanup(g, d)
  \/ QueryVersion(g) \/ Terminate(g) \/ DropDatabase(g) \/ DropUser(g) \/ Finish(g)

\* Every test panicked or cleaned up, and no further database is asked for.
Ended ==
  /\ \A g \in Goroutines :
       at[g] = "panicked" \/ (at[g] = "idle" /\ owner[g] = {} /\ counter = MaxDatabases)
  /\ UNCHANGED vars

Next ==
  \/ \E g \in Goroutines : CreateStep(g) \/ CleanupStep(g)
  \/ \E d \in Ids : Connect(d)
  \/ Ended

Spec == Init /\ [][Next]_vars

-----------------------------------------------------------------------------
(* Properties.                                                             *)

\* Every variable has its type.
TypeOK ==
  /\ counter \in 0 .. MaxDatabases
  /\ id \in [Goroutines -> {0} \cup Ids]
  /\ at \in [Goroutines -> {"idle", "user", "database", "grant", "extra", "return",
                            "version", "terminate", "drop", "dropuser", "finished",
                            "panicked"}]
  /\ returned \subseteq Ids
  /\ owner \in [Goroutines -> SUBSET Ids]
  /\ db \in Server
  /\ faults \in 0 .. MaxFaults

\* A database that a test holds is complete: its user exists and may use it,
\* and it has what Icinga DB needs (SESSION_VARIABLES_ADMIN or citext).  This
\* stays so whatever other goroutines create, drop or leave half done.
HeldIsComplete ==
  \A g \in Goroutines :
    owner[g] \subseteq db.users \cap db.databases \cap db.grants \cap db.extras

\* Nothing is forgotten: whatever exists in the server is held by a test, or
\* belongs to a goroutine that creates or drops it or panicked doing so.
Tracked ==
  \A n \in db.users \cup db.databases :
    \E g \in Goroutines : n \in owner[g] \/ n = id[g]

\* A client of the database that g drops has come back after pg_terminate_backend.
Reconnected(g) == db.kind = "postgresql 12" /\ db.reconnects /\ id[g] \in db.clients

Unexcused == {g \in Goroutines : at[g] = "panicked" /\ ~Reconnected(g)}

\* The server refuses no statement: names do not collide, not even with what
\* failed creations left behind, nothing is dropped twice, and open
\* connections do not keep a database from being dropped.  Every panic is
\* due to a fault of its own, but for a client that connects to a PostgreSQL 12
\* database between the two statements that drop it.
PanicsAreFaults == Cardinality(Unexcused) <= faults

\* A database is leased like a service of its own: it exists before it is
\* returned, is dropped only then, and does not come back.
Phase(d) ==
  CASE d \in db.databases /\ d \in returned -> "usable"
    [] d \in db.databases /\ d \notin returned -> "starting"
    [] d \notin db.databases /\ d \in returned -> "gone"
    [] OTHER -> "absent"

Lease == INSTANCE ServiceLease WITH Instances <- Ids, phase <- [d \in Ids |-> Phase(d)]

\* The databases implement ServiceLease.
LeaseSpec == Lease!Spec

=============================================================================
