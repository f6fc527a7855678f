---------------------------------- MODULE IT ----------------------------------
(***************************************************************************)
(* The IT object of a test binary: TestMain creates it, the tests start    *)
(* services through it in parallel, and TestMain's deferred Cleanup tears  *)
(* everything down again.  Built on the creators of DockerCreator.         *)
(*                                                                         *)
(* The goroutines are TestMain and the tests, used as the comment on type  *)
(* IT says.  A panic in a test runs the functions the test registered with *)
(* t.Cleanup and then takes the process down; a panic in TestMain runs its *)
(* deferred IT.Cleanup first.                                              *)
(***************************************************************************)
EXTENDS DockerCreator, Sequences, SequencesExt

CONSTANT Main  \* the goroutine of TestMain; the other goroutines are tests

ASSUME MainAssumption == Main \in Goroutines
ASSUME DistinctAssumption == Instances \cap Kinds = {}

Tests == Goroutines \ {Main}

VARIABLES
  pc,         \* where each goroutine is outside the creators
  want,       \* <<kind, with t>> of the service a goroutine asks for
  mutex,      \* IT.mutex: the goroutine that holds it, or None
  creator,    \* the kinds whose creator field is not nil
  deferred,   \* IT.deferredCleanup
  left,       \* functions that IT.Cleanup still has to call
  open,       \* the debug log, Docker client and Docker network that exist
  owner,      \* the test whose t.Cleanup removes an instance, or None
  uses,       \* the Redis server that an Icinga DB instance was given
  rdb,        \* the server whose database it was given
  cleanups,   \* what each test registered with t.Cleanup, oldest first
  panicking   \* the goroutines whose stack is unwinding

itVars == <<pc, want, mutex, creator, deferred, left, open, owner, uses, rdb,
            cleanups, panicking>>
allVars == <<vars, itVars>>

Infrastructure == {"logs", "client", "network"}

ITInit ==
  /\ Init
  /\ pc = [g \in Goroutines |-> IF g = Main THEN "logs" ELSE "waiting"]
  /\ want = [g \in Goroutines |-> None]
  /\ mutex = None
  /\ creator = {} /\ deferred = <<>> /\ left = 0 /\ open = {}
  /\ owner = [i \in Instances |-> None]
  /\ uses = [i \in Instances |-> None]
  /\ rdb = [i \in Instances |-> None]
  /\ cleanups = [g \in Goroutines |-> <<>>]
  /\ panicking = {}

IsIn(g, place) == process = "up" /\ at[g] = "idle" /\ pc[g] = place

MoveTo(g, place) == pc' = [pc EXCEPT ![g] = place]

Fault == faults < MaxFaults /\ faults' = faults + 1

-----------------------------------------------------------------------------
(* NewIT.                                                                  *)

\* setupLogging, NewClientWithOpts and NetworkCreate, each followed by the
\* registration of its clean-up.  A failure ends the process at once.
NewIT(part) ==
  /\ IsIn(Main, part)
  /\ \/ /\ open' = open \cup {part}
        /\ deferred' = Append(deferred, part)
        /\ MoveTo(Main, CASE part = "logs" -> "client"
                          [] part = "client" -> "network"
                          [] part = "network" -> "body")
        /\ UNCHANGED <<faults, process>>
     \/ /\ Fault
        /\ process' = IF part = "logs" THEN "crashed" ELSE "exited"
        /\ UNCHANGED <<open, deferred, pc>>
  /\ UNCHANGED <<poolVars, worldVars, at, hand, todo, want, mutex, creator,
                 left, owner, uses, rdb, cleanups, panicking>>

-----------------------------------------------------------------------------
(* Starting a service.                                                     *)

\* The Redis servers a test may pass to IcingaDbInstance: those that live as
\* long as the IT and, for an instance bound to the test, the test's own.
Redis(g, withT) ==
  {r \in returned : /\ kind[r] = "redis"
                    /\ owner[r] = None \/ (withT /\ owner[r] = g)}

Waiting == {g \in Goroutines : pc[g] = "get"}

\* RedisServer, Icinga2NodeT, MysqlDatabase, ...: the call of a getter, which
\* first waits for IT.mutex.  Only a test has a t to register a clean-up with.
\* Instances bounds the services asked for, one is free for every caller, and
\* a test has at most one database of each kind to clean up.
Ask(g, k, withT) ==
  /\ IsIn(g, "body")
  /\ g \notin panicking
  /\ withT => g \in Tests /\ k \notin Range(cleanups[g])
  /\ k = "icingadb" => Redis(g, withT) # {} /\ creator \cap Servers # {}
  /\ Cardinality(Waiting) < Cardinality({i \in Instances : kind[i] = None})
  /\ want' = [want EXCEPT ![g] = <<k, withT>>]
  /\ MoveTo(g, "get")
  /\ UNCHANGED <<vars, mutex, creator, deferred, left, open, owner, uses, rdb,
                 cleanups, panicking>>

\* getIcingaDb panics before it takes the mutex when the path of the binary is
\* not set in the environment.
NoBinary(g) ==
  /\ IsIn(g, "get")
  /\ want[g][1] = "icingadb"
  /\ Fault
  /\ Goto(g, "panicked")
  /\ MoveTo(g, "body")
  /\ want' = [want EXCEPT ![g] = None]
  /\ UNCHANGED <<poolVars, worldVars, hand, todo, process, mutex, creator,
                 deferred, left, open, owner, uses, rdb, cleanups, panicking>>

\* Mutant: the Cleanup of a new creator is not registered.
GetPoolForgotten(g) ==
  LET withT == want[g][2] IN
  /\ IsIn(g, "get") /\ mutex = None
  /\ want[g][1] \in Pools
  /\ Begin(g, want[g][1])
  /\ creator' = creator \cup {want[g][1]}
  /\ owner' = [owner EXCEPT ![hand'[g]] = IF withT THEN g ELSE None]
  /\ MoveTo(g, "body")
  /\ want' = [want EXCEPT ![g] = None]
  /\ UNCHANGED <<mutex, deferred, left, open, uses, rdb, cleanups, panicking>>

\* getRedis, getIcinga2, getIcingaDb: under the mutex, create the creator if
\* there is none, and register its Cleanup.  Then call the creator.
GetPool(g) ==
  LET k == want[g][1]
      withT == want[g][2]
  IN
  /\ IsIn(g, "get") /\ mutex = None
  /\ k \in Pools
  /\ Begin(g, k)
  /\ creator' = creator \cup {k}
  /\ deferred' = IF k \in creator THEN deferred ELSE Append(deferred, k)
  /\ owner' = [owner EXCEPT ![hand'[g]] = IF withT THEN g ELSE None]
  /\ IF k = "icingadb"
     THEN \E r \in Redis(g, withT), s \in creator \cap Servers :
            /\ uses' = [uses EXCEPT ![hand'[g]] = r]
            /\ rdb' = [rdb EXCEPT ![hand'[g]] = s]
     ELSE UNCHANGED <<uses, rdb>>
  /\ MoveTo(g, "body")
  /\ want' = [want EXCEPT ![g] = None]
  /\ UNCHANGED <<mutex, left, open, cleanups, panicking>>

\* Mutant: the creator field is tested before the mutex is taken.
GetServerUnchecked(g) ==
  LET k == want[g][1] IN
  /\ IsIn(g, "get") /\ mutex = None
  /\ k \in Servers
  /\ mutex' = g
  /\ Begin(g, k)
  /\ MoveTo(g, "database")
  /\ UNCHANGED <<want, creator, deferred, left, open, owner, uses, rdb, cleanups,
                 panicking>>

\* getMysqlServer, getPostgresqlServer: the server starts under the mutex,
\* unless it is there already.
GetServer(g) ==
  LET k == want[g][1] IN
  /\ IsIn(g, "get") /\ mutex = None
  /\ k \in Servers
  /\ IF k \in creator
     THEN UNCHANGED <<vars, mutex>>
     ELSE mutex' = g /\ Begin(g, k)
  /\ MoveTo(g, "database")
  /\ UNCHANGED <<want, creator, deferred, left, open, owner, uses, rdb, cleanups,
                 panicking>>

\* The creator returns.  A server is published, with its clean-up, and the
\* mutex released; an instance asked for with a t is bound to the test.
Receive(g) ==
  LET i == hand[g] IN
  /\ Register(g)
  /\ IF kind[i] \in Servers
     THEN /\ creator' = creator \cup {kind[i]}
          /\ deferred' = Append(deferred, kind[i])
          /\ mutex' = None
          /\ UNCHANGED cleanups
     ELSE /\ cleanups' = IF owner[i] = g
                         THEN [cleanups EXCEPT ![g] = Append(@, i)]
                         ELSE cleanups
          /\ UNCHANGED <<creator, deferred, mutex>>
  /\ UNCHANGED <<pc, want, left, open, owner, uses, rdb, panicking>>

\* MysqlDatabase, PostgresqlDatabase and their T variants: with the server
\* there, and the mutex released, CreateMysqlDatabase or its like, and the
\* registration of the database's Cleanup.
CreateDatabase(g) ==
  /\ IsIn(g, "database")
  /\ MoveTo(g, "body")
  /\ want' = [want EXCEPT ![g] = None]
  /\ \/ /\ cleanups' = IF want[g][2]
                       THEN [cleanups EXCEPT ![g] = Append(@, want[g][1])]
                       ELSE cleanups
        /\ UNCHANGED <<at, faults>>
     \/ Fault /\ Goto(g, "panicked") /\ UNCHANGED cleanups
  /\ UNCHANGED <<poolVars, worldVars, hand, todo, process, mutex, creator,
                 deferred, left, open, owner, uses, rdb, panicking>>

-----------------------------------------------------------------------------
(* The testing package: m.Run, the end of a test, and panics.              *)

RunTests ==
  /\ IsIn(Main, "body")
  /\ Main \notin panicking
  /\ pc' = [g \in Goroutines |-> IF g = Main THEN "run" ELSE "body"]
  /\ UNCHANGED <<vars, want, mutex, creator, deferred, left, open, owner, uses, rdb,
                 cleanups, panicking>>

\* The test function returned; what it registered runs, last first.
EndTest(g) ==
  /\ g \in Tests
  /\ IsIn(g, "body")
  /\ MoveTo(g, "ending")
  /\ UNCHANGED <<vars, want, mutex, creator, deferred, left, open, owner, uses, rdb,
                 cleanups, panicking>>

\* Cleanup of a database panics when a statement fails.
DropDatabase(g) ==
  \/ UNCHANGED vars
  \/ Fault /\ Goto(g, "panicked") /\ UNCHANGED <<poolVars, worldVars, hand, todo, process>>

TestCleanup(g) ==
  /\ IsIn(g, "ending")
  /\ cleanups[g] # <<>>
  /\ LET f == Last(cleanups[g]) IN
       \/ f \in Instances /\ BeginCleanup(g, f)
       \/ f \in Servers /\ DropDatabase(g)
  /\ cleanups' = [cleanups EXCEPT ![g] = Front(@)]
  /\ UNCHANGED <<pc, want, mutex, creator, deferred, left, open, owner, uses, rdb,
                 panicking>>

\* A test that panicked takes the process with it, without IT.Cleanup.
TestDone(g) ==
  /\ IsIn(g, "ending")
  /\ cleanups[g] = <<>>
  /\ IF g \in panicking THEN process' = "crashed" ELSE UNCHANGED process
  /\ MoveTo(g, "ended")
  /\ UNCHANGED <<poolVars, worldVars, at, hand, todo, faults, want, mutex,
                 creator, deferred, left, open, owner, uses, rdb, cleanups, panicking>>

TestsDone ==
  /\ IsIn(Main, "run")
  /\ \A g \in Tests : pc[g] = "ended"
  /\ MoveTo(Main, "deferred")
  /\ UNCHANGED <<vars, want, mutex, creator, deferred, left, open, owner, uses, rdb,
                 cleanups, panicking>>

\* Mutant: a getter unlocks at its end instead of deferring the unlock.
UnwindLocked(g) ==
  /\ IsAt(g, "panicked")
  /\ at' = [at EXCEPT ![g] = "idle"]
  /\ hand' = [hand EXCEPT ![g] = None]
  /\ todo' = [todo EXCEPT ![g] = {}]
  /\ panicking' = panicking \cup {g}
  /\ IF pc[g] = "teardown"
     THEN process' = "crashed" /\ UNCHANGED pc
     ELSE MoveTo(g, IF g = Main THEN "deferred" ELSE "ending") /\ UNCHANGED process
  /\ UNCHANGED <<poolVars, worldVars, faults, want, creator, deferred, left,
                 open, owner, uses, rdb, cleanups, mutex>>

\* A panic runs the deferred functions: a getter's Unlock, then what the test
\* or TestMain deferred.  A panic inside IT.Cleanup is the end.
Unwind(g) ==
  /\ IsAt(g, "panicked")
  /\ at' = [at EXCEPT ![g] = "idle"]
  /\ hand' = [hand EXCEPT ![g] = None]
  /\ todo' = [todo EXCEPT ![g] = {}]
  /\ panicking' = panicking \cup {g}
  /\ mutex' = IF mutex = g THEN None ELSE mutex
  /\ IF pc[g] = "teardown"
     THEN process' = "crashed" /\ UNCHANGED pc
     ELSE MoveTo(g, IF g = Main THEN "deferred" ELSE "ending") /\ UNCHANGED process
  /\ UNCHANGED <<poolVars, worldVars, faults, want, creator, deferred, left,
                 open, owner, uses, rdb, cleanups>>

-----------------------------------------------------------------------------
(* IT.Cleanup.                                                             *)

\* Mutant: the loop starts one past the last function.
LockPastEnd ==
  /\ IsIn(Main, "deferred")
  /\ mutex = None
  /\ mutex' = Main
  /\ left' = Len(deferred) + 1
  /\ MoveTo(Main, "teardown")
  /\ UNCHANGED <<vars, want, creator, deferred, open, owner, uses, rdb, cleanups,
                 panicking>>

\* IT.Cleanup takes the mutex and keeps it to its end.
LockForCleanup ==
  /\ IsIn(Main, "deferred")
  /\ mutex = None
  /\ mutex' = Main
  /\ left' = Len(deferred)
  /\ MoveTo(Main, "teardown")
  /\ UNCHANGED <<vars, want, creator, deferred, open, owner, uses, rdb, cleanups,
                 panicking>>

\* A server's Cleanup only logs that its container could not be removed.
CleanupServer(k) ==
  /\ \/ containers' = containers \ {i \in returned : kind[i] = k} /\ UNCHANGED faults
     \/ Fault /\ UNCHANGED containers
  /\ UNCHANGED <<poolVars, files, at, hand, todo, process, open>>

\* Docker keeps a network that still has containers; the error is logged.
RemoveNetwork ==
  /\ \/ open' = (IF containers = {} THEN open \ {"network"} ELSE open) /\ UNCHANGED faults
     \/ Fault /\ UNCHANGED open
  /\ UNCHANGED <<poolVars, worldVars, at, hand, todo, process>>

CallDeferred(f) ==
  \/ f \in Pools /\ CleanupAll(Main, f) /\ UNCHANGED open
  \/ f \in Servers /\ CleanupServer(f)
  \/ f = "network" /\ RemoveNetwork
  \/ f \in {"client", "logs"} /\ open' = open \ {f} /\ UNCHANGED vars

\* Mutant: the clean-up functions run in the order of their registration.
TeardownInOrder ==
  /\ IsIn(Main, "teardown")
  /\ left > 0
  /\ left' = left - 1
  /\ CallDeferred(deferred[Len(deferred) - left + 1])
  /\ UNCHANGED <<pc, want, mutex, creator, deferred, owner, uses, rdb, cleanups,
                 panicking>>

\* The loop of IT.Cleanup: the last registered function first.
Teardown ==
  /\ IsIn(Main, "teardown")
  /\ left > 0
  /\ left' = left - 1
  /\ CallDeferred(deferred[left])
  /\ UNCHANGED <<pc, want, mutex, creator, deferred, owner, uses, rdb, cleanups,
                 panicking>>

TeardownDone ==
  /\ IsIn(Main, "teardown")
  /\ left = 0
  /\ mutex' = None
  /\ process' = IF Main \in panicking THEN "crashed" ELSE "done"
  /\ MoveTo(Main, "returned")
  /\ UNCHANGED <<poolVars, worldVars, at, hand, todo, faults, want, creator,
                 deferred, left, open, owner, uses, rdb, cleanups, panicking>>

-----------------------------------------------------------------------------

\* The steps of g inside a creator.
InCreator(g) ==
  /\ CreateStep(g) \/ CleanupStep(g) \/ CallFails(g)
  /\ UNCHANGED itVars

\* What g does once it has asked for a service or has come to its end.
Proceed(g) ==
  \/ NoBinary(g) \/ GetPool(g) \/ GetServer(g) \/ InCreator(g) \/ Receive(g)
  \/ CreateDatabase(g)
  \/ TestCleanup(g) \/ TestDone(g) \/ Unwind(g)

Goroutine(g) ==
  \/ \E k \in Kinds, withT \in BOOLEAN : Ask(g, k, withT)
  \/ Proceed(g)
  \/ EndTest(g)

SetUp == \E part \in Infrastructure : NewIT(part)

TearDown == TestsDone \/ LockForCleanup \/ Teardown \/ TeardownDone

Ended == process # "up" /\ UNCHANGED allVars

ITNext ==
  \/ SetUp \/ RunTests \/ TearDown
  \/ \E g \in Goroutines : Goroutine(g)
  \/ Ended

ITSpec == ITInit /\ [][ITNext]_allVars

\* Go runs every goroutine that can run, and sync.Mutex starves no one.  What
\* a test asks for is its own choice, but it does come to an end: the strong
\* fairness says that a test does not ask for services for ever.
ITFairSpec ==
  /\ ITSpec
  /\ WF_allVars(SetUp) /\ WF_allVars(TearDown) /\ SF_allVars(RunTests)
  /\ \A g \in Goroutines : WF_allVars(Proceed(g)) /\ SF_allVars(EndTest(g))

-----------------------------------------------------------------------------
(* Properties.                                                             *)

\* The type of every variable of the composition.
ITTypeOK ==
  /\ TypeOK
  /\ pc \in [Goroutines -> {"logs", "client", "network", "body", "get", "database", "run",
                            "deferred", "teardown", "returned", "waiting",
                            "ending", "ended"}]
  /\ want \in [Goroutines -> (Kinds \X BOOLEAN) \cup {None}]
  /\ mutex \in Goroutines \cup {None}
  /\ creator \subseteq Kinds
  /\ deferred \in Seq(Kinds \cup Infrastructure)
  /\ left \in 0 .. Len(deferred)
  /\ open \subseteq Infrastructure
  /\ owner \in [Instances -> Tests \cup {None}]
  /\ uses \in [Instances -> Instances \cup {None}]
  /\ rdb \in [Instances -> Servers \cup {None}]
  /\ cleanups \in [Goroutines -> Seq(Instances \cup Servers)]
  /\ panicking \subseteq Goroutines

\* As long as no one panicked, no test binary starts a second MySQL or
\* PostgreSQL server, however many tests ask for the first one at once: the
\* second would be refused for its name and end the process.
SingleServer ==
  panicking = {} => \A g \in Goroutines : at[g] = "create" => ~NameTaken(hand[g])

\* Every instance is removed once: the t.Cleanup of a test and IT.Cleanup
\* never both remove it, and no test removes another test's.
NoDoubleRemove ==
  \A g \in Goroutines :
    /\ at[g] \in {"delete", "remove"} => hand[g] \in containers
    /\ at[g] = "unlink" => hand[g] \in files

\* The network, the Docker client and the debug log exist for as long as any
\* goroutine is inside a creator: they are torn down after every service.
InfrastructureOutlivesUse ==
  \A g \in Goroutines : at[g] # "idle" => open = Infrastructure

\* An Icinga DB container never outlives the Redis server it was given, as
\* long as no one panicked: t.Cleanup and IT.Cleanup both undo in reverse.
RedisOutlivesIcingaDb ==
  panicking = {} =>
    \A i \in containers : kind[i] = "icingadb" => uses[i] \in containers

\* Nor does it outlive the server of its database, unless that was started
\* when IcingaDbInstance had been called before: then the server, as the later
\* entry of deferredCleanup, is torn down first.
ServerOutlivesIcingaDb ==
  panicking = {} =>
    \A i \in containers : kind[i] = "icingadb" =>
      \/ \E s \in containers : kind[s] = rdb[i]
      \/ \E d, e \in DOMAIN deferred :
           d < e /\ deferred[d] = "icingadb" /\ deferred[e] = rdb[i]

\* When TestMain returns normally, every instance and configuration file is
\* gone, whatever failed meanwhile; if nothing failed, so is everything else.
CleanupComplete ==
  process = "done" =>
    /\ files = {}
    /\ \A i \in containers : kind[i] \in Servers
    /\ faults = 0 => containers = {} /\ open = {}

\* The process of a test binary ends, also when a call fails while a getter
\* holds the mutex: no test waits for the mutex for ever.
Ends == <>(process # "up")

\* What the comment on IT.Cleanup says: it "tears down everything that was
\* started during the tests by this IT instance".
CleanupTearsDownEverything ==
  pc[Main] = "returned" => containers = {}

=============================================================================
