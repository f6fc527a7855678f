---------------------------- MODULE DockerCreator ----------------------------
(***************************************************************************)
(* The creators that start services as Docker containers: redis, icinga2   *)
(* and icingadb (any number of instances each, kept in a `running` map),   *)
(* and the part of mysql and postgresql that starts their one server.      *)
(*                                                                         *)
(* Each goroutine that calls a creator has a program counter.  A step is   *)
(* one call to the Docker daemon or the file system, one atomic addition,  *)
(* or one critical section of runningMutex, which guards nothing but an    *)
(* operation on the map.  Any call may return an error, up to MaxFaults    *)
(* times: the creator then panics or terminates the process.               *)
(***************************************************************************)
EXTENDS Naturals, FiniteSets

CONSTANTS
  Goroutines,  \* the goroutines that use the creators
  Instances,   \* the addresses of dockerServer, dockerInstance, ... values
  Pools,       \* kinds with a running map and a container counter
  Servers,     \* kinds with one container for the whole process
  MaxFaults,   \* bound on the calls that fail
  None         \* no instance, no kind, no goroutine

Kinds == Pools \cup Servers

ASSUME KindsAssumption ==
  /\ Pools \subseteq {"redis", "icinga2", "icingadb"}
  /\ Servers \subseteq {"mysql", "postgresql"}
ASSUME NoneAssumption == None \notin Goroutines \cup Instances \cup Kinds
ASSUME MaxFaultsAssumption == MaxFaults \in Nat

VARIABLES
  kind,        \* [Instances -> Kinds or None], None: not allocated
  number,      \* the number in an instance's container name, 0: none
  counter,     \* containerCounter of each pool
  running,     \* union of the keys of the running maps
  returned,    \* instances whose creation returned to the caller
  containers,  \* Docker: instances whose container exists
  files,       \* file system: instances whose icingadb.yml exists
  at,          \* program counter of each goroutine
  hand,        \* the instance a goroutine creates or cleans up
  todo,        \* what is left of the copy taken by a creator's Cleanup
  faults,      \* number of calls that failed so far
  process      \* "up", or how the process ended

poolVars == <<kind, number, counter, running, returned>>
worldVars == <<containers, files>>
vars == <<kind, number, counter, running, returned, containers, files,
          at, hand, todo, faults, process>>

Steps == {"idle", "config", "write", "name", "prepare", "create", "start",
          "ready", "register", "delete", "remove", "unlink", "loop",
          "panicked"}

Init ==
  /\ kind = [i \in Instances |-> None]
  /\ number = [i \in Instances |-> 0]
  /\ counter = [k \in Pools |-> 0]
  /\ running = {} /\ returned = {} /\ containers = {} /\ files = {}
  /\ at = [g \in Goroutines |-> "idle"]
  /\ hand = [g \in Goroutines |-> None]
  /\ todo = [g \in Goroutines |-> {}]
  /\ faults = 0
  /\ process = "up"

-----------------------------------------------------------------------------

IsAt(g, step) == process = "up" /\ at[g] = step

Goto(g, step) == at' = [at EXCEPT ![g] = step]

Name(i) == <<kind[i], number[i]>>

\* Whether a call that fails at a step panics or calls logger.Fatal, which
\* exits the process without running any deferred function.
FailureMode(k, step) ==
  CASE step \in {"config", "write", "prepare", "remove", "unlink"} -> {"panic"}
    [] step \in {"create", "start"} -> {"fatal"}
    [] step = "ready" -> IF k = "redis" THEN {"panic"} ELSE {"panic", "fatal"}
    [] OTHER -> {}

CallFails(g) ==
  /\ process = "up"
  /\ hand[g] # None
  /\ faults < MaxFaults
  /\ faults' = faults + 1
  /\ \E mode \in FailureMode(kind[hand[g]], at[g]) :
       \/ mode = "panic" /\ Goto(g, "panicked") /\ UNCHANGED process
       \/ mode = "fatal" /\ process' = "exited" /\ UNCHANGED at
  /\ UNCHANGED <<poolVars, worldVars, hand, todo>>

-----------------------------------------------------------------------------
(* Creation of an instance of kind k.                                      *)

FirstStep(k) ==
  IF k = "icingadb" THEN "config" ELSE IF k \in Pools THEN "name" ELSE "prepare"

Begin(g, k) ==
  /\ IsAt(g, "idle")
  /\ \E i \in Instances :
       /\ kind[i] = None
       /\ kind' = [kind EXCEPT ![i] = k]
       /\ hand' = [hand EXCEPT ![g] = i]
  /\ Goto(g, FirstStep(k))
  /\ UNCHANGED <<number, counter, running, returned, worldVars, todo, faults,
                 process>>

\* ioutil.TempFile: from here on the file exists, whatever happens next.
CreateConfigFile(g) ==
  /\ IsAt(g, "config")
  /\ files' = files \cup {hand[g]}
  /\ Goto(g, "write")
  /\ UNCHANGED <<poolVars, containers, hand, todo, faults, process>>

WriteConfigFile(g) ==
  /\ IsAt(g, "write")
  /\ Goto(g, "name")
  /\ UNCHANGED <<poolVars, worldVars, hand, todo, faults, process>>

\* Mutant: every container of a kind gets the same number.
TakeNumberTwice(g) ==
  /\ IsAt(g, "name")
  /\ number' = [number EXCEPT ![hand[g]] = counter[kind[hand[g]]] + 1]
  /\ Goto(g, "prepare")
  /\ UNCHANGED <<kind, counter, running, returned, worldVars, hand, todo,
                 faults, process>>

\* atomic.AddUint32(&containerCounter, 1), which yields the new value.
TakeNumber(g) ==
  LET k == kind[hand[g]] IN
  /\ IsAt(g, "name")
  /\ counter' = [counter EXCEPT ![k] = @ + 1]
  /\ number' = [number EXCEPT ![hand[g]] = counter[k] + 1]
  /\ Goto(g, "prepare")
  /\ UNCHANGED <<kind, running, returned, worldVars, hand, todo, faults,
                 process>>

\* DockerNetworkName and DockerImagePull.
Prepare(g) ==
  /\ IsAt(g, "prepare")
  /\ Goto(g, "create")
  /\ UNCHANGED <<poolVars, worldVars, hand, todo, faults, process>>

NameTaken(i) == \E j \in containers : Name(j) = Name(i)

\* Mutant: the error of ContainerCreate is ignored.
CreateUnchecked(g) ==
  /\ IsAt(g, "create")
  /\ containers' \in {containers, containers \cup {hand[g]}}
  /\ Goto(g, "start")
  /\ UNCHANGED <<poolVars, files, hand, todo, faults, process>>

\* ContainerCreate: Docker refuses a name in use, which ends the process.
CreateContainer(g) ==
  /\ IsAt(g, "create")
  /\ IF NameTaken(hand[g])
     THEN process' = "exited" /\ UNCHANGED <<at, containers>>
     ELSE /\ containers' = containers \cup {hand[g]}
          /\ Goto(g, "start")
          /\ UNCHANGED process
  /\ UNCHANGED <<poolVars, files, hand, todo, faults>>

\* ForwardDockerContainerOutput and ContainerStart.
StartContainer(g) ==
  /\ IsAt(g, "start")
  /\ Goto(g, IF kind[hand[g]] = "icingadb" THEN "register" ELSE "ready")
  /\ UNCHANGED <<poolVars, worldVars, hand, todo, faults, process>>

\* The container's address, the ping loop and, for icinga2, the initial
\* configuration and reload.  Running out of attempts is a failed call.
AwaitReady(g) ==
  /\ IsAt(g, "ready")
  /\ Goto(g, "register")
  /\ UNCHANGED <<poolVars, worldVars, hand, todo, faults, process>>

\* Mutant: the instance is not inserted into the map.
RegisterNothing(g) ==
  /\ IsAt(g, "register")
  /\ returned' = returned \cup {hand[g]}
  /\ Goto(g, "idle")
  /\ hand' = [hand EXCEPT ![g] = None]
  /\ UNCHANGED <<kind, number, counter, running, worldVars, todo, faults, process>>

\* running[s] = struct{}{} and the return to the caller.  A server has no
\* running map: its constructor only returns.
Register(g) ==
  /\ IsAt(g, "register")
  /\ running' = IF kind[hand[g]] \in Pools THEN running \cup {hand[g]} ELSE running
  /\ returned' = returned \cup {hand[g]}
  /\ Goto(g, "idle")
  /\ hand' = [hand EXCEPT ![g] = None]
  /\ UNCHANGED <<kind, number, counter, worldVars, todo, faults, process>>

-----------------------------------------------------------------------------
(* Cleanup of one instance, and of everything a creator still runs.        *)

BeginCleanup(g, i) ==
  /\ IsAt(g, "idle")
  /\ i \in returned
  /\ kind[i] \in Pools
  /\ hand' = [hand EXCEPT ![g] = i]
  /\ Goto(g, "delete")
  /\ UNCHANGED <<poolVars, worldVars, todo, faults, process>>

\* Mutant: the instance stays in the map.
DeleteNothing(g) ==
  /\ IsAt(g, "delete")
  /\ Goto(g, "remove")
  /\ UNCHANGED <<poolVars, worldVars, hand, todo, faults, process>>

\* Mutant: the counter is counted down again to use names anew.
DeleteAndCountDown(g) ==
  /\ IsAt(g, "delete")
  /\ running' = running \ {hand[g]}
  /\ counter' = [counter EXCEPT ![kind[hand[g]]] = @ - 1]
  /\ Goto(g, "remove")
  /\ UNCHANGED <<kind, number, returned, worldVars, hand, todo, faults, process>>

\* delete(running, s), under runningMutex.
DeleteFromRunning(g) ==
  /\ IsAt(g, "delete")
  /\ running' = running \ {hand[g]}
  /\ Goto(g, "remove")
  /\ UNCHANGED <<kind, number, counter, returned, worldVars, hand, todo,
                 faults, process>>

Finish(g) == Goto(g, "loop") /\ hand' = [hand EXCEPT ![g] = None]

\* Mutant: the configuration file is removed first.
UnlinkFirst(g) ==
  /\ IsAt(g, "remove")
  /\ files' = files \ {hand[g]}
  /\ Goto(g, "unlink")
  /\ UNCHANGED <<poolVars, containers, hand, todo, faults, process>>

\* ContainerRemove fails on a container that is gone: the caller panics.
RemoveContainer(g) ==
  /\ IsAt(g, "remove")
  /\ containers' = containers \ {hand[g]}
  /\ \/ hand[g] \notin containers /\ Goto(g, "panicked") /\ UNCHANGED hand
     \/ /\ hand[g] \in containers
        /\ IF kind[hand[g]] = "icingadb"
           THEN Goto(g, "unlink") /\ UNCHANGED hand
           ELSE Finish(g)
  /\ UNCHANGED <<poolVars, files, todo, faults, process>>

\* os.Remove of the configuration file, icingadb only.
RemoveConfigFile(g) ==
  /\ IsAt(g, "unlink")
  /\ files' = files \ {hand[g]}
  /\ IF hand[g] \in files
     THEN Finish(g)
     ELSE Goto(g, "panicked") /\ UNCHANGED hand
  /\ UNCHANGED <<poolVars, containers, todo, faults, process>>

\* The creator's Cleanup copies the keys of its map under runningMutex ...
CleanupAll(g, k) ==
  /\ IsAt(g, "idle")
  /\ todo' = [todo EXCEPT ![g] = {i \in running : kind[i] = k}]
  /\ Goto(g, "loop")
  /\ UNCHANGED <<poolVars, worldVars, hand, faults, process>>

\* ... and then cleans up each of them, in whatever order the map gave.
CleanupNext(g) ==
  /\ IsAt(g, "loop")
  /\ \/ \E i \in todo[g] :
          /\ todo' = [todo EXCEPT ![g] = @ \ {i}]
          /\ hand' = [hand EXCEPT ![g] = i]
          /\ Goto(g, "delete")
     \/ /\ todo[g] = {}
        /\ Goto(g, "idle")
        /\ UNCHANGED <<todo, hand>>
  /\ UNCHANGED <<poolVars, worldVars, faults, process>>

-----------------------------------------------------------------------------

\* The steps of a call in progress.
CreateStep(g) ==
  \/ CreateConfigFile(g) \/ WriteConfigFile(g) \/ TakeNumber(g) \/ Prepare(g)
  \/ CreateContainer(g) \/ StartContainer(g) \/ AwaitReady(g)

CleanupStep(g) ==
  \/ DeleteFromRunning(g) \/ RemoveContainer(g) \/ RemoveConfigFile(g)
  \/ CleanupNext(g)

\* Nothing is left to do once the process ended or every caller panicked.
Terminated ==
  /\ process # "up" \/ \A g \in Goroutines : at[g] = "panicked"
  /\ UNCHANGED vars

Next ==
  \/ \E g \in Goroutines :
       \/ \E k \in Pools : Begin(g, k) \/ CleanupAll(g, k)
       \/ \E i \in Instances : BeginCleanup(g, i)
       \/ CreateStep(g) \/ Register(g) \/ CleanupStep(g) \/ CallFails(g)
  \/ Terminated

Spec == Init /\ [][Next]_vars

-----------------------------------------------------------------------------
(* Properties.                                                             *)

TypeOK ==
  /\ kind \in [Instances -> Kinds \cup {None}]
  /\ number \in [Instances -> Nat]
  /\ counter \in [Pools -> Nat]
  /\ running \subseteq Instances
  /\ returned \subseteq Instances
  /\ containers \subseteq Instances
  /\ files \subseteq Instances
  /\ at \in [Goroutines -> Steps]
  /\ hand \in [Goroutines -> Instances \cup {None}]
  /\ todo \in [Goroutines -> SUBSET Instances]
  /\ faults \in Nat
  /\ process \in {"up", "exited", "crashed", "done"}

\* A container exists as long as its creator's map lists it: a creator's
\* Cleanup never copies an instance whose container was already removed,
\* however many callers clean up the same instance at the same time.
RegisteredExists == running \subseteq containers

\* No container is forgotten: the creator's map lists it, or a goroutine is
\* creating or removing it, or panicked while doing so.  In particular no
\* creation slips through between ContainerCreate and the insertion.
Tracked ==
  \A i \in containers : i \in running \/ \E g \in Goroutines : hand[g] = i

\* The configuration file bind-mounted into an Icinga DB container outlives
\* the container, through every order of creation, failure and clean-up.
ConfigOutlivesContainer ==
  \A i \in containers : kind[i] = "icingadb" => i \in files

\* The counter keeps container names apart, also from the names of
\* containers left behind by failed creations: Docker refuses no name.
NoNameConflict ==
  \A g \in Goroutines : at[g] = "create" => ~NameTaken(hand[g])

\* Every creation and clean-up follows the life of a lease.
Phase(i) ==
  IF i \in containers THEN IF i \in returned THEN "usable" ELSE "starting"
  ELSE IF i \in returned THEN "gone" ELSE "absent"

Phases == [i \in Instances |-> Phase(i)]

Lease == INSTANCE ServiceLease WITH phase <- Phases

LeaseSpec == Lease!Spec

=============================================================================
