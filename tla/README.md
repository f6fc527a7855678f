# A verification project for icinga-testing

icinga-testing is a Go library for integration tests. A test binary creates one
`IT` object in `TestMain`; tests that run in parallel ask it for Redis, Icinga 2,
Icinga DB, MySQL and PostgreSQL services, each of which runs in a Docker
container, and everything is torn down again at the end of a test (`t.Cleanup`)
or of the test binary (`IT.Cleanup`). The modules here model the parts of the
library that have state and concurrency, TLC checks them on small instances, and
TLAPS proves the main results for every value of the constants.

## Inventory

| Part (source) | State | Operations | What is hard about it | What makes it correct |
|---|---|---|---|---|
| `IT` (`it.go`) | mutex, one creator per service or nil, stack of deferred clean-ups, Docker client, network, logs | `NewIT`, `getX` (create on demand), `X`/`XT`, `Cleanup` | getters race for the first creator; a MySQL or PostgreSQL server starts while the mutex is held; panics unwind through it; teardown order | one server per kind, mutex always released, reverse teardown, nothing left, nothing removed twice |
| pooled creators (`internal/services/{redis,icinga2,icingadb}/docker*.go`) | `running` map and its mutex, container counter; the containers and `icingadb.yml` files outside | `CreateX`, `Cleanup` of an instance, `Cleanup` of the creator | the map and Docker change at different moments; concurrent clean-ups; calls that fail half-way, by panic or `Fatal` | map and containers agree, names are unique, a file outlives the container that mounts it |
| servers (`internal/services/{mysql,postgresql}/docker.go`) | one container | `NewDockerCreator`, `Cleanup` | fixed container name, so a second start is refused | started once |
| databases (`.../root_connection.go`) | counter; users and databases in the server | create, `Cleanup` | partial failure of four statements; clients that reconnect while a database is dropped | unique names, only complete databases handed out, nothing forgotten |
| `eventually` (`utils/eventually`) | ticker, timer, channel of capacity 1, `wrapT.failed` | `Assert`, `Require` | attempts in goroutines of their own, timeout racing a result, `Goexit` | one attempt at a time, no leak, blame only after the timeout |
| `LineWriter` (`utils/io.go`) | buffer | `Write`, `Close` | lines split over any number of writes | one call per line, with the line |
| Docker helpers (`utils/docker.go`) | the streams of an exec | `DockerExec`, `ForwardDockerContainerOutput`, `DockerImagePull`, ... | two goroutines, stdin and output, bounded pipes; the exit code is read after the output ended | output whole when the exit code is reported, nil only after the command has done its work, no deadlock |
| Icinga 2 reload (`services/icinga2.go`, `internal/services/icinga2/docker.go`) | files in the container, the running configuration, loads under way | `WriteConfig`, `DeleteConfigGlob`, `TriggerReload`, `Reload` | a load in flight, other callers and signals, truncated files, a timeout nested in retries | `Reload` returns nil only with the new configuration active; no signal lost; it returns |
| API client (`utils/icinga2_client.go`) | attempt counter, request body, response bodies | `Do` and the JSON and object helpers | retry of 503, cancellation, rewinding the body, broken connections | whole body each time, carried out at most once, true report, no body left open |
| key pool (`utils/pki/keygen.go`) | `sync.Once`, unbuffered channel | `GenerateRsaKey` | first callers race | set up once, every caller gets a key of its own |
| certificate authority (`utils/pki/ca.go`) | key and certificate of a CA | `NewCA`, `NewCertificate` | made in parallel from one pool of keys | certificates verify, keys are not shared |
| unique names (`utils/unique_name.go`) | a counter for each prefix in a `sync.Map` | `UniqueName` | parallel subtests, prefixes that coincide | no name twice |
| wrappers, templates, `Variants`, `PrettySelect`, small helpers | none | | | |

Interactions: a test calls a getter of `IT` (shared, under `IT.mutex`), the getter
creates a creator and pushes its `Cleanup` on the deferred stack, the creator
calls the Docker daemon and waits for the service (Icinga 2: `Ping`, then
`WriteConfig` through `DockerExec`, then `Reload`, which polls the node's API with the
API client); `XT` registers the instance's `Cleanup` with `testing.T`. A database is
created in the server that the getter returned, and an Icinga DB instance is given a
Redis server and a database. `IT.Cleanup` pops the stack: each creator cleans up
what its map still lists, then the network, the client and the logs go.

## Modules

| Module | Models | Role |
|---|---|---|
| `ServiceLease` | what a creator promises about a service: absent, starting, usable, gone | abstract specification |
| `DockerCreator` | the creators of Docker containers | component |
| `MCDockerCreator` | small instance, with symmetry | model checking |
| `DockerCreatorProofs` | safety and refinement of `DockerCreator` | proofs |
| `RootConnection` | databases and users in one MySQL or PostgreSQL server | component |
| `MCRootConnection` | small instance, with symmetry | model checking |
| `RootConnectionProofs` | safety and refinement of `RootConnection` | proofs |
| `IT` | `it.go` with `TestMain` and parallel tests, on top of `DockerCreator` | composition |
| `MCIT` | small instance, with symmetry | model checking |
| `ITProofs` | safety of `IT`, on that of `DockerCreator` | proofs |
| `Retry` | what `eventually.Assert` promises | abstract specification |
| `Eventually` | `eventually.go` | component |
| `EventuallyProofs` | safety and refinement of `Eventually` | proofs |
| `Request` | what a caller of the API may believe of a request | abstract specification |
| `Icinga2Client` | `icinga2_client.go` | component |
| `Icinga2ClientProofs` | safety and refinement of `Icinga2Client` | proofs |
| `Reload` | the reload of an Icinga 2 node: callers, files and node | component |
| `ReloadProofs` | safety of `Reload` | proofs |
| `KeyPool` | `keygen.go` | component |
| `CertificateAuthority` | `ca.go`, on top of `KeyPool` | composition |
| `CertificateAuthorityProofs` | safety of `KeyPool`, and from it what certificates say | proofs |
| `DockerExec` | `DockerExec` with a command at the other end | component |
| `LineWriter` | `io.go` | component |
| `UniqueName` | `unique_name.go` | component |
| `Utils` | the last four, one at a time | composition |
| `MCUtils` | a small instance: test names and hints | model checking |
| `UtilsProofs` | safety of `UniqueName`, `DockerExec` and `LineWriter` | proofs |

A definition whose comment begins with "Mutant:" is no part of a model: it is the
definition after it with a plausible bug, kept to show that a property notices. What
a property says is in the comment above it.

### DockerCreator

`at[g]` is the program counter of a goroutine, `hand[g]` the instance it creates or
cleans up, `todo[g]` what is left of the copy a creator's `Cleanup` took. A step is
one call to Docker or the file system, one atomic addition or one critical section
of `runningMutex`; since that mutex never guards anything but an operation on the
map, it needs no variable. `running` is the union of the maps of the creators
(`kind` tells them apart). `containers` and `files` are the world outside.

Creation: `Begin`, (`CreateConfigFile`, `WriteConfigFile` for Icinga DB only),
`TakeNumber`, `Prepare`, `CreateContainer`, `StartContainer`, (`AwaitReady`, except
for Icinga DB, which is not waited for), `Register`. Clean-up: `BeginCleanup`,
`DeleteFromRunning`, `RemoveContainer`, (`RemoveConfigFile`). A creator's `Cleanup`:
`CleanupAll`, then `CleanupNext` for every instance. `CallFails` lets any of the
calls fail: `FailureMode` says whether the code at that place panics or calls
`logger.Fatal`, which exits the process. A container name that is taken is
refused by Docker, and removing a container that is gone is an error: both follow
from the state and are no faults.

Abstracted: image, network and container options; the ping loop of 20, 60 or 100
attempts is one step that succeeds or fails; a failed `ContainerRemove` leaves the
container; counters do not wrap (`uint32`, one container each). `DockerCreator`
lets any goroutine clean up any instance it was given at any time, also twice.

### RootConnection

User `u7` and database `d7` are both the number 7. `at[g]` is the statement a goroutine
executes next, `id[g]` the number it works on, `owner[g]` the databases it was given and
not yet cleaned up, `db` the server. `Execute` is one statement: the server
refuses it when its rules say so (a user that exists, a database that is in use, a user
who still owns a database), it takes effect, or it fails for a reason of its own, with
or without having taken effect; the error always makes the caller panic. Each other
action names a statement of `CreateMysqlDatabase`, `CreatePostgresqlDatabase` or
`Cleanup`. `db.kind` chooses between the statements: MySQL needs two grants, PostgreSQL
an extension; PostgreSQL 12 has no `WITH (FORCE)` and terminates connections first.
`Connect` is a client of a returned database; `db.reconnects` says whether clients connect
while the database is cleaned up, too, which on PostgreSQL 12 makes `DROP DATABASE` fail
when it happens after `pg_terminate_backend`. What the servers accept
is external and modelled from their documented behaviour, as far as the
code depends on it. A panicked goroutine does nothing more here.

### IT

`pc[g]` is where a goroutine is outside the creators: `TestMain` goes through
`NewIT`, its body, `m.Run` and the deferred `IT.Cleanup`; a test goes through its
body and, when it ends, the functions it registered with `t.Cleanup`. `Ask` is a call
of `RedisServer`, `Icinga2Node`, ... or its `T` variant; `GetPool` and `GetServer` are
the getters. For a pooled service the creator is called after the mutex was
released; a server starts inside the critical section, so `mutex` stays taken until
`Receive`. A panic (`Unwind`) releases the mutex by the deferred `Unlock`, then runs
what the goroutine deferred: for a test its `t.Cleanup` functions, after which the
testing package ends the process; for `TestMain` the deferred `IT.Cleanup`. A panic
in `IT.Cleanup` ends the process. `process` is `done` after a normal end,
`crashed` after a panic and `exited` after `logger.Fatal`.

A database is created (`CreateDatabase`) after the getter has returned the server, and
its `Cleanup` (`DropDatabase`) is one of the functions a test registered. What the
server makes of the statements is `RootConnection`; here they succeed or panic. `uses[i]`
and `rdb[i]` are the Redis server and the kind of database server an Icinga DB
instance was given.

Usage is that of the comment on type `IT`: tests run between `m.Run`'s start and
end, call nothing after they ended, clean up by hand nothing that `IT` cleans up,
and give an Icinga DB instance a Redis server that lives at least as long
(`Redis`) and a database. A test binds at most one database of each kind to itself. The debug log is assumed to be enabled. `getIcingaDb` panics before it
takes the mutex when the environment does not name the binary (`NoBinary`).

`ServerOutlivesIcingaDb` names its exception: the server that is started after the first
call of `IcingaDbInstance` is the later entry of `deferredCleanup`, and so is torn
down before an Icinga DB instance that is bound to the IT and uses it.

### Eventually

`main` is the caller's goroutine, `armed` says whether `tick` is `ticker.C` or nil,
`tick` and `fired` whether the channels of the ticker and the timer hold a value,
`ch` is the result channel. A call of `f` fails by `Errorf` any number of times and
ends by returning or by `FailNow` (`runtime.Goexit`). Time may pass at any moment.
A select with several ready cases is a choice among actions. A panic of `f` is not
modelled: it ends the process. `succeeded` and `inTime` are history variables.

### LineWriter

Bytes are the newline or one of `Others`. `Pieces` splits a text at newlines; it counts them
(`Newlines`) and finds the k-th one (`Stop`) instead of recurring over the text, so that
`UtilsProofs` can reason about it. `Write` does
what the loop and the last assignment do to the buffer, including the replacement
of a buffer that was still needed. `sent` and `delivered` are history variables.

### Icinga2Client

A caller has one request. `Begin` chooses between `Do`, a helper that asserts
a status of 200 and a helper that requires it, and between no body, one that
`http.NewRequest` can rewind, and another reader. `Send` hands the request to the wire,
`NodeAnswers` is the node, which carries the request out and answers 200, or does not and
answers otherwise; it may answer when nobody listens any more. `Receive` closes
nothing and either returns the answer or goes on to `Rewind` (which closes the
body of the 503, or returns it because a caller's own `GetBody` failed) and `Await` (a
second, or the context). `Break` is an exchange that fails. `Check` is what the helpers do
with the result, including their deferred `Close`. `MaxAttempts` is 300 in the
code. `Request` is the promise: a request is carried out at most once, and no
outcome that is reported is untrue. A node that carries out a request and answers something
else than 200 is not modelled: the code takes a status at its word.

### Reload

`disk` holds the files in the container, each caller's own and the one with the startup
id; `tee` truncates before it writes, so a write is two steps. `Reload` is
`TruncateId`, `FillId`, `TriggerReload`, then `Tick`, `Receive` or `AskFails` until
`GiveUp`. Ids are `RandomString(32)` and never repeat. The node (`StartLoad`,
`ReadFile`, `FinishLoad`, `NodeAnswers`) is external and modelled from what the code relies
on: a signal leads to a load when no other one is under way, signals that arrive
meanwhile are merged, files are read one after the other, and a broken configuration
leaves the old one active. `Signal` is a signal of anybody else. There is no
clock: the 20 seconds may be over at any moment. `ExecFails` is a command that fails: a
panic, or `Fatal` in `TriggerReload`; it ends that caller here, while the others
show what it left behind. `quiet` is a history variable.

### KeyPool and CertificateAuthority

`Do`, `MakeChannel` and `Spawn` are the `sync.Once` of `keygen.go`, `Generate` and
`HandOver` its goroutines. A result of `rsa.GenerateKey` is a number; those in
`FailedResults` are errors. `NewCA` and `NewCertificate` are `NoSerial` (a failure before
the key), the steps of `KeyPool`, and `Sign`, which makes the certificate or
fails; `UseCA` says which CA issues the certificate. A certificate is the public
key, subject, issuer and signing key: what `Verify` looks at.

### DockerExec

`main` is the caller, `copier` and `reader` its two goroutines, `stdin` and `output` the
pipes, bounded by `PipeSize`. The command is `tee`, as `WriteConfig` runs it, or a
script without stdin, as `DeleteConfigGlob` runs it. Docker records the end of the command
(`Exit`) some time after its output was closed (`OutputEnds`); `Inspect` may find it
still running, and then `DockerExec` panics. `CopyFails` and `ReadFails` are failures of
the caller's own reader and writers. `Disconnect` is the end of the connection while the
output is read: a copy of stdin fails, and the reader fails or, when the connection ends
between two frames, takes `io.EOF` for the end of the output. The command goes on, Docker drops
the output that it cannot pass on, and `connected` tells `OutputComplete` that some may be
missing. The daemon is behind a local socket: what Docker took of stdin before still reaches
the command, so that `NilMeansDone` has no such exception.

### UniqueName

A name is a sequence of parts, so that different tests and hints can lead to the same
text once slashes are replaced. `LoadOrStore` and `Add` are the two atomic
operations between which another goroutine may run.

## Runs

| Run | Checks | Instance |
|---|---|---|
| `docker_creator` | `TypeOK`, `RegisteredExists`, `Tracked`, `ConfigOutlivesContainer`, `NoNameConflict`, refinement of `ServiceLease` | 2 goroutines, 3 instances, all three pools, 1 failing call |
| `root_connection` | `TypeOK`, `HeldIsComplete`, `Tracked`, `PanicsAreFaults`, refinement of `ServiceLease` | 3 goroutines, 3 databases, all kinds of servers, clients that reconnect and clients that do not, 2 failing statements |
| `it` | `ITTypeOK`, `SingleServer`, `NoDoubleRemove`, `InfrastructureOutlivesUse`, `RedisOutlivesIcingaDb`, `ServerOutlivesIcingaDb`, `CleanupComplete` | `TestMain` and 2 tests, 4 instances, Redis, Icinga DB and MySQL, 1 failing call |
| `it_ends` | `Ends` | `TestMain` and 2 tests, 2 instances, Redis and MySQL, 1 failing call, no symmetry |
| `it_cleanup_everything` | counterexample to `CleanupTearsDownEverything` | as `it` |
| `eventually` | `TypeOK`, `AttemptsDoNotPileUp`, `FinalCallDecides`, refinement of `Retry`, `Returns` | 3 background goroutines |
| `eventually_in_time` | counterexample to `SuccessInTimeCounts` | 2 background goroutines |
| `icinga2_client` | `WholeBody`, `BodiesClosed`, `ReportsHonestly`, refinement of `Request`, `Returns` | 1 caller, 4 attempts |
| `reload` | `NilMeansActiveWhenQuiet`, `WorthWaiting`, `Returns` | 2 callers, 1 reload each, any number of other signals |
| `reload_while_loading` | counterexample to `NilMeansActive` | 1 caller, 1 reload, any number of other signals |
| `utils` | LineWriter: `OneCallPerLine`; DockerExec: `OutputComplete`, `NilMeansDone`, `ExecReturns`; UniqueName: `Unique`; CA: `Verifies`, `OwnKeys`, `CertificatesReturn` | 5 bytes of 3 kinds; 4 chunks of stdin or 3 of output through pipes of 1; 3 names; 2 CAs and 2 certificates, 2 CPUs, 1 failed key |
| `line_writer_lines` | counterexample to `LinesDelivered` | 5 bytes of 3 kinds |

Why the bounds are enough. The steps of the creators touch one instance each, so
an interference needs two goroutines and one instance; a second one gives a name
to collide with, and a third one shows that what a bystander owns is left alone.
In `root_connection`, two goroutines may panic in the middle while a third one goes on.
In `it`, two tests race for the mutex and the creators, and `TestMain` is the third
party; with four instances an Icinga DB, its Redis, a MySQL server and one more
exist at once. With one kind of server, which the first Icinga DB instance needs, the
exception of `ServerOutlivesIcingaDb` does not arise there. `MaxFaults = 1` lets every single call fail once at every moment;
what happens after a first panic or exit is the end of the process. In `Eventually`
the number of attempts is not bounded at all: goroutines are used again. It takes
two to pile up. Callers of
`Icinga2Client` share nothing, so one is enough, and of four attempts there is a first one,
a last one and one between two others. In `Reload`, a second caller writes a file of its
own, replaces the startup id and signals at any moment; with the signals of anybody
loads follow each other without end. The pipes of `DockerExec` are smaller than
what goes through them, so that each side has to wait for the other. Four callers with
two CPUs wait for keys, and a failed key is one of the first two. In
`LineWriter` five bytes hold a line that is spread over three writes and one that follows
it. `utils` chooses one of its parts in the initial state: their states add up and do not
multiply.

`CHECK_DEADLOCK FALSE` stands only where the program really stops: in `eventually` and
`eventually_in_time` (`Assert` returned and no attempt is left), and in `utils` and
`line_writer_lines` (the writer is closed or has written all it may). The other modules
end in an explicit stutter, and `Reload` never ends, as anybody may signal the node.

Fairness. `it_ends` assumes that Go runs what can run (weak fairness of every
goroutine's next step, of `NewIT` and of the teardown) and that a test, and the body of
`TestMain`, do not ask for services for ever (strong fairness of `EndTest` and
`RunTests`, which waiting for the mutex disables now and then). That calls to Docker
return is part of the first assumption: the code gives them
`context.Background()`, and waits as long as they take. `eventually` assumes that
the timer fires, that a ready timer case is eventually chosen (Go's select is
uniformly random) and that the final call of `f` ends; nothing is assumed of
attempts in the background. `icinga2_client` assumes that an exchange comes to an end, by the
node or by the connection: the client sets no timeout. `reload` assumes
weak fairness of the callers' steps and of the end of a request, and strong fairness of
`GiveUp`: the timer's case is ready again after each request, and a select that
chooses at random does not pass it over for ever; nothing is assumed of the node's
loads. In `utils`, Go, the container and the generators run what can run, and a
channel serves its receivers in turn; `ExecReturns` excepts a reader or
writer of the caller that fails, after which the other goroutine waits for
ever, since nothing closes the connection.

## Where code and comments disagree

* `LineWriter` loses data: a `Write` without a newline replaces a buffer that holds the
  beginning of the line (`utils/io.go:47`). Run `line_writer_lines`.
* `IT.Cleanup` does not tear down a container whose creation panicked after
  `ContainerCreate` (for example `internal/services/redis/docker.go:107`): it never was
  in a `running` map. Run `it_cleanup_everything`.
* `eventually.Assert` may call `f` again, and let it fail the test, although a success was
  reported before the timeout (`utils/eventually/eventually.go:24`). Run
  `eventually_in_time`.

* `Reload` may return nil while the old configuration is active: a load that was under way
  when the caller wrote its file may have read the old file and then the new startup id
  (`services/icinga2.go:95`, against the comment in line 58). Run `reload_while_loading`.

Seen while reading, with no run of its own: `DockerExec` panics when the command is
still running as its output ends (`utils/docker.go:164`; the model has this outcome); it
takes a connection that ends between two frames for the end of the output
(`utils/docker.go:131`), and so may report an exit code, or nil, with output missing, although
it says that it "forwards its stdin/stdout/stderr" (line 75; the model has this outcome, and
`OutputComplete` names it as its exception); and `PrettySelect` does not ask `cursor.Err`, so that a result set that breaks off looks
complete (`utils/database.go:45`).

## Proofs

`DockerCreatorProofs` proves, for any sets of goroutines and instances, any choice of
pools and any number of faults, from the assumptions on the constants in
`DockerCreator`: `TypeCorrectness`, `ListedInstancesExist`, `ContainersAreTracked`,
`ConfigurationOutlivesContainer`, `NamesAreUnique` and `ImplementsLease`.
The properties are not inductive on their own: that a container removed by one
goroutine is in no map needs to know that the instance was deleted from the map
before (`ContainerInv`), that only creators insert (`OwnInv`), and that a creator's
instance is nobody else's (`OwnInv`, `ReturnedInv`, `KindInv`); that names are
unique needs that the counter bounds all numbers given out (`NumberInv`). `CreatorInv`
is the part that also holds where servers are started and panics are recovered from, as in
`IT`; `IInv` adds what only creators on their own satisfy (`PoolsOnly`, `Tracked`). There is
one lemma per action, with one step for each conjunct the action can disturb and a last one
for those it cannot. `NoNameConflict` follows from `IInv`; the refinement has three actions that move a lease on and a lemma that
says the others do not. TLC found no violation of `IInv` before it was proved.

`EventuallyProofs` proves, for any number of background goroutines, `TypeCorrectness`,
`AttemptsAreSerial`, `TheFinalCallDecides` and `ImplementsRetry`. The invariant says that the ticker is armed
only while nothing is in flight (`SerialInv`), that a reported success is one
(`SuccessInv`), and what the final call made of the surrounding test (`FinalInv`).

`RootConnectionProofs` proves, for any number of goroutines, databases and faults,
`TypeCorrectness`, `HeldDatabasesAreComplete`, `DatabasesAreTracked`, `ImplementsLease`, and
`EveryPanicIsAFault`. A held database stays complete because no other goroutine works on its
number: `Exclusive` says that a number has one goroutine, `GivenOut` that only numbers
up to the counter are in use, and `ProgressOf` what exists of a database at each
step of its creation and clean-up. Nearly all steps are statements, and one
lemma (`Statement`) covers what they have in common: a statement concerns its own number.
`EveryPanicIsAFault` has one assumption of its own: the goroutines are finitely many, as
panicked ones are counted. The property does not count those whose database is used by a client
that came back (`Reconnected`), which the code does nothing against. Its invariant adds that
otherwise nobody is connected to a database once `Terminate` has ended the connections; as no one
but the client's own goroutine ends a connection (`OtherClients`), a panic stays excused.

`Icinga2ClientProofs` proves, for any number of callers and attempts, `TypeCorrectness`,
`BodiesAreWhole`, `NoBodyIsForgotten`, `EveryAttemptIsUsed`, `ReportsAreHonest` and
`ImplementsRequest`. As callers share nothing, the invariant is one conjunct per caller;
`WireInv` carries the argument: the node is asked again only after a 503, and what it
answered with a 503 it did not carry out. `ReportsAreHonest` covers callers of `Do` and helpers,
whether they succeed, fail or stop the test; an error of the connection alone leaves open what
the node did.

`ReloadProofs` proves, for any number of callers and reloads and whatever else is written
and signalled, `TypeCorrectness`, `QuietReloadsAreActive` and `NoSignalIsLost`. `QuietInv` says that a
load that has met the startup id of a quiet caller began after that caller's own file was
complete. It needs `Fresh`: no id on disk, in the node or in an answer belongs to a call
that has not written its id yet. It is assumed that the startup id file is nobody's own
file (`CallersAssumption`).

`CertificateAuthorityProofs` proves, for any number of callers and CPUs, `PoolIsSetUpOnce` and
`KeysAreDistinct` of `KeyPool`: one caller at most is inside the `sync.Once`, and a result is
either offered by one generator or in the hands of one caller. On this invariant it
builds those of `CertificateAuthority`: `CertificatesVerify` and `KeysAreTheirOwn`.

`UtilsProofs` proves, from the specification of `Utils` and for any values of its constants
(`TextsAssumption`: names and hints are sequences of parts; `InputAssumption` and
`BytesAssumption`: lengths are numbers; nothing is assumed of `PipeSize` and `MaxOutput`):

| Theorem | Along which argument |
|---|---|
| `NamesAreUnique` | `NamesInv`: a name that was given out is its prefix with a number the prefix has used up; the next number is larger, and a name tells its prefix and its number (`NameTells`), whatever tests and hints the prefix came from |
| `NilIsDone` | `CopyInv`: the file followed by the pipe is stdin up to the next chunk, stdin is closed only when all of it was copied, and `tee` closes its output only with stdin closed and the pipe empty; `EndInv`: a command that has ended has closed its output |
| `OutputIsComplete` | `PipeInv`: the pipe is the end of what was produced; `FrameInv`: a writer has as many chunks as there are frames of its stream among those taken, each at its rank; `ReaderInv`: as long as the connection stands, the reader ends only with the pipe empty and closed, and no exit code is reported before |
| `CallsMatchLines`, `BufferIsOfLine` | `LineInv`: while the writer is open, there was one call for each newline sent, each with an end of its line, and the buffer is an end of the last piece and empty only if that is. `PiecesJoin` carries the step: the pieces of two texts, one after the other, are those of each, with the last of the first completed by the first of the second |

Frames and newlines are counted by `Rank`, the number of members of a set up to n, and what is
needed of it (`RankStep`, `RankMonotone`, `RankReached`, `RankJoined`) follows from cardinalities
of finite sets and, in place of induction, from the least counterexample (`LeastNat`). The
invariants of a part go from the steps of its own module to those of `Utils`, whose other steps
leave its variables alone. TLC checked all of them on the instance of run `utils` first.

`ITProofs` proves, for any number of tests, instances and faults, from `MainAssumption`
and `DistinctAssumption` (`cleanups` and `todo` hold instances and kinds side by side, so no
instance may be a kind) and those of `DockerCreator`:

| Theorem | What its part of the invariant says |
|---|---|
| `InfrastructureIsLast` | `OrderInv`: a goroutine is inside a creator only where it called one, a test runs only while `TestMain` is in `m.Run`, and the first three entries of `deferredCleanup` are the log, the client and the network, which `IT.Cleanup` therefore reaches last |
| `OneServerOfAKind` | `CreatorInv` of `DockerCreator`, which no step of `IT` breaks; `LockInv`: whoever has a server in hand holds the mutex, and its pointer is not set yet |
| `NothingIsRemovedTwice` | `OwnerInv`: what a test registered with `t.Cleanup` is listed and its own (`BoundInv`), a listed instance of a test waits for that test (`BelongsInv`), and `TestMain` removes only instances of no test (`CleanerInv`) |
| `ITTypes` | `RestInv`: the types of the remaining variables |
| `RedisGoesLast` | `LinkInv`: an Icinga DB instance is given a Redis server of its own test or of no test; `ListInv`: a test registered the clean-up of its Redis server first; `StackInv`: the Redis creator was pushed on `deferredCleanup` first; `StillInv`: nothing goes before its test ends or `IT.Cleanup` runs; `LastInv`: when `IT.Cleanup` has come to the Redis servers, no Icinga DB instance is left |
| `ServersGoLast` | `ServerInv`: a published server is there until `IT.Cleanup`; when that calls a server's `Cleanup` while an Icinga DB instance exists, the creator of Icinga DB is below it in `deferredCleanup` (`IcingaDbToCome`), which is the exception the property names |
| `NothingIsLeftBehind` | `CreatorsInv`: a creator's `Cleanup` is in `deferredCleanup`; `HeldInv`: what exists is listed, a server, or in somebody's hand; `PanicInv`: a test that panicked does not end; `SweepInv`: what is still listed during `IT.Cleanup` belongs to an entry it has not come to |

None of the properties but the types is inductive. That no instance is removed twice, say, depends on
who may ever put it in a list, and `CleanupComplete` speaks of the last state only: `SweepInv` is
what holds on the way there.

Model-checked only: all liveness (`Ends`, `Returns`, `ExecReturns`, `CertificatesReturn`),
which needs fairness and is outside what TLAPS proves, and the four violations, which are
counterexamples. Every invariant and every refinement that a run checks is stated by a theorem.
`TypeCorrectness` of `Icinga2Client` and `Reload`, `GivesUpLate`, `OnePool`, `KeysDistinct` and
`BufferIsCurrentLine` are proved and belong to no run.

## Plan

Done, in this order: `DockerCreator`, `ServiceLease`, `IT`, `Eventually`, `Retry`,
`RootConnection`, `LineWriter`; databases and lifetimes in `IT`; `Icinga2Client` with `Request`, and
`Reload`; `DockerExec`, `UniqueName`, `KeyPool`, `CertificateAuthority`; the proofs above.

Left: that `IT` keeps the promise of `ServiceLease` for its pooled services, as `DockerCreator`
does on its own; `Reload` with a clock, to bound how late it may return.

## Not modelled

* `PrettySelect`: a sequential loop over a result set, and formatting.
* `MakeVariants` and `Vary`: a copy of a struct with one field set, by reflection.
* The goroutine of `ForwardDockerContainerOutput`: it passes output on for ever, and nothing
  waits for it. Its start is a step of `DockerCreator`.
* PEM encoding, `CertificateToFile` and the like, schema import, templates, connection
  strings and logging: pure I/O or formatting without an order of events to get wrong.
* The accessors and interfaces of `internal/services/*/*.go`, and `must.go`, `random.go`,
  `environment.go`: no state; their panics are failing calls of the steps that use them.
