------------------------------ MODULE DockerExec ------------------------------
(***************************************************************************)
(* utils.DockerExec: runs a command in a container.  One goroutine copies  *)
(* the caller's stdin to the command, another one takes the command's      *)
(* multiplexed output apart, and DockerExec waits for both and then        *)
(* inspects how the command ended.                                         *)
(*                                                                         *)
(* The commands are modelled from their use: "tee" copies its stdin to a   *)
(* file and to its stdout (WriteConfig), and a "script" without stdin      *)
(* writes to stdout and stderr (DeleteConfigGlob, redis-cli monitor).  The *)
(* pipes between the two sides hold PipeSize chunks.  Docker closes the    *)
(* output when the command closes it, and records the end of the command   *)
(* at some later time.                                                     *)
(*                                                                         *)
(* The connection to Docker may end early.  Between two frames the reader  *)
(* cannot tell that from the end of the output.  What Docker has got for   *)
(* the command still gets there: it is a local socket, on which an end     *)
(* that leaves data unread is an error, and no io.EOF.                     *)
(***************************************************************************)
EXTENDS Naturals, FiniteSets, Sequences

CONSTANTS
  InputLength,  \* chunks of stdin
  MaxOutput,    \* chunks a script writes
  PipeSize      \* chunks a pipe holds

Streams == {"stdout", "stderr"}

VARIABLES
  main,      \* "attach", "wait", "inspect" or "returned"
  result,    \* "none", "nil", "error", "exit code" or "panic"
  copier,    \* the goroutine for stdin: "off", "copy", "close", "done", "failed"
  reader,    \* the goroutine for the output: "off", "read", "done", "failed"
  next,      \* the next chunk of stdin to copy
  out,       \* what the writers of the caller got
  stdin,     \* pipe to the command
  stdinOpen,
  output,    \* frames, of a stream and a chunk, that were not read (yet)
  outputOpen,
  connected, \* the connection to Docker has not ended early
  cmd,       \* "tee" or "script"
  running,   \* the command as Docker reports it
  code,      \* its exit code
  held,      \* the chunk tee has read but not written yet, or 0
  file,      \* the file tee writes
  produced   \* history: all frames the command wrote

goVars == <<main, result, copier, reader, next, out>>
pipeVars == <<stdin, stdinOpen, output, outputOpen, connected>>
cmdVars == <<cmd, running, code, held, file, produced>>
vars == <<goVars, pipeVars, cmdVars>>

Init ==
  /\ main = "attach" /\ result = "none"
  /\ copier = "off" /\ reader = "off"
  /\ next = 1
  /\ out = [s \in Streams |-> <<>>]
  /\ stdin = <<>> /\ output = <<>>
  /\ cmd \in {"tee", "script"}
  /\ stdinOpen = (cmd = "tee")
  /\ outputOpen = TRUE /\ connected = TRUE
  /\ running = TRUE
  /\ code \in {0, 1}
  /\ held = 0 /\ file = <<>> /\ produced = <<>>

Return(what) == main' = "returned" /\ result' = what

-----------------------------------------------------------------------------
(* DockerExec.                                                             *)

\* ContainerExecCreate or ContainerExecAttach fails, or the goroutines start.
Attach ==
  /\ main = "attach"
  /\ \/ Return("error") /\ UNCHANGED <<copier, reader>>
     \/ /\ main' = "wait"
        /\ copier' = IF cmd = "tee" THEN "copy" ELSE "done"
        /\ reader' = "read"
        /\ UNCHANGED result
  /\ UNCHANGED <<next, out, pipeVars, cmdVars>>

Copy ==
  /\ copier = "copy" /\ next <= InputLength /\ Len(stdin) < PipeSize
  /\ stdin' = Append(stdin, next)
  /\ next' = next + 1
  /\ UNCHANGED <<main, result, copier, reader, out, stdinOpen, output, outputOpen, connected, cmdVars>>

\* The caller's stdin ends.
CopyEnds ==
  /\ copier = "copy" /\ next > InputLength
  /\ copier' = "close"
  /\ UNCHANGED <<main, result, reader, next, out, pipeVars, cmdVars>>

\* Mutant: stdin is not closed at its end.
CloseNothing ==
  /\ copier = "close"
  /\ copier' = "done"
  /\ UNCHANGED <<main, result, reader, next, out, pipeVars, cmdVars>>

CloseWrite ==
  /\ copier = "close"
  /\ copier' = "done"
  /\ stdinOpen' = FALSE
  /\ UNCHANGED <<main, result, reader, next, out, stdin, output, outputOpen, connected, cmdVars>>

\* Mutant: a stdin that fails is taken for one that ends.
CopyFailsSilently ==
  /\ copier = "copy"
  /\ copier' = "close"
  /\ UNCHANGED <<main, result, reader, next, out, pipeVars, cmdVars>>

\* The caller's stdin fails.  Nothing closes the stdin of the command.
CopyFails ==
  /\ copier = "copy"
  /\ copier' = "failed"
  /\ UNCHANGED <<main, result, reader, next, out, pipeVars, cmdVars>>

\* Mutant: all output goes to stdout.
ReadAsStdout ==
  /\ reader = "read" /\ output # <<>>
  /\ output' = Tail(output)
  /\ out' = [out EXCEPT !["stdout"] = Append(@, output[1][2])]
  /\ UNCHANGED <<main, result, copier, reader, next, stdin, stdinOpen, outputOpen, connected,
                 cmdVars>>

\* One frame: the header tells the stream, and the payload is copied.
ReadFrame ==
  /\ reader = "read" /\ output # <<>>
  /\ output' = Tail(output)
  /\ LET frame == output[1] IN out' = [out EXCEPT ![frame[1]] = Append(@, frame[2])]
  /\ UNCHANGED <<main, result, copier, reader, next, stdin, stdinOpen, outputOpen, connected,
                 cmdVars>>

ReadEnds ==
  /\ reader = "read" /\ output = <<>> /\ ~outputOpen
  /\ reader' = "done"
  /\ UNCHANGED <<main, result, copier, next, out, pipeVars, cmdVars>>

\* A writer of the caller fails, or the stream of the frame is unknown.
\* Nobody reads the output of the command any more.
ReadFails ==
  /\ reader = "read" /\ output # <<>>
  /\ reader' = "failed"
  /\ UNCHANGED <<main, result, copier, next, out, pipeVars, cmdVars>>

\* The connection to Docker ends: a copy of stdin fails, and the output ends
\* with io.EOF between two frames, or with another error.
Disconnect ==
  /\ main = "wait" /\ connected /\ reader # "done"
  /\ connected' = FALSE
  /\ copier' = IF copier = "done" THEN "done" ELSE "failed"
  /\ reader' \in IF reader = "read" THEN {"done", "failed"} ELSE {reader}
  /\ UNCHANGED <<main, result, next, out, stdin, stdinOpen, output, outputOpen, cmdVars>>

\* errgroup: both goroutines have ended, and the first error counts.
Wait ==
  /\ main = "wait" /\ {copier, reader} \subseteq {"done", "failed"}
  /\ IF "failed" \in {copier, reader}
     THEN Return("error")
     ELSE main' = "inspect" /\ UNCHANGED result
  /\ UNCHANGED <<copier, reader, next, out, pipeVars, cmdVars>>

\* ContainerExecInspect.
Inspect ==
  /\ main = "inspect"
  /\ \/ Return("error")
     \/ running /\ Return("panic")
     \/ ~running /\ Return(IF code = 0 THEN "nil" ELSE "exit code")
  /\ UNCHANGED <<copier, reader, next, out, pipeVars, cmdVars>>

-----------------------------------------------------------------------------
(* The command.                                                            *)

\* Docker drops what it cannot pass on.
Write(stream, chunk) ==
  /\ outputOpen /\ (connected => Len(output) < PipeSize)
  /\ output' = Append(output, <<stream, chunk>>)
  /\ produced' = Append(produced, <<stream, chunk>>)
  /\ UNCHANGED <<goVars, stdin, stdinOpen, outputOpen, connected, cmd, running, code>>

TeeReads ==
  /\ cmd = "tee" /\ held = 0 /\ stdin # <<>>
  /\ held' = stdin[1]
  /\ stdin' = Tail(stdin)
  /\ file' = Append(file, held')
  /\ UNCHANGED <<goVars, stdinOpen, output, outputOpen, connected, cmd, running, code,
                 produced>>

TeeWrites == held # 0 /\ Write("stdout", held) /\ held' = 0 /\ UNCHANGED file

\* It will exit with 1 because it cannot write the file.
TeeComplains ==
  /\ cmd = "tee" /\ code = 1 /\ produced = <<>>
  /\ Write("stderr", 0)
  /\ UNCHANGED <<held, file>>

ScriptWrites(stream) ==
  /\ cmd = "script" /\ Len(produced) < MaxOutput
  /\ Write(stream, Len(produced) + 1)
  /\ UNCHANGED <<held, file>>

\* tee ends with its stdin; a script closes its output when it likes.
OutputEnds ==
  /\ main # "attach" /\ outputOpen
  /\ cmd = "tee" => stdin = <<>> /\ ~stdinOpen /\ held = 0
  /\ outputOpen' = FALSE
  /\ UNCHANGED <<goVars, stdin, stdinOpen, output, connected, cmdVars>>

Exit ==
  /\ running /\ ~outputOpen
  /\ running' = FALSE
  /\ UNCHANGED <<goVars, pipeVars, cmd, code, held, file, produced>>

-----------------------------------------------------------------------------
Goroutines == Copy \/ CopyEnds \/ CloseWrite \/ ReadFrame \/ ReadEnds

Command ==
  /\ main # "attach"
  /\ \/ TeeReads \/ TeeWrites \/ TeeComplains
     \/ \E s \in Streams : ScriptWrites(s)
     \/ OutputEnds \/ Exit

\* DockerExec has returned; or the caller's own stdin or writer failed, and
\* the other goroutine waits for the command, which waits for the one that is
\* gone.
Ended ==
  /\ main = "returned" \/ "failed" \in {copier, reader}
  /\ UNCHANGED vars

Next ==
  \/ Attach \/ Goroutines \/ CopyFails \/ ReadFails \/ Disconnect \/ Wait \/ Inspect
  \/ Command \/ Ended

Spec == Init /\ [][Next]_vars

\* Go runs what can run, and so does the container.
Fairness ==
  /\ WF_vars(Attach \/ Wait \/ Inspect) /\ WF_vars(Command)
  /\ WF_vars(Copy \/ CopyEnds \/ CloseWrite) /\ WF_vars(ReadFrame \/ ReadEnds)

-----------------------------------------------------------------------------
(* Properties.                                                             *)

\* How many of the first n frames are of the stream.
Frames(stream, n) == Cardinality({m \in 1 .. n : produced[m][1] = stream})

\* The writers have got the first n frames: each those of its stream, in order
\* and nothing else.
Forwarded(n) ==
  \A s \in Streams :
    /\ Len(out[s]) = Frames(s, n)
    /\ \A m \in 1 .. n : produced[m][1] = s => out[s][Frames(s, m)] = produced[m][2]

\* When the exit code is reported, the writers have got the output of the
\* command: all of it, unless the connection ended early, which DockerExec does
\* not notice between two frames; then the writers have got the beginning.
OutputComplete ==
  result \in {"nil", "exit code"} =>
    \E n \in 0 .. Len(produced) : Forwarded(n) /\ (connected => n = Len(produced))

\* nil means that the command has ended with exit code 0 and, for tee, that
\* the file holds the whole data: WriteConfig returns after it was written.
NilMeansDone ==
  result = "nil" =>
    /\ ~running /\ code = 0
    /\ cmd = "tee" => file = [i \in 1 .. InputLength |-> i]

\* DockerExec returns, however small the pipes are, unless a goroutine fails
\* and leaves the other one behind.
Returns == main = "wait" ~> main = "returned" \/ "failed" \in {copier, reader}

=============================================================================
