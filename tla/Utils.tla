--------------------------------- MODULE Utils ---------------------------------
(***************************************************************************)
(* The parts of package utils that share nothing with each other, in one   *)
(* specification: a behaviour uses one of them, which component names, so  *)
(* that their states add up and do not multiply.  Keys and certificates    *)
(* are those of CertificateAuthority, which this module extends.           *)
(***************************************************************************)
EXTENDS CertificateAuthority, Sequences

CONSTANTS
  Newline, Others, MaxBytes,            \* LineWriter
  InputLength, MaxOutput, PipeSize,     \* DockerExec
  Calls, Slash, Dash, TestNames, Hints  \* UniqueName

\* The parts that names are made of.
Texts ==
  {Slash, Dash} \cup UNION {{text[i] : i \in DOMAIN text} : text \in TestNames \cup Hints}

ASSUME TextsAssumption == TestNames \cup Hints \subseteq Seq(Texts)
ASSUME InputAssumption == InputLength \in Nat
ASSUME BytesAssumption == MaxBytes \in Nat

VARIABLES
  component,
  buf, delivered, sent, closed,                         \* LineWriter
  main, result, copier, reader, next, out, stdin, stdinOpen, output,
  outputOpen, connected, cmd, running, code, held, file, produced,  \* DockerExec
  call, prefix, counters, name                          \* UniqueName

Lines == INSTANCE LineWriter
Exec == INSTANCE DockerExec

Names == INSTANCE UniqueName WITH at <- call

keyVars == <<vars, caVars>>
lineVars == <<buf, delivered, sent, closed>>
execVars == <<main, result, copier, reader, next, out, stdin, stdinOpen, output,
              outputOpen, connected, cmd, running, code, held, file, produced>>
nameVars == <<call, prefix, counters, name>>
allVars == <<component, keyVars, lineVars, execVars, nameVars>>

UtilsInit ==
  /\ component \in {"lines", "exec", "names", "keys"}
  /\ CAInit /\ Lines!Init /\ Exec!Init /\ Names!Init

Uses(part) == component = part /\ UNCHANGED component

UtilsNext ==
  \/ Uses("lines") /\ Lines!Next /\ UNCHANGED <<keyVars, execVars, nameVars>>
  \/ Uses("exec") /\ Exec!Next /\ UNCHANGED <<keyVars, lineVars, nameVars>>
  \/ Uses("names") /\ Names!Next /\ UNCHANGED <<keyVars, lineVars, execVars>>
  \/ Uses("keys") /\ CANext /\ UNCHANGED <<lineVars, execVars, nameVars>>

\* A part that is not used makes no progress, and need not.
UtilsSpec ==
  /\ UtilsInit /\ [][UtilsNext]_allVars
  /\ component = "exec" => Exec!Fairness
  /\ component = "keys" => CAFairness

-----------------------------------------------------------------------------
(* The properties of the parts.                                            *)

\* LineWriter: one call for each line, in order.
OneCallPerLine == Lines!OneCallPerLine

\* LineWriter: no line gets a byte of another.
BufferIsCurrentLine == Lines!BufferIsCurrentLine

\* DockerExec: the output is whole when the exit code is reported.
OutputComplete == Exec!OutputComplete

\* DockerExec: nil means that the command has done its work.
NilMeansDone == Exec!NilMeansDone

\* DockerExec: it returns, however small the pipes are.
ExecReturns == component = "exec" => Exec!Returns

\* NewCA and NewCertificate return, whoever sets up the pool of keys.
CertificatesReturn == component = "keys" => CallsReturn

\* UniqueName: no name is given out twice.
Unique == Names!Unique

=============================================================================
