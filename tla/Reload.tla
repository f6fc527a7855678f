-------------------------------- MODULE Reload --------------------------------
(***************************************************************************)
(* services.Icinga2.Reload: how a test makes an Icinga 2 node use a new    *)
(* configuration, and how it learns that the node does.                    *)
(*                                                                         *)
(* A caller writes or deletes a file of its own, then calls Reload,        *)
(* which writes a file with a fresh startup id, signals the node, and asks *)
(* the node's API for its startup id until that is the fresh one or 20     *)
(* seconds are over.  Files are written by tee in the container, which     *)
(* truncates them first.                                                   *)
(*                                                                         *)
(* The node is modelled from how it is used: a signal makes it load the    *)
(* configuration once no other load is under way, it reads the files one   *)
(* after the other, and it keeps its old configuration when the new one is *)
(* broken.  Anybody else may signal it too: TriggerReload is exported, and *)
(* Icinga 2 reloads by itself after CreateConfigPackageStage.              *)
(***************************************************************************)
EXTENDS Naturals

CONSTANTS
  Callers,    \* goroutines that reload the same node
  MaxReloads  \* bound on the calls of each of them

ASSUME MaxReloadsAssumption == MaxReloads \in Nat \ {0}

IdFile == "icinga-testing-startup-id.conf"

ASSUME CallersAssumption == IdFile \notin Callers

Files == Callers \cup {IdFile}

Empty == <<"empty", 0>>    \* a file that is missing, or truncated
Unread == <<"unread", 0>>  \* a file the load has not read yet, an answer not given

VARIABLES
  at,       \* program counter of each caller
  round,    \* number of its calls of Reload
  answer,   \* the startup id the node answered with
  quiet,    \* history: no load was under way when it finished with its own file,
            \* and Reload has not failed since
  disk,     \* content of the files in the container
  pending,  \* the node was signalled
  busy,     \* the node is loading the configuration
  loading,  \* the files as far as it has read them
  running,  \* the configuration it uses
  rejected  \* the last load failed

callerVars == <<at, round, answer, quiet>>
nodeVars == <<pending, busy, loading, running, rejected>>
vars == <<callerVars, disk, nodeVars>>

Init ==
  /\ at = [c \in Callers |-> "idle"]
  /\ round = [c \in Callers |-> 0]
  /\ answer = [c \in Callers |-> Unread]
  /\ quiet = [c \in Callers |-> FALSE]
  /\ disk = [f \in Files |-> Empty]
  /\ pending = FALSE
  /\ busy = FALSE
  /\ loading = [f \in Files |-> Unread]
  /\ running = [f \in Files |-> Empty]
  /\ rejected = FALSE

Goto(c, step) == at' = [at EXCEPT ![c] = step]

-----------------------------------------------------------------------------
(* The caller.                                                             *)

\* WriteConfig of the caller's own file: tee truncates it ...
TruncateConfig(c) ==
  /\ at[c] \in {"idle", "nil", "error"} /\ round[c] < MaxReloads
  /\ round' = [round EXCEPT ![c] = @ + 1]
  /\ disk' = [disk EXCEPT ![c] = Empty]
  /\ Goto(c, "config")
  /\ UNCHANGED <<answer, quiet, nodeVars>>

\* ... and writes the new content, which the node may find to be broken.
FillConfig(c) ==
  /\ at[c] = "config"
  /\ \E kind \in {"good", "bad"} : disk' = [disk EXCEPT ![c] = <<kind, round[c]>>]
  /\ quiet' = [quiet EXCEPT ![c] = ~busy]
  /\ Goto(c, "reload")
  /\ UNCHANGED <<round, answer, nodeVars>>

\* DeleteConfigGlob of the caller's own file.
DeleteConfig(c) ==
  /\ at[c] \in {"idle", "nil", "error"} /\ round[c] < MaxReloads
  /\ round' = [round EXCEPT ![c] = @ + 1]
  /\ disk' = [disk EXCEPT ![c] = Empty]
  /\ quiet' = [quiet EXCEPT ![c] = ~busy]
  /\ Goto(c, "reload")
  /\ UNCHANGED <<answer, nodeVars>>

\* Mutant: the id is the same each time.
FixedStartupId(c) == <<"fixed", 1>>

\* RandomString(32): different in every call.
StartupId(c) == <<c, round[c]>>

\* Reload: WriteConfig of the startup id,
TruncateId(c) ==
  /\ at[c] = "reload"
  /\ disk' = [disk EXCEPT ![IdFile] = Empty]
  /\ Goto(c, "id")
  /\ UNCHANGED <<round, answer, quiet, nodeVars>>

FillId(c) ==
  /\ at[c] = "id"
  /\ disk' = [disk EXCEPT ![IdFile] = StartupId(c)]
  /\ Goto(c, "signal")
  /\ UNCHANGED <<round, answer, quiet, nodeVars>>

\* Mutant: no signal is sent to a node that is reloading already.
TriggerUnlessBusy(c) ==
  /\ at[c] = "signal"
  /\ pending' = (pending \/ ~busy)
  /\ Goto(c, "poll")
  /\ UNCHANGED <<round, answer, quiet, disk, busy, loading, running, rejected>>

\* TriggerReload, and the start of the timer.
TriggerReload(c) ==
  /\ at[c] = "signal"
  /\ pending' = TRUE
  /\ Goto(c, "poll")
  /\ UNCHANGED <<round, answer, quiet, disk, busy, loading, running, rejected>>

\* WriteConfig and DeleteConfigGlob panic when the command fails, and leave the
\* file as it is; TriggerReload ends the process when there is no container.
ExecFails(c) ==
  /\ at[c] \in {"config", "id", "signal"}
  /\ Goto(c, "panicked")
  /\ quiet' = [quiet EXCEPT ![c] = FALSE]
  /\ UNCHANGED <<round, answer, disk, nodeVars>>

\* The select takes a tick: GetJson sends a request.
Tick(c) ==
  /\ at[c] = "poll"
  /\ Goto(c, "asking")
  /\ UNCHANGED <<round, answer, quiet, disk, nodeVars>>

\* GetJson returns an error, another status than 200, or no valid JSON.
AskFails(c) ==
  /\ at[c] = "asking"
  /\ Goto(c, "poll")
  /\ answer' = [answer EXCEPT ![c] = Unread]
  /\ UNCHANGED <<round, quiet, disk, nodeVars>>

\* GetJson returns the startup id the node had when it answered.
Receive(c) ==
  /\ at[c] = "asking" /\ answer[c] # Unread
  /\ answer' = [answer EXCEPT ![c] = Unread]
  /\ Goto(c, IF answer[c] = StartupId(c) THEN "nil" ELSE "poll")
  /\ UNCHANGED <<round, quiet, disk, nodeVars>>

\* Mutant: when the time is over, the node is signalled once more.
GiveUpNever(c) ==
  /\ at[c] = "poll"
  /\ Goto(c, "signal")
  /\ UNCHANGED <<round, answer, quiet, disk, nodeVars>>

\* The 20 seconds may be over at any time, but only the select looks at the
\* timer, and it may take a tick instead.
GiveUp(c) ==
  /\ at[c] = "poll"
  /\ Goto(c, "error")
  /\ quiet' = [quiet EXCEPT ![c] = FALSE]
  /\ UNCHANGED <<round, answer, disk, nodeVars>>

-----------------------------------------------------------------------------
(* The node.                                                               *)

\* A signal of somebody else.
Signal ==
  /\ pending' = TRUE
  /\ UNCHANGED <<callerVars, disk, busy, loading, running, rejected>>

StartLoad ==
  /\ pending /\ ~busy
  /\ pending' = FALSE
  /\ busy' = TRUE
  /\ rejected' = FALSE
  /\ UNCHANGED <<callerVars, disk, loading, running>>

ReadFile(f) ==
  /\ busy /\ loading[f] = Unread
  /\ loading' = [loading EXCEPT ![f] = disk[f]]
  /\ UNCHANGED <<callerVars, disk, pending, busy, running, rejected>>

FinishLoad ==
  /\ busy /\ \A f \in Files : loading[f] # Unread
  /\ busy' = FALSE
  /\ rejected' = \E c \in Callers : loading[c][1] = "bad"
  /\ running' = IF rejected' THEN running ELSE loading
  /\ loading' = [f \in Files |-> Unread]
  /\ UNCHANGED <<callerVars, disk, pending>>

NodeAnswers(c) ==
  /\ at[c] = "asking" /\ answer[c] = Unread
  /\ answer' = [answer EXCEPT ![c] = running[IdFile]]
  /\ UNCHANGED <<at, round, quiet, disk, nodeVars>>

-----------------------------------------------------------------------------
Step(c) ==
  \/ FillConfig(c) \/ TruncateId(c) \/ FillId(c) \/ TriggerReload(c)
  \/ Tick(c) \/ Receive(c)

Load == StartLoad \/ FinishLoad \/ \E f \in Files : ReadFile(f)

Next ==
  \/ \E c \in Callers :
       \/ TruncateConfig(c) \/ DeleteConfig(c) \/ Step(c) \/ ExecFails(c) \/ AskFails(c)
       \/ GiveUp(c) \/ NodeAnswers(c)
  \/ Signal \/ Load

Spec == Init /\ [][Next]_vars

\* Go runs what can run, time passes, a request comes to an end, and a select
\* with two ready cases takes one at random: neither is passed over forever.
FairSpec ==
  /\ Spec
  /\ \A c \in Callers :
       /\ WF_vars(Step(c))
       /\ WF_vars(AskFails(c) \/ NodeAnswers(c))
       /\ SF_vars(GiveUp(c))

-----------------------------------------------------------------------------
(* Properties.                                                             *)

Contents == {Empty} \cup ({"good", "bad"} \X (1 .. MaxReloads))
Ids == {Empty} \cup (Callers \X (1 .. MaxReloads))

\* Every variable has its type; an answer is held only while Reload waits.
TypeOK ==
  /\ at \in [Callers -> {"idle", "config", "reload", "id", "signal", "poll",
                         "asking", "nil", "error", "panicked"}]
  /\ round \in [Callers -> 0 .. MaxReloads]
  /\ quiet \in [Callers -> BOOLEAN]
  /\ pending \in BOOLEAN /\ busy \in BOOLEAN /\ rejected \in BOOLEAN
  /\ \A c \in Callers :
       /\ answer[c] \in Ids \cup {Unread}
       /\ disk[c] \in Contents /\ running[c] \in Contents
       /\ loading[c] \in Contents \cup {Unread}
       /\ answer[c] # Unread => at[c] = "asking"
  /\ disk[IdFile] \in Ids /\ running[IdFile] \in Ids
  /\ loading[IdFile] \in Ids \cup {Unread}

\* When Reload returns nil, the node uses the configuration its caller made:
\* what the comment above Reload says.
NilMeansActive == \A c \in Callers : at[c] = "nil" => running[c] = disk[c]

\* It does, if the node was not loading anything when the caller finished with
\* its own file: the startup id then tells the new configuration from the old,
\* and a broken one is never reported as active.
NilMeansActiveWhenQuiet ==
  \A c \in Callers :
    at[c] = "nil" /\ quiet[c] => running[c] = disk[c] /\ disk[c][1] # "bad"

\* No signal is lost: as long as Reload waits for the id that is on disk, the
\* node has it, is about to get it, or has refused the configuration.
WorthWaiting ==
  \A c \in Callers :
    at[c] \in {"poll", "asking"} /\ disk[IdFile] = StartupId(c) =>
      \/ running[IdFile] = StartupId(c)
      \/ pending
      \/ busy /\ loading[IdFile] \in {Unread, StartupId(c)}
      \/ rejected

\* Reload returns, whatever the node does and however often it is signalled.
Returns ==
  \A c \in Callers : at[c] = "reload" ~> at[c] \in {"nil", "error", "panicked"}

=============================================================================
