----------------------------- MODULE ReloadProofs -----------------------------
(***************************************************************************)
(* Safety of Reload, for any number of callers and calls and whatever the  *)
(* node does.                                                              *)
(***************************************************************************)
EXTENDS Reload, TLAPS

-----------------------------------------------------------------------------
(* The inductive invariant.                                                *)

Values == Contents \cup Ids \cup {Unread}

\* TypeOK with the domains.  The calls of Reload are counted from 1, only a load
\* that is under way has read anything, and it has not been rejected yet.
Types ==
  /\ TypeOK
  /\ disk \in [Files -> Values] /\ running \in [Files -> Values]
  /\ loading \in [Files -> Values] /\ answer \in [Callers -> Values]
  /\ \A c \in Callers : at[c] # "idle" => round[c] >= 1
  /\ ~busy => \A f \in Files : loading[f] = Unread
  /\ busy => ~rejected

\* A startup id is older than the call that has not written its own yet.
Older(id) ==
  /\ id[2] \in Nat
  /\ \A c \in Callers : id[1] = c =>
       /\ id[2] <= round[c]
       /\ at[c] \in {"config", "reload", "id"} => id[2] < round[c]

Fresh ==
  /\ Older(disk[IdFile]) /\ Older(loading[IdFile]) /\ Older(running[IdFile])
  /\ \A c \in Callers : Older(answer[c])

\* A load that meets the caller's startup id began after the caller finished
\* with its own file, and so did every later one.
QuietInv ==
  \A c \in Callers : quiet[c] /\ at[c] # "config" =>
    /\ loading[c] \in {Unread, disk[c]}
    /\ \/ running[IdFile] = StartupId(c)
       \/ answer[c] = StartupId(c)
       \/ at[c] = "nil"
       => running[c] = disk[c] /\ disk[c][1] # "bad"

\* An id that the node uses is not replaced by an older one.
WaitingInv ==
  /\ WorthWaiting
  /\ \A c \in Callers :
       round[c] >= 1 /\ disk[IdFile] = StartupId(c) /\ running[IdFile] = StartupId(c) =>
         loading[IdFile] \in {Unread, StartupId(c)}

IInv == Types /\ Fresh /\ QuietInv /\ WaitingInv

-----------------------------------------------------------------------------
(* Each step preserves it.                                                 *)

LEMMA EmptyAndUnread ==
  /\ Empty \in Contents /\ Empty \in Ids /\ Empty \in Values /\ Unread \in Values
  /\ Empty[1] = "empty" /\ Empty[2] = 0 /\ Unread[1] = "unread" /\ Unread[2] = 0
  /\ Empty # Unread
BY DEF Contents, Ids, Values, Empty, Unread

LEMMA InitIInv == Init => IInv
<1> SUFFICES ASSUME Init PROVE IInv
  OBVIOUS
<1> USE CallersAssumption, MaxReloadsAssumption DEF Init, Files
<1>1. Types
  <2>1. TypeOK
    <3>1. round \in [Callers -> 0 .. MaxReloads]
      OBVIOUS
    <3>2. at \in [Callers -> {"idle"}] /\ quiet \in [Callers -> BOOLEAN]
      OBVIOUS
    <3>3. \A f \in Files : disk[f] = Empty /\ running[f] = Empty /\ loading[f] = Unread
      OBVIOUS
    <3> QED
      BY <3>1, <3>2, <3>3, EmptyAndUnread DEF TypeOK
  <2> QED
    BY <2>1, EmptyAndUnread DEF Types
<1>2. Fresh
  BY EmptyAndUnread DEF Fresh, Older
<1>3. QuietInv /\ WaitingInv
  BY DEF QuietInv, WaitingInv, WorthWaiting, StartupId
<1> QED
  BY <1>1, <1>2, <1>3 DEF IInv

LEMMA TruncateConfigKeeps == ASSUME IInv, NEW c \in Callers, TruncateConfig(c) PROVE IInv'
<1> USE CallersAssumption, MaxReloadsAssumption
    DEF IInv, Types, TruncateConfig, Goto, StartupId, Files, callerVars, nodeVars
<1>1. Types'
  <2>1. round' \in [Callers -> 0 .. MaxReloads]
    BY DEF TypeOK
  <2>2. disk' \in [Files -> Values] /\ disk'[IdFile] \in Ids
    BY EmptyAndUnread DEF TypeOK
  <2>3. \A d \in Callers : disk'[d] \in Contents
    BY EmptyAndUnread DEF TypeOK
  <2>4. \A d \in Callers : at'[d] # "idle" => round'[d] >= 1
    BY DEF TypeOK
  <2> QED
    BY <2>1, <2>2, <2>3, <2>4 DEF TypeOK
<1>2. Fresh'
  BY EmptyAndUnread DEF TypeOK, Fresh, Older
<1>3. QuietInv'
  BY DEF TypeOK, Fresh, Older, QuietInv, Empty, Unread
<1>4. WaitingInv'
  BY DEF TypeOK, Fresh, Older, WaitingInv, WorthWaiting, Empty, Unread
<1> QED
  BY <1>1, <1>2, <1>3, <1>4

LEMMA DeleteConfigKeeps == ASSUME IInv, NEW c \in Callers, DeleteConfig(c) PROVE IInv'
<1> USE CallersAssumption, MaxReloadsAssumption
    DEF IInv, Types, DeleteConfig, Goto, StartupId, Files, callerVars, nodeVars
<1>1. Types'
  <2>1. round' \in [Callers -> 0 .. MaxReloads]
    BY DEF TypeOK
  <2>2. disk' \in [Files -> Values] /\ disk'[IdFile] \in Ids
    BY EmptyAndUnread DEF TypeOK
  <2>3. \A d \in Callers : disk'[d] \in Contents
    BY EmptyAndUnread DEF TypeOK
  <2>4. \A d \in Callers : at'[d] # "idle" => round'[d] >= 1
    BY DEF TypeOK
  <2> QED
    BY <2>1, <2>2, <2>3, <2>4 DEF TypeOK
<1>2. Fresh'
  BY EmptyAndUnread DEF TypeOK, Fresh, Older
<1>3. QuietInv'
  <2> SUFFICES ASSUME NEW d \in Callers, quiet'[d], at'[d] # "config"
               PROVE  /\ loading'[d] \in {Unread, disk'[d]}
                      /\ \/ running'[IdFile] = <<d, round'[d]>>
                         \/ answer'[d] = <<d, round'[d]>>
                         \/ at'[d] = "nil"
                         => running'[d] = disk'[d] /\ disk'[d][1] # "bad"
    BY DEF QuietInv
  <2>1. CASE d = c
    <3>1. loading[c] = Unread
      BY <2>1 DEF TypeOK
    <3>2. running[IdFile] # <<c, round'[c]>>
      BY DEF TypeOK, Fresh, Older
    <3>3. answer[c] = Unread /\ at'[c] = "reload"
      BY DEF TypeOK
    <3>4. Unread # <<c, round'[c]>>
      BY DEF Unread, TypeOK
    <3> QED
      BY <2>1, <3>1, <3>2, <3>3, <3>4
  <2>2. CASE d # c
    BY <2>2 DEF TypeOK, QuietInv
  <2> QED
    BY <2>1, <2>2
<1>4. WaitingInv'
  BY DEF TypeOK, Fresh, Older, WaitingInv, WorthWaiting, Empty, Unread
<1> QED
  BY <1>1, <1>2, <1>3, <1>4

LEMMA FillConfigKeeps == ASSUME IInv, NEW c \in Callers, FillConfig(c) PROVE IInv'
<1> USE CallersAssumption, MaxReloadsAssumption
    DEF IInv, Types, FillConfig, Goto, StartupId, Files, callerVars, nodeVars
<1>1. Types'
  BY DEF TypeOK, Contents, Ids, Values, Empty, Unread
<1>2. Fresh'
  BY DEF TypeOK, Fresh, Older, Empty, Unread
<1>3. QuietInv'
  <2> SUFFICES ASSUME NEW d \in Callers, quiet'[d], at'[d] # "config"
               PROVE  /\ loading'[d] \in {Unread, disk'[d]}
                      /\ \/ running'[IdFile] = <<d, round'[d]>>
                         \/ answer'[d] = <<d, round'[d]>>
                         \/ at'[d] = "nil"
                         => running'[d] = disk'[d] /\ disk'[d][1] # "bad"
    BY DEF QuietInv
  <2>1. CASE d = c
    <3>1. loading[c] = Unread
      BY <2>1 DEF TypeOK
    <3>2. running[IdFile] # <<c, round[c]>>
      BY DEF TypeOK, Fresh, Older
    <3>3. answer[c] = Unread /\ at'[c] = "reload"
      BY DEF TypeOK
    <3>4. Unread # <<c, round[c]>>
      BY DEF Unread, TypeOK
    <3> QED
      BY <2>1, <3>1, <3>2, <3>3, <3>4
  <2>2. CASE d # c
    BY <2>2 DEF TypeOK, QuietInv
  <2> QED
    BY <2>1, <2>2
<1>4. WaitingInv'
  BY DEF TypeOK, Fresh, Older, WaitingInv, WorthWaiting, Empty, Unread
<1> QED
  BY <1>1, <1>2, <1>3, <1>4

LEMMA TruncateIdKeeps == ASSUME IInv, NEW c \in Callers, TruncateId(c) PROVE IInv'
<1> USE CallersAssumption, MaxReloadsAssumption
    DEF IInv, Types, TruncateId, Goto, StartupId, Files, callerVars, nodeVars
<1>1. Types'
  BY DEF TypeOK, Contents, Ids, Values, Empty, Unread
<1>2. Fresh'
  BY DEF TypeOK, Fresh, Older, Empty, Unread
<1>3. QuietInv'
  BY DEF TypeOK, Fresh, Older, QuietInv, Empty, Unread
<1>4. WaitingInv'
  BY DEF TypeOK, Fresh, Older, WaitingInv, WorthWaiting, Empty, Unread
<1> QED
  BY <1>1, <1>2, <1>3, <1>4

LEMMA FillIdKeeps == ASSUME IInv, NEW c \in Callers, FillId(c) PROVE IInv'
<1> USE CallersAssumption, MaxReloadsAssumption
    DEF IInv, Types, FillId, Goto, StartupId, Files, callerVars, nodeVars
<1>1. Types'
  BY DEF TypeOK, Contents, Ids, Values, Empty, Unread
<1>2. Fresh'
  BY DEF TypeOK, Fresh, Older, Empty, Unread
<1>3. QuietInv'
  BY DEF TypeOK, Fresh, Older, QuietInv, Empty, Unread
<1>4. WaitingInv'
  BY DEF TypeOK, Fresh, Older, WaitingInv, WorthWaiting, Empty, Unread
<1> QED
  BY <1>1, <1>2, <1>3, <1>4

LEMMA TriggerReloadKeeps == ASSUME IInv, NEW c \in Callers, TriggerReload(c) PROVE IInv'
<1> USE CallersAssumption, MaxReloadsAssumption
    DEF IInv, Types, TriggerReload, Goto, StartupId, Files, callerVars, nodeVars
<1>1. Types'
  BY DEF TypeOK, Contents, Ids, Values, Empty, Unread
<1>2. Fresh'
  BY DEF TypeOK, Fresh, Older, Empty, Unread
<1>3. QuietInv'
  BY DEF TypeOK, Fresh, Older, QuietInv, Empty, Unread
<1>4. WaitingInv'
  BY DEF TypeOK, Fresh, Older, WaitingInv, WorthWaiting, Empty, Unread
<1> QED
  BY <1>1, <1>2, <1>3, <1>4

LEMMA TickKeeps == ASSUME IInv, NEW c \in Callers, Tick(c) PROVE IInv'
<1> USE CallersAssumption, MaxReloadsAssumption
    DEF IInv, Types, Tick, Goto, StartupId, Files, callerVars, nodeVars
<1>1. Types'
  BY DEF TypeOK, Contents, Ids, Values, Empty, Unread
<1>2. Fresh'
  BY DEF TypeOK, Fresh, Older, Empty, Unread
<1>3. QuietInv'
  BY DEF TypeOK, Fresh, Older, QuietInv, Empty, Unread
<1>4. WaitingInv'
  BY DEF TypeOK, Fresh, Older, WaitingInv, WorthWaiting, Empty, Unread
<1> QED
  BY <1>1, <1>2, <1>3, <1>4

LEMMA ReceiveKeeps == ASSUME IInv, NEW c \in Callers, Receive(c) PROVE IInv'
<1> USE CallersAssumption, MaxReloadsAssumption
    DEF IInv, Types, Receive, Goto, StartupId, Files, callerVars, nodeVars
<1>1. Types'
  BY DEF TypeOK, Contents, Ids, Values, Empty, Unread
<1>2. Fresh'
  BY DEF TypeOK, Fresh, Older, Empty, Unread
<1>3. QuietInv'
  BY DEF TypeOK, Fresh, Older, QuietInv, Empty, Unread
<1>4. WaitingInv'
  BY DEF TypeOK, Fresh, Older, WaitingInv, WorthWaiting, Empty, Unread
<1> QED
  BY <1>1, <1>2, <1>3, <1>4

LEMMA ExecFailsKeeps == ASSUME IInv, NEW c \in Callers, ExecFails(c) PROVE IInv'
<1> USE CallersAssumption, MaxReloadsAssumption
    DEF IInv, Types, ExecFails, Goto, StartupId, Files, callerVars, nodeVars
<1>1. Types'
  BY DEF TypeOK, Contents, Ids, Values, Empty, Unread
<1>2. Fresh'
  BY DEF TypeOK, Fresh, Older, Empty, Unread
<1>3. QuietInv'
  BY DEF TypeOK, Fresh, Older, QuietInv, Empty, Unread
<1>4. WaitingInv'
  BY DEF TypeOK, Fresh, Older, WaitingInv, WorthWaiting, Empty, Unread
<1> QED
  BY <1>1, <1>2, <1>3, <1>4

LEMMA AskFailsKeeps == ASSUME IInv, NEW c \in Callers, AskFails(c) PROVE IInv'
<1> USE CallersAssumption, MaxReloadsAssumption
    DEF IInv, Types, AskFails, Goto, StartupId, Files, callerVars, nodeVars
<1>1. Types'
  BY DEF TypeOK, Contents, Ids, Values, Empty, Unread
<1>2. Fresh'
  BY DEF TypeOK, Fresh, Older, Empty, Unread
<1>3. QuietInv'
  BY DEF TypeOK, Fresh, Older, QuietInv, Empty, Unread
<1>4. WaitingInv'
  BY DEF TypeOK, Fresh, Older, WaitingInv, WorthWaiting, Empty, Unread
<1> QED
  BY <1>1, <1>2, <1>3, <1>4

LEMMA GiveUpKeeps == ASSUME IInv, NEW c \in Callers, GiveUp(c) PROVE IInv'
<1> USE CallersAssumption, MaxReloadsAssumption
    DEF IInv, Types, GiveUp, Goto, StartupId, Files, callerVars, nodeVars
<1>1. Types'
  BY DEF TypeOK, Contents, Ids, Values, Empty, Unread
<1>2. Fresh'
  BY DEF TypeOK, Fresh, Older, Empty, Unread
<1>3. QuietInv'
  BY DEF TypeOK, Fresh, Older, QuietInv, Empty, Unread
<1>4. WaitingInv'
  BY DEF TypeOK, Fresh, Older, WaitingInv, WorthWaiting, Empty, Unread
<1> QED
  BY <1>1, <1>2, <1>3, <1>4

LEMMA NodeAnswersKeeps == ASSUME IInv, NEW c \in Callers, NodeAnswers(c) PROVE IInv'
<1> USE CallersAssumption, MaxReloadsAssumption
    DEF IInv, Types, NodeAnswers, Goto, StartupId, Files, callerVars, nodeVars
<1>1. Types'
  BY DEF TypeOK, Contents, Ids, Values, Empty, Unread
<1>2. Fresh'
  BY DEF TypeOK, Fresh, Older, Empty, Unread
<1>3. QuietInv'
  BY DEF TypeOK, Fresh, Older, QuietInv, Empty, Unread
<1>4. WaitingInv'
  BY DEF TypeOK, Fresh, Older, WaitingInv, WorthWaiting, Empty, Unread
<1> QED
  BY <1>1, <1>2, <1>3, <1>4

LEMMA SignalKeeps == ASSUME IInv, Signal PROVE IInv'
<1> USE CallersAssumption, MaxReloadsAssumption
    DEF IInv, Types, Signal, Goto, StartupId, Files, callerVars, nodeVars
<1>1. Types'
  BY DEF TypeOK, Contents, Ids, Values, Empty, Unread
<1>2. Fresh'
  BY DEF TypeOK, Fresh, Older, Empty, Unread
<1>3. QuietInv'
  BY DEF TypeOK, Fresh, Older, QuietInv, Empty, Unread
<1>4. WaitingInv'
  BY DEF TypeOK, Fresh, Older, WaitingInv, WorthWaiting, Empty, Unread
<1> QED
  BY <1>1, <1>2, <1>3, <1>4

LEMMA StartLoadKeeps == ASSUME IInv, StartLoad PROVE IInv'
<1> USE CallersAssumption, MaxReloadsAssumption
    DEF IInv, Types, StartLoad, Goto, StartupId, Files, callerVars, nodeVars
<1>1. Types'
  BY DEF TypeOK, Contents, Ids, Values, Empty, Unread
<1>2. Fresh'
  BY DEF TypeOK, Fresh, Older, Empty, Unread
<1>3. QuietInv'
  BY DEF TypeOK, Fresh, Older, QuietInv, Empty, Unread
<1>4. WaitingInv'
  BY DEF TypeOK, Fresh, Older, WaitingInv, WorthWaiting, Empty, Unread
<1> QED
  BY <1>1, <1>2, <1>3, <1>4

LEMMA ReadFileKeeps == ASSUME IInv, NEW f \in Files, ReadFile(f) PROVE IInv'
<1> USE CallersAssumption, MaxReloadsAssumption
    DEF IInv, Types, ReadFile, Goto, StartupId, Files, callerVars, nodeVars
<1>1. Types'
  BY DEF TypeOK, Contents, Ids, Values, Empty, Unread
<1>2. Fresh'
  BY DEF TypeOK, Fresh, Older, Empty, Unread
<1>3. QuietInv'
  BY DEF TypeOK, Fresh, Older, QuietInv, Empty, Unread
<1>4. WaitingInv'
  BY DEF TypeOK, Fresh, Older, WaitingInv, WorthWaiting, Empty, Unread
<1> QED
  BY <1>1, <1>2, <1>3, <1>4

LEMMA FinishLoadKeeps == ASSUME IInv, FinishLoad PROVE IInv'
<1> USE CallersAssumption, MaxReloadsAssumption
    DEF IInv, Types, FinishLoad, Goto, StartupId, Files, callerVars, nodeVars
<1>1. Types'
  BY DEF TypeOK, Contents, Ids, Values, Empty, Unread
<1>2. Fresh'
  BY DEF TypeOK, Fresh, Older, Empty, Unread
<1>3. QuietInv'
  BY DEF TypeOK, Fresh, Older, QuietInv, Empty, Unread
<1>4. WaitingInv'
  <2>1. IdFile \in Files /\ loading[IdFile] # Unread /\ loading'[IdFile] = Unread
    OBVIOUS
  <2>2. ASSUME NEW c \in Callers, at[c] \in {"poll", "asking"}, disk[IdFile] = StartupId(c),
               ~rejected'
        PROVE  running'[IdFile] = StartupId(c) \/ pending
    <3>1. round[c] >= 1
      BY <2>2
    <3>2. running' = loading
      BY <2>2
    <3>3. CASE running[IdFile] = StartupId(c)
      BY <2>1, <2>2, <3>1, <3>2, <3>3 DEF WaitingInv
    <3>4. ~rejected
      OBVIOUS
    <3> QED
      BY <2>1, <2>2, <3>2, <3>3, <3>4 DEF WaitingInv, WorthWaiting
  <2> QED
    BY <2>1, <2>2 DEF WaitingInv, WorthWaiting
<1> QED
  BY <1>1, <1>2, <1>3, <1>4

LEMMA NextIInv == IInv /\ [Next]_vars => IInv'
<1>1. IInv /\ UNCHANGED vars => IInv'
  BY DEF IInv, Types, TypeOK, Fresh, Older, QuietInv, WaitingInv, WorthWaiting,
         StartupId, vars, callerVars, nodeVars
<1> QED
  BY <1>1, TruncateConfigKeeps, DeleteConfigKeeps, FillConfigKeeps, TruncateIdKeeps,
     FillIdKeeps, TriggerReloadKeeps, TickKeeps, ReceiveKeeps, ExecFailsKeeps,
     AskFailsKeeps, GiveUpKeeps, NodeAnswersKeeps, SignalKeeps, StartLoadKeeps,
     ReadFileKeeps, FinishLoadKeeps
  DEF Next, Step, Load

-----------------------------------------------------------------------------

\* In every reachable state.
THEOREM Invariance == Spec => []IInv
  BY InitIInv, NextIInv, PTL DEF Spec

\* Every variable keeps its type, and Reload holds no answer it has looked at.
THEOREM TypeCorrectness == Spec => []TypeOK
<1>1. IInv => TypeOK
  BY DEF IInv, Types
<1> QED
  BY <1>1, Invariance, PTL

\* If no load was under way when the caller finished with its own file, a nil
\* from Reload means that the node uses that file, and that it is not broken:
\* whoever else writes, signals and reloads.
THEOREM QuietReloadsAreActive == Spec => []NilMeansActiveWhenQuiet
<1>1. IInv => NilMeansActiveWhenQuiet
  BY DEF IInv, QuietInv, NilMeansActiveWhenQuiet
<1> QED
  BY <1>1, Invariance, PTL

\* A caller that waits for the id on disk waits for something: the node has it,
\* will load it, or has refused the last configuration that it read.
THEOREM NoSignalIsLost == Spec => []WorthWaiting
<1>1. IInv => WorthWaiting
  BY DEF IInv, WaitingInv
<1> QED
  BY <1>1, Invariance, PTL

=============================================================================
