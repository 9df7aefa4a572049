--------------------------- MODULE UpdatesProofs ----------------------------
(***************************************************************************)
(* Proofs about the installation transaction, for any number of versions,  *)
(* operations, kills and faults, whichever of the versions are broken.     *)
(*                                                                         *)
(* The argument: the journal's lock separates the server's file operations *)
(* from the helper's; an operation that is on trial is either before its   *)
(* swap, with a proven version live, or past it, with a proven version as  *)
(* the backup; and where each process stands says which of the two it is.  *)
(***************************************************************************)
EXTENDS Updates, TLAPS

-----------------------------------------------------------------------------
(* The inductive invariant.                                                *)

\* A restore whose record was lost exchanges two bundles once more.
Twice == "unsaved" \in gaps /\ platform = "bundle"

Repair == "repair" \in gaps

\* The steps at which a process has the journal's lock.
OwnSteps == {"own", "confirm", "undo", "undoSave", "clean", "clear", "suppress",
             "backup", "swap", "save", "handoff", "exiting"}
HelperOwns == HelperSteps \ {"off", "lock"}

LockInv ==
    /\ lock = "server" <=> srv.pc \in OwnSteps
    /\ lock = "helper" <=> helper.pc \in HelperOwns

\* The record of an operation under way, and the helper's steps that try it.
Unsettled == journal.phase \in {"staged", "activated"}
HelperTrial == {"wait", "backup", "swap", "spawn", "await", "kill", "undo", "bareUndo"}
OnTrial == Unsettled \/ helper.pc \in HelperTrial

\* What a process works on is what the journal says.
SelectionInv ==
    /\ Alive => srv.ver \in Versions
    /\ srv.pc \in {"stop", "download", "prepare", "backup", "swap", "save", "handoff"} =>
         srv.sel \in Versions /\ srv.sel > srv.ver
    /\ srv.pc \in {"backup", "swap", "save"} =>
         srv.op = journal /\ journal.phase = "staged" /\ journal.version = srv.sel
    /\ srv.pc \in {"backup", "swap"} =>
         \/ platform = "posix" /\ disk.staged = srv.sel
         \/ platform = "bundle" /\ srv.pc = "swap" /\ disk.backup = srv.sel
    /\ srv.pc = "handoff" => journal.phase = "activated" /\ journal.version = srv.sel

RecoveryInv ==
    /\ srv.pc \in {"confirm", "undo", "undoSave", "clean", "clear", "suppress"} =>
         srv.op.version = journal.version /\ srv.op.prior = journal.prior
    /\ srv.pc = "confirm" => journal.phase = "activated" /\ srv.ver = journal.version
    /\ srv.pc = "undo" => Unsettled
    /\ srv.pc = "undoSave" => srv.op.phase = "rolled-back"
    /\ srv.pc = "suppress" => journal.phase = "rolled-back" /\ ~journal.failed
    /\ srv.pc \in {"ackLoad", "ackSave"} => srv.op.version = srv.ver
    /\ srv.pc \in {"pending", "ackLoad", "ackSave"}
         /\ (OnTrial \/ helper.pc = "undoSave") =>
         srv.op.version = journal.version /\ srv.op.prior = journal.prior

HelperInv ==
    /\ helper.pc \in {"backup", "swap", "bareUndo"} => platform = "windows"
    /\ helper.pc \in {"clean", "clear"} => journal.phase = "confirmed"
    /\ helper.pc \in HelperTrial \cup {"undoSave"} =>
         /\ journal.phase \in {"activated", "confirmed"}
         /\ helper.op.version = journal.version /\ helper.op.prior = journal.prior
    /\ helper.pc = "undoSave" => helper.op.phase = "rolled-back"

FilesInv ==
    /\ platform = "windows" /\ Alive => srv.ver = disk.live
    /\ platform = "windows" /\ Unsettled => disk.staged \in {0, journal.version}
    /\ journal.failed \/ srv.op.failed \/ helper.op.failed => Repair

\* The child of the helper is alone with it.
AloneInv ==
    ChildAlive => \/ helper.pc \in {"off", "await", "kill", "clean", "clear"}
                  \/ helper.pc = "lock" /\ srv.pc = "exiting"

Basics == /\ TypeOK /\ LockInv /\ SelectionInv /\ RecoveryInv /\ HelperInv /\ FilesInv
          /\ AloneInv

\* The files of an operation before its swap, and of one past it.
Sound == disk.live \in proven \/ Repair

Pre ==
    /\ disk.live < journal.version
    /\ Sound
    /\ platform # "bundle" => journal.prior = disk.live /\ disk.backup \in {0, disk.live}

Post ==
    /\ disk.live = journal.version
    /\ disk.backup \in 1 .. journal.version - 1
    /\ disk.backup \in proven \/ Repair
    /\ platform # "bundle" => journal.prior = disk.backup

\* The files are restored, the record is not written yet.
Reverting ==
    \/ srv.pc = "undoSave" /\ ~srv.op.failed
    \/ helper.pc = "undoSave" /\ ~helper.op.failed

PhaseInv ==
    /\ OnTrial => Pre \/ Post
    /\ ~Unsettled => Sound
    /\ journal.phase = "rolled-back" /\ ~journal.failed => disk.live < journal.version
    /\ platform = "bundle" /\ (journal.phase = "activated" \/ helper.pc \in HelperTrial) =>
         Post \/ Reverting

ServerPlace ==
    /\ srv.pc \in {"backup", "clean", "clear"} /\ Unsettled => Pre
    /\ srv.pc = "swap" => Pre /\ (platform = "posix" => disk.backup = disk.live)
    /\ srv.pc \in {"undo", "confirm"} => Post
    /\ srv.pc = "undoSave" => IF srv.op.failed THEN Post
                              ELSE disk.live < journal.version /\ Sound
    /\ platform # "windows" /\ srv.pc \in {"save", "handoff"} => Post

HelperPlace ==
    /\ helper.pc = "undoSave" /\ ~helper.op.failed => disk.live < journal.version /\ Sound
    /\ platform = "windows" /\ helper.pc \in {"lock", "wait", "backup", "swap"} /\ OnTrial => Pre
    /\ platform = "windows" /\ helper.pc \in {"wait", "backup", "swap"} =>
         journal.phase = "activated"
    /\ helper.pc = "swap" => disk.backup = disk.live

\* A running version is live, or the version after the one that is.
OrderInv ==
    /\ Alive
    /\ srv.pc \notin {"save", "handoff", "exiting", "halted"} \/ platform = "windows"
    => disk.live <= srv.ver

Settled == PhaseInv /\ ServerPlace /\ HelperPlace /\ OrderInv

IInv == Basics /\ (Twice \/ Settled)

-----------------------------------------------------------------------------
(* What every step has in common.                                          *)

LEMMA Platforms ==
  ASSUME TypeOK
  PROVE  platform \in {"posix", "windows", "bundle"}
<1>1. mode \in AllModes
  BY UpdatesAssumption DEF TypeOK
<1> QED BY <1>1 DEF AllModes, platform

LEMMA ModeStays ==
  ASSUME [Next]_vars
  PROVE  mode' = mode /\ platform' = platform /\ systemd' = systemd
<1>1. mode' = mode
  BY DEF Next, vars, ServerStep, HelperStep, BootFails, Ready, LoadPending, OwnJournal, AckLoad,
         AckSave, Recover, Confirm, RecoverCleans, RecoverClears, Suppress, RecoverRestores,
         RecoverSavesRollback, StartupApply, StopServing, Download, Prepare, Backup, Swap,
         SaveActivated, Handoff, Exit, HaltedExits, HelperOpens, HelperWaits, HelperBacksUp,
         HelperSwaps, HelperGivesUp, HelperSpawns, HelperSeesConfirmed, HelperLosesPatience,
         HelperKills, HelperRestores, HelperSavesRollback, HelperRestoresBare, HelperRelaunches,
         HelperCleans, HelperClears, Start, Apply, RecoverFails, InstallFails, HelperSpawnFails,
         HelperSaveFails, Publish, DeadlinePasses, Crash
<1> QED BY <1>1 DEF platform, systemd

LEMMA GapsGrow ==
  ASSUME [Next]_vars
  PROVE  gaps \subseteq gaps' /\ proven \subseteq proven'
  BY DEF Next, vars, ServerStep, HelperStep, BootFails, Ready, LoadPending, OwnJournal, AckLoad,
         AckSave, Recover, Confirm, RecoverCleans, RecoverClears, Suppress, RecoverRestores,
         RecoverSavesRollback, StartupApply, StopServing, Download, Prepare, Backup, Swap,
         SaveActivated, Handoff, Exit, HaltedExits, HelperOpens, HelperWaits, HelperBacksUp,
         HelperSwaps, HelperGivesUp, HelperSpawns, HelperSeesConfirmed, HelperLosesPatience,
         HelperKills, HelperRestores, HelperSavesRollback, HelperRestoresBare, HelperRelaunches,
         HelperCleans, HelperClears, Start, Apply, RecoverFails, InstallFails, HelperSpawnFails,
         HelperSaveFails, Publish, DeadlinePasses, Crash

-----------------------------------------------------------------------------
(* Types.                                                                  *)

Disks == [live : Versions, backup : 0..MaxVersion, staged : 0..MaxVersion]
Servers == [pc : ServerSteps, ver : 0..MaxVersion, sel : 0..MaxVersion,
            child : BOOLEAN, op : Operations]
Helpers == [pc : HelperSteps, op : Operations]
Spendings == [ops : 0..MaxOps, crashes : 0..MaxCrashes, faults : 0..MaxFaults,
              disturbed : BOOLEAN]

LEMMA Typing ==
  ASSUME TypeOK
  PROVE  /\ disk \in Disks /\ journal \in Operations /\ srv \in Servers /\ helper \in Helpers
         /\ spent \in Spendings /\ latest \in Versions /\ owed \in 0..MaxVersion
         /\ lock \in {"free", "server", "helper"} /\ proven \subseteq Versions
         /\ gaps \subseteq GapNames /\ mode \in Modes
BY DEF TypeOK, Disks, Servers, Helpers, Spendings

LEMMA Limits ==
  /\ MaxVersion \in Nat /\ MaxOps \in Nat /\ MaxCrashes \in Nat /\ MaxFaults \in Nat
  /\ 1 \in Versions /\ Versions \subseteq 0..MaxVersion
BY UpdatesAssumption DEF Versions

LEMMA Fields ==
  ASSUME TypeOK
  PROVE  /\ disk.live \in Versions /\ disk.live \in 0..MaxVersion
         /\ disk.backup \in 0..MaxVersion /\ disk.staged \in 0..MaxVersion
         /\ srv.sel \in 0..MaxVersion /\ srv.ver \in 0..MaxVersion /\ 0 \in 0..MaxVersion
         /\ srv.op \in Operations /\ helper.op \in Operations /\ journal \in Operations
<1>1. disk.live \in Versions /\ disk.backup \in 0..MaxVersion /\ disk.staged \in 0..MaxVersion
  BY Typing DEF Disks
<1>2. srv.sel \in 0..MaxVersion /\ srv.ver \in 0..MaxVersion /\ srv.op \in Operations
  BY Typing DEF Servers
<1>3. helper.op \in Operations /\ journal \in Operations
  BY Typing DEF Helpers
<1>4. 0 \in 0..MaxVersion
  BY Limits
<1> QED BY <1>1, <1>2, <1>3, <1>4, Limits

\* The edits of a record of an operation ...
LEMMA OperationEdits ==
  ASSUME NEW op \in Operations
  PROVE  /\ NoOp \in Operations
         /\ [op EXCEPT !.phase = "confirmed"] \in Operations
         /\ [op EXCEPT !.phase = "activated"] \in Operations
         /\ [op EXCEPT !.late = TRUE] \in Operations
         /\ RolledBack(op, TRUE) \in Operations /\ RolledBack(op, FALSE) \in Operations
         /\ op.version \in 0..MaxVersion
<1>1. NoOp \in Operations
  BY Limits DEF Operations, NoOp, Phases
<1>2. ASSUME NEW ph \in Phases
      PROVE  [op EXCEPT !.phase = ph] \in Operations
  BY DEF Operations
<1>3. ASSUME NEW ph \in Phases, NEW b \in BOOLEAN
      PROVE  [op EXCEPT !.phase = ph, !.failed = b] \in Operations
  BY DEF Operations
<1>4. [op EXCEPT !.late = TRUE] \in Operations
  BY DEF Operations
<1>5. "confirmed" \in Phases /\ "activated" \in Phases /\ "rolled-back" \in Phases
  BY DEF Phases
<1>6. RolledBack(op, TRUE) \in Operations
  BY <1>3, <1>5 DEF RolledBack
<1>7. RolledBack(op, FALSE) \in Operations
  BY <1>3, <1>5 DEF RolledBack
<1>8. op.version \in 0..MaxVersion
  BY DEF Operations
<1> QED BY <1>1, <1>2, <1>4, <1>5, <1>6, <1>7, <1>8

\* ... of a server ...
LEMMA ServerEdits ==
  ASSUME NEW s \in Servers, NEW op \in Operations, NEW pc \in ServerSteps, NEW v \in 0..MaxVersion,
         NEW child \in BOOLEAN
  PROVE  /\ NoServer \in Servers
         /\ [s EXCEPT !.pc = pc] \in Servers
         /\ [s EXCEPT !.pc = pc, !.op = op] \in Servers
         /\ [s EXCEPT !.pc = pc, !.sel = v] \in Servers
         /\ [NoServer EXCEPT !.pc = pc, !.ver = v] \in Servers
         /\ [NoServer EXCEPT !.pc = pc, !.ver = v, !.child = child] \in Servers
<1>1. NoOp \in Operations
  BY OperationEdits
<1>2. "dead" \in ServerSteps
  BY DEF ServerSteps
<1>3. NoServer \in Servers
  BY <1>1, <1>2, Limits DEF Servers, NoServer
<1>4. ASSUME NEW t \in Servers
      PROVE  /\ [t EXCEPT !.pc = pc] \in Servers
             /\ [t EXCEPT !.pc = pc, !.op = op] \in Servers
             /\ [t EXCEPT !.pc = pc, !.sel = v] \in Servers
             /\ [t EXCEPT !.pc = pc, !.ver = v] \in Servers
             /\ [t EXCEPT !.pc = pc, !.ver = v, !.child = child] \in Servers
  BY DEF Servers
<1> QED BY <1>3, <1>4

\* ... and of a helper.
LEMMA HelperEdits ==
  ASSUME NEW h \in Helpers, NEW op \in Operations, NEW pc \in HelperSteps
  PROVE  /\ NoHelper \in Helpers
         /\ [h EXCEPT !.pc = pc] \in Helpers
         /\ [NoHelper EXCEPT !.pc = pc] \in Helpers
         /\ [pc |-> pc, op |-> op] \in Helpers
<1>1. NoOp \in Operations
  BY OperationEdits
<1>2. "off" \in HelperSteps
  BY DEF HelperSteps
<1> QED BY <1>1, <1>2 DEF Helpers, NoHelper

\* The steps a server can be told to take are steps.
LEMMA StepNames ==
  /\ ServingSteps \subseteq ServerSteps /\ InstallSteps \subseteq ServerSteps
  /\ RecoverSteps \subseteq ServerSteps
  /\ {"dead", "booting", "halted", "exiting", "ready", "check", "idle", "stop"}
       \subseteq ServerSteps
BY DEF ServerSteps, ServingSteps, RecoverSteps, InstallSteps

\* What the two evaluations may ask for.
LEMMA RecoveryActions ==
  ASSUME NEW op, NEW v
  PROVE  EvaluateRecovery(op, v) \in {"manual", "rollback", "cleanup", "acknowledge", "suppress"}
BY DEF EvaluateRecovery

LEMMA OwnedSteps ==
  ASSUME NEW op
  PROVE  OwnedStep(op) \in {"check", "confirm", "undo", "clean", "suppress"}
BY RecoveryActions DEF OwnedStep

\* The server process stays one.
LEMMA ServerTyped ==
  ASSUME TypeOK, SelectionInv, [Next]_vars
  PROVE  srv' \in Servers
<1>0. /\ srv \in Servers /\ journal \in Operations /\ latest \in 0..MaxVersion
      /\ disk.live \in 0..MaxVersion /\ srv.op \in Operations /\ srv.pc \in ServerSteps
  BY Typing, Limits DEF Disks, Servers
<1> HIDE DEF Servers, Operations, ServerSteps
<1>1. ASSUME NEW pc \in ServerSteps, SetPc(pc) PROVE srv' \in Servers
  BY <1>0, <1>1, ServerEdits DEF SetPc
<1>2. NoServer \in Servers /\ Launched(TRUE) \in Servers /\ Launched(FALSE) \in Servers
  BY <1>0, ServerEdits, StepNames DEF Launched
<1>3. Accept \in Servers
  BY <1>0, ServerEdits, StepNames DEF Accept
<1>4. CASE BootFails \/ HaltedExits \/ Exit \/ Start \/ HelperSpawns \/ HelperRelaunches
           \/ HelperKills \/ Crash
  BY <1>0, <1>2, <1>4
     DEF BootFails, HaltedExits, Exit, Start, HelperSpawns, HelperRelaunches, HelperKills, Crash
<1>5. CASE StartupApply \/ Apply
  <2>1. CASE SetPc("idle")
    BY <1>1, <2>1, StepNames
  <2>2. CASE srv' = Accept
    BY <1>3, <2>2
  <2> QED BY <1>5, <2>1, <2>2 DEF StartupApply, Apply
<1>6. CASE \/ Ready \/ AckSave \/ Confirm \/ RecoverCleans \/ RecoverClears \/ Suppress
           \/ RecoverSavesRollback \/ StopServing \/ Download \/ Backup \/ Swap \/ Handoff
           \/ InstallFails \/ RecoverFails
  <2>1. \E pc \in ServerSteps : SetPc(pc)
    BY <1>6 DEF Ready, AckSave, Confirm, RecoverCleans, RecoverClears, Suppress,
                RecoverSavesRollback, StopServing, Download, Backup, Swap, Handoff,
                InstallFails, RecoverFails, ServerSteps, ServingSteps, RecoverSteps, InstallSteps
  <2> QED BY <1>1, <2>1
<1>7. CASE OwnJournal
  <2>1. \E pc \in ServerSteps : SetPc(pc)
    BY <1>7 DEF OwnJournal, ServerSteps, ServingSteps, RecoverSteps
  <2> QED BY <1>1, <2>1
<1>8. ASSUME NEW pc \in ServerSteps, NEW op \in Operations,
             srv' = [srv EXCEPT !.pc = pc, !.op = op]
      PROVE  srv' \in Servers
  BY <1>0, <1>8, ServerEdits
<1>9. CASE LoadPending
  BY <1>0, <1>8, <1>9, StepNames DEF LoadPending, ServingSteps, RecoverSteps
<1>10. CASE AckLoad
  <2>1. srv' = [srv EXCEPT !.pc = "ackSave", !.op = journal] \/ srv' = [srv EXCEPT !.pc = "check"]
    BY <1>10 DEF AckLoad
  <2>2. "ackSave" \in ServerSteps /\ "check" \in ServerSteps
    BY DEF ServerSteps, ServingSteps, RecoverSteps
  <2>3. CASE srv' = [srv EXCEPT !.pc = "ackSave", !.op = journal]
    BY <1>0, <1>8, <2>2, <2>3
  <2>4. CASE srv' = [srv EXCEPT !.pc = "check"]
    BY <1>1, <2>2, <2>4 DEF SetPc
  <2> QED BY <2>1, <2>3, <2>4
<1>11. CASE Recover
  <2>1. srv' = [srv EXCEPT !.pc = OwnedStep(journal), !.op = journal]
    BY <1>11 DEF Recover
  <2>2. OwnedStep(journal) \in ServerSteps
    BY OwnedSteps, StepNames DEF RecoverSteps
  <2> QED BY <1>0, <1>8, <2>1, <2>2
<1>12. CASE RecoverRestores
  <2>1. \E op \in {RolledBack(srv.op, TRUE), RolledBack(srv.op, FALSE)} :
          srv' = [srv EXCEPT !.pc = "undoSave", !.op = op]
    BY <1>12 DEF RecoverRestores
  <2>2. "undoSave" \in ServerSteps
    BY DEF ServerSteps, ServingSteps, RecoverSteps
  <2> QED BY <1>0, <1>8, <2>1, <2>2, OperationEdits
<1>13. CASE SaveActivated
  <2>1. srv' = [srv EXCEPT !.pc = "handoff", !.op = [srv.op EXCEPT !.phase = "activated"]]
    BY <1>13 DEF SaveActivated
  <2>2. "handoff" \in ServerSteps
    BY DEF ServerSteps, InstallSteps
  <2> QED BY <1>0, <1>8, <2>1, <2>2, OperationEdits
<1>14. CASE Prepare
  <2>1. CASE SetPc("halted")
    BY <1>1, <2>1, StepNames
  <2>2. CASE ~SetPc("halted")
    <3>1. /\ srv' = [srv EXCEPT !.pc = FirstMutation, !.op = journal']
          /\ journal' = [NoOp EXCEPT !.id = spent.ops + 1, !.phase = "staged",
                                     !.version = srv.sel,
                                     !.prior = IF platform = "bundle" THEN 0 ELSE disk.live]
          /\ spent.ops < MaxOps /\ srv.pc = "prepare"
      BY <1>14, <2>2 DEF Prepare
    <3>2. journal' \in Operations
      <4>1. spent.ops + 1 \in 0..MaxOps
        BY <3>1, Typing, Limits DEF Spendings
      <4>2. srv.sel \in 0..MaxVersion /\ (IF platform = "bundle" THEN 0 ELSE disk.live) \in 0..MaxVersion
        BY <1>0, Limits, Typing DEF Servers
      <4> QED BY <3>1, <4>1, <4>2 DEF Operations, NoOp, Phases
    <3>3. FirstMutation \in ServerSteps
      BY Platforms DEF FirstMutation, ServerSteps, InstallSteps
    <3> QED BY <1>8, <3>1, <3>2, <3>3
  <2> QED BY <2>1, <2>2
<1>15. srv' = srv => srv' \in Servers
  BY <1>0
<1>16. CASE \/ HelperOpens \/ HelperWaits \/ HelperBacksUp \/ HelperSwaps \/ HelperGivesUp
            \/ HelperSeesConfirmed \/ HelperLosesPatience \/ HelperRestores
            \/ HelperSavesRollback \/ HelperRestoresBare \/ HelperCleans \/ HelperClears
            \/ HelperSpawnFails \/ HelperSaveFails \/ Publish \/ DeadlinePasses
            \/ UNCHANGED vars
  BY <1>15, <1>16
     DEF HelperOpens, HelperWaits, HelperBacksUp, HelperSwaps, HelperGivesUp,
         HelperSeesConfirmed, HelperLosesPatience, HelperRestores, HelperSavesRollback,
         HelperRestoresBare, HelperCleans, HelperClears, HelperSpawnFails, HelperSaveFails,
         Publish, DeadlinePasses, vars
<1> QED
  BY <1>4, <1>5, <1>6, <1>7, <1>9, <1>10, <1>11, <1>12, <1>13, <1>14, <1>16
     DEF Next, ServerStep, HelperStep

\* The journal holds a record of an operation.
LEMMA JournalTyped ==
  ASSUME TypeOK, [Next]_vars
  PROVE  journal' \in Operations
<1>0. journal \in Operations /\ srv.op \in Operations /\ helper.op \in Operations
  BY Typing DEF Servers, Helpers
<1>1. CASE \/ UNCHANGED journal
           \/ journal' = NoOp
           \/ \E op \in {srv.op, journal, helper.op} :
                journal' \in {op, [op EXCEPT !.phase = "confirmed"],
                              [op EXCEPT !.phase = "activated"], [op EXCEPT !.late = TRUE]}
  BY <1>0, <1>1, OperationEdits
<1>2. CASE Prepare
  <2>1. CASE journal' = journal
    BY <1>0, <2>1
  <2>2. CASE journal' # journal
    <3>1. /\ journal' = [NoOp EXCEPT !.id = spent.ops + 1, !.phase = "staged",
                                     !.version = srv.sel,
                                     !.prior = IF platform = "bundle" THEN 0 ELSE disk.live]
          /\ spent.ops < MaxOps
      BY <1>2, <2>2 DEF Prepare
    <3>2. spent.ops + 1 \in 0..MaxOps
      BY <3>1, Typing, Limits DEF Spendings
    <3>3. srv.sel \in 0..MaxVersion /\ (IF platform = "bundle" THEN 0 ELSE disk.live) \in 0..MaxVersion
      BY Fields
    <3> QED BY <3>1, <3>2, <3>3 DEF Operations, NoOp, Phases
  <2> QED BY <2>1, <2>2
<1>3. CASE \/ AckSave \/ Confirm \/ RecoverClears \/ Suppress \/ RecoverSavesRollback
           \/ SaveActivated \/ HelperSavesRollback \/ HelperClears \/ DeadlinePasses
  BY <1>1, <1>3
     DEF AckSave, Confirm, RecoverClears, Suppress, RecoverSavesRollback, SaveActivated,
         HelperSavesRollback, HelperClears, DeadlinePasses
<1>4. CASE \/ BootFails \/ Ready \/ LoadPending \/ OwnJournal \/ AckLoad \/ Recover
           \/ RecoverCleans \/ RecoverRestores \/ StartupApply \/ StopServing \/ Download
           \/ Backup \/ Swap \/ Handoff \/ Exit \/ HaltedExits \/ HelperOpens \/ HelperWaits
           \/ HelperBacksUp \/ HelperSwaps \/ HelperGivesUp \/ HelperSpawns
           \/ HelperSeesConfirmed \/ HelperLosesPatience \/ HelperKills \/ HelperRestores
           \/ HelperRestoresBare \/ HelperRelaunches \/ HelperCleans \/ Start \/ Apply
           \/ RecoverFails \/ InstallFails \/ HelperSpawnFails \/ HelperSaveFails \/ Publish
           \/ Crash \/ UNCHANGED vars
  <2>1. UNCHANGED journal
    BY <1>4
       DEF BootFails, Ready, LoadPending, OwnJournal, AckLoad, Recover, RecoverCleans,
           RecoverRestores, StartupApply, StopServing, Download, Backup, Swap, Handoff, Exit,
           HaltedExits, HelperOpens, HelperWaits, HelperBacksUp, HelperSwaps, HelperGivesUp,
           HelperSpawns, HelperSeesConfirmed, HelperLosesPatience, HelperKills, HelperRestores,
           HelperRestoresBare, HelperRelaunches, HelperCleans, Start, Apply, RecoverFails,
           InstallFails, HelperSpawnFails, HelperSaveFails, Publish, Crash, vars
  <2> QED BY <1>0, <2>1
<1> QED BY <1>2, <1>3, <1>4 DEF Next, ServerStep, HelperStep

\* The helper process stays one.
LEMMA HelperTyped ==
  ASSUME TypeOK, [Next]_vars
  PROVE  helper' \in Helpers
<1>0. journal \in Operations /\ helper \in Helpers /\ helper.op \in Operations
  BY Typing DEF Helpers
<1> HIDE DEF Helpers, Operations, HelperSteps
<1>1. ASSUME NEW pc \in HelperSteps, SetHelper(pc) PROVE helper' \in Helpers
  BY <1>0, <1>1, HelperEdits DEF SetHelper
<1>2. NoHelper \in Helpers
  BY <1>0, HelperEdits DEF HelperSteps
<1>3. CASE \/ HelperWaits \/ HelperBacksUp \/ HelperSwaps \/ HelperSpawns \/ HelperSeesConfirmed
           \/ HelperLosesPatience \/ HelperKills \/ HelperCleans \/ HelperSpawnFails
  <2>1. \E pc \in HelperSteps : SetHelper(pc)
    BY <1>3 DEF HelperWaits, HelperBacksUp, HelperSwaps, HelperSpawns, HelperSeesConfirmed,
                HelperLosesPatience, HelperKills, HelperCleans, HelperSpawnFails, HelperSteps
  <2> QED BY <1>1, <2>1
<1>4. CASE HelperSavesRollback \/ HelperRestoresBare
  <2>1. helper' = NoHelper \/ SetHelper("relaunch")
    BY <1>4 DEF HelperSavesRollback, HelperRestoresBare
  <2>2. "relaunch" \in HelperSteps
    BY DEF HelperSteps
  <2> QED BY <1>1, <1>2, <2>1, <2>2
<1>5. CASE HelperGivesUp \/ HelperSaveFails \/ HelperRelaunches \/ HelperClears \/ Crash
  BY <1>0, <1>2, <1>5 DEF HelperGivesUp, HelperSaveFails, HelperRelaunches, HelperClears, Crash
<1>6. CASE HelperOpens
  <2>1. helper' = [pc |-> "wait", op |-> journal] \/ helper' = NoHelper
    BY <1>6 DEF HelperOpens
  <2>2. [pc |-> "wait", op |-> journal] \in Helpers
    BY <1>0, HelperEdits DEF HelperSteps
  <2> QED BY <1>2, <2>1, <2>2
<1>7. CASE HelperRestores
  <2>1. \E op \in {RolledBack(helper.op, TRUE), RolledBack(helper.op, FALSE)} :
          helper' = [pc |-> "undoSave", op |-> op]
    BY <1>7 DEF HelperRestores
  <2>2. "undoSave" \in HelperSteps
    BY DEF HelperSteps
  <2> QED BY <1>0, <2>1, <2>2, HelperEdits, OperationEdits
<1>8. CASE Handoff
  <2>1. helper' = helper \/ helper' = [NoHelper EXCEPT !.pc = "lock"]
    BY <1>8 DEF Handoff
  <2>2. [NoHelper EXCEPT !.pc = "lock"] \in Helpers
    BY <1>0, HelperEdits DEF HelperSteps
  <2> QED BY <1>0, <2>1, <2>2
<1>9. CASE \/ BootFails \/ Ready \/ LoadPending \/ OwnJournal \/ AckLoad \/ AckSave \/ Recover
           \/ Confirm \/ RecoverCleans \/ RecoverClears \/ Suppress \/ RecoverRestores
           \/ RecoverSavesRollback \/ StartupApply \/ StopServing \/ Download \/ Prepare
           \/ Backup \/ Swap \/ SaveActivated \/ Exit \/ HaltedExits \/ Start \/ Apply
           \/ RecoverFails \/ InstallFails \/ Publish \/ DeadlinePasses \/ UNCHANGED vars
  <2>1. UNCHANGED helper
    BY <1>9
       DEF BootFails, Ready, LoadPending, OwnJournal, AckLoad, AckSave, Recover, Confirm,
           RecoverCleans, RecoverClears, Suppress, RecoverRestores, RecoverSavesRollback,
           StartupApply, StopServing, Download, Prepare, Backup, Swap, SaveActivated, Exit,
           HaltedExits, Start, Apply, RecoverFails, InstallFails, Publish, DeadlinePasses, vars
  <2> QED BY <1>0, <2>1
<1> QED
  BY <1>3, <1>4, <1>5, <1>6, <1>7, <1>8, <1>9 DEF Next, ServerStep, HelperStep

\* The files are what versions there are, and a version is always live.
LEMMA DiskEdits ==
  ASSUME NEW d \in Disks, NEW v \in Versions, NEW m \in 0..MaxVersion, NEW n \in 0..MaxVersion
  PROVE  /\ [d EXCEPT !.backup = m] \in Disks
         /\ [d EXCEPT !.backup = m, !.staged = n] \in Disks
         /\ [d EXCEPT !.live = v, !.staged = n] \in Disks
         /\ [d EXCEPT !.live = v, !.backup = m] \in Disks
BY DEF Disks

LEMMA DiskTyped ==
  ASSUME TypeOK, SelectionInv, HelperInv, [Next]_vars
  PROVE  disk' \in Disks
<1>0. /\ disk \in Disks /\ srv.sel \in 0..MaxVersion /\ 0 \in 0..MaxVersion
      /\ disk.live \in Versions /\ disk.live \in 0..MaxVersion
      /\ disk.backup \in 0..MaxVersion /\ disk.staged \in 0..MaxVersion
  BY Typing, Fields
<1> HIDE DEF Disks
<1>1. CASE UNCHANGED disk
  BY <1>0, <1>1
<1>2. CASE Prepare
  <2>1. disk' = disk \/ disk' = PreparedDisk
    BY <1>2 DEF Prepare
  <2>2. PreparedDisk \in Disks
    BY <1>0, DiskEdits DEF PreparedDisk
  <2> QED BY <1>0, <2>1, <2>2
<1>3. CASE RecoverCleans \/ HelperCleans
  <2>1. Cleaned \in Disks
    BY <1>0, DiskEdits DEF Cleaned
  <2> QED BY <1>3, <2>1 DEF RecoverCleans, HelperCleans
<1>4. CASE Backup \/ HelperBacksUp
  <2>1. [disk EXCEPT !.backup = disk.live] \in Disks
    BY <1>0, DiskEdits
  <2> QED BY <1>4, <2>1 DEF Backup, HelperBacksUp
<1>5. CASE Swap
  <2>1. \/ platform = "posix" /\ disk.staged \in Versions
        \/ platform = "bundle" /\ disk.backup \in Versions
    BY <1>5 DEF Swap, SelectionInv
  <2>2. CASE platform = "bundle"
    BY <1>0, <1>5, <2>1, <2>2, DiskEdits DEF Swap, Swapped, Exchanged
  <2>3. CASE platform = "posix"
    BY <1>0, <1>5, <2>1, <2>3, DiskEdits DEF Swap, Swapped
  <2> QED BY <2>1, <2>2, <2>3
<1>6. ASSUME disk' = Restored, Restorable PROVE disk' \in Disks
  <2>1. disk.backup \in Versions
    BY <1>0, <1>6, Limits DEF Restorable, Versions
  <2> QED BY <1>0, <1>6, <2>1, DiskEdits DEF Restored, Exchanged
<1>7. CASE RecoverRestores \/ HelperRestores \/ HelperRestoresBare
  BY <1>1, <1>6, <1>7 DEF RecoverRestores, HelperRestores, HelperRestoresBare
<1>8. CASE HelperSwaps
  <2>1. disk.staged \in Versions /\ platform = "windows"
    BY <1>0, <1>8, Limits DEF HelperSwaps, HelperInv, Versions
  <2> QED BY <1>0, <1>8, <2>1, DiskEdits DEF HelperSwaps, Swapped
<1>9. CASE \/ BootFails \/ Ready \/ LoadPending \/ OwnJournal \/ AckLoad \/ AckSave \/ Recover
           \/ Confirm \/ RecoverClears \/ Suppress \/ RecoverSavesRollback \/ StartupApply
           \/ StopServing \/ Download \/ SaveActivated \/ Handoff \/ Exit \/ HaltedExits
           \/ HelperOpens \/ HelperWaits \/ HelperGivesUp \/ HelperSpawns
           \/ HelperSeesConfirmed \/ HelperLosesPatience \/ HelperKills
           \/ HelperSavesRollback \/ HelperRelaunches \/ HelperClears \/ Start \/ Apply
           \/ RecoverFails \/ InstallFails \/ HelperSpawnFails \/ HelperSaveFails \/ Publish
           \/ DeadlinePasses \/ Crash \/ UNCHANGED vars
  <2>1. UNCHANGED disk
    BY <1>9
       DEF BootFails, Ready, LoadPending, OwnJournal, AckLoad, AckSave, Recover, Confirm,
           RecoverClears, Suppress, RecoverSavesRollback, StartupApply, StopServing, Download,
           SaveActivated, Handoff, Exit, HaltedExits, HelperOpens, HelperWaits, HelperGivesUp,
           HelperSpawns, HelperSeesConfirmed, HelperLosesPatience, HelperKills,
           HelperSavesRollback, HelperRelaunches, HelperClears, Start, Apply, RecoverFails,
           InstallFails, HelperSpawnFails, HelperSaveFails, Publish, DeadlinePasses, Crash, vars
  <2> QED BY <1>1, <2>1
<1> QED
  BY <1>2, <1>3, <1>4, <1>5, <1>7, <1>8, <1>9 DEF Next, ServerStep, HelperStep

\* The rest.
LEMMA SpendingEdits ==
  ASSUME NEW t \in Spendings
  PROVE  /\ t.crashes < MaxCrashes =>
              [t EXCEPT !.crashes = t.crashes + 1, !.disturbed = TRUE] \in Spendings
         /\ t.faults < MaxFaults =>
              [t EXCEPT !.faults = t.faults + 1, !.disturbed = TRUE] \in Spendings
         /\ t.ops < MaxOps =>
              [t EXCEPT !.ops = t.ops + 1, !.disturbed = FALSE] \in Spendings
         /\ \A b \in BOOLEAN : [t EXCEPT !.disturbed = b] \in Spendings
<1>1. ASSUME NEW n \in 0..MaxCrashes, NEW b \in BOOLEAN
      PROVE  [t EXCEPT !.crashes = n, !.disturbed = b] \in Spendings
  BY DEF Spendings
<1>2. ASSUME NEW n \in 0..MaxFaults, NEW b \in BOOLEAN
      PROVE  [t EXCEPT !.faults = n, !.disturbed = b] \in Spendings
  BY DEF Spendings
<1>3. ASSUME NEW n \in 0..MaxOps, NEW b \in BOOLEAN
      PROVE  [t EXCEPT !.ops = n, !.disturbed = b] \in Spendings
  BY DEF Spendings
<1>4. \A b \in BOOLEAN : [t EXCEPT !.disturbed = b] \in Spendings
  BY DEF Spendings
<1>5. t.crashes \in 0..MaxCrashes /\ t.faults \in 0..MaxFaults /\ t.ops \in 0..MaxOps
  BY DEF Spendings
<1>6. /\ t.crashes < MaxCrashes => t.crashes + 1 \in 0..MaxCrashes
      /\ t.faults < MaxFaults => t.faults + 1 \in 0..MaxFaults
      /\ t.ops < MaxOps => t.ops + 1 \in 0..MaxOps
  BY <1>5, Limits
<1> QED BY <1>1, <1>2, <1>3, <1>4, <1>6

LEMMA SpentTyped ==
  ASSUME TypeOK, [Next]_vars
  PROVE  spent' \in Spendings
<1>0. spent \in Spendings /\ spent.disturbed \in BOOLEAN
  BY Typing DEF Spendings
<1>1. CASE \/ UNCHANGED spent
           \/ spent.faults < MaxFaults /\ Fault
  BY <1>0, <1>1, SpendingEdits DEF Fault
<1>2. CASE Prepare
  BY <1>0, <1>2, SpendingEdits DEF Prepare
<1>3. CASE Start
  <2>1. spent' = [spent EXCEPT !.disturbed = (spent.disturbed \/ helper.pc # "off")]
    BY <1>3 DEF Start
  <2>2. (spent.disturbed \/ helper.pc # "off") \in BOOLEAN
    OBVIOUS
  <2> QED BY <1>0, <2>1, <2>2, SpendingEdits
<1>4. CASE Crash
  BY <1>0, <1>4, SpendingEdits DEF Crash
<1>5. CASE \/ RecoverRestores \/ RecoverFails \/ InstallFails \/ HelperGivesUp
           \/ HelperSpawnFails \/ HelperRestores \/ HelperSaveFails
  <2>1. UNCHANGED spent \/ (spent.faults < MaxFaults /\ Fault)
    BY <1>5 DEF RecoverRestores, RecoverFails, InstallFails, HelperGivesUp, HelperSpawnFails,
                HelperRestores, HelperSaveFails, MayFail
  <2> QED BY <1>1, <2>1
<1>6. CASE \/ BootFails \/ Ready \/ LoadPending \/ OwnJournal \/ AckLoad \/ AckSave \/ Recover
           \/ Confirm \/ RecoverCleans \/ RecoverClears \/ Suppress \/ RecoverSavesRollback
           \/ StartupApply \/ StopServing \/ Download \/ Backup \/ Swap \/ SaveActivated
           \/ Handoff \/ Exit \/ HaltedExits \/ HelperOpens \/ HelperWaits \/ HelperBacksUp
           \/ HelperSwaps \/ HelperSpawns \/ HelperSeesConfirmed \/ HelperLosesPatience
           \/ HelperKills \/ HelperSavesRollback \/ HelperRestoresBare \/ HelperRelaunches
           \/ HelperCleans \/ HelperClears \/ Apply \/ Publish \/ DeadlinePasses
           \/ UNCHANGED vars
  <2>1. UNCHANGED spent
    BY <1>6
       DEF BootFails, Ready, LoadPending, OwnJournal, AckLoad, AckSave, Recover, Confirm,
           RecoverCleans, RecoverClears, Suppress, RecoverSavesRollback, StartupApply,
           StopServing, Download, Backup, Swap, SaveActivated, Handoff, Exit, HaltedExits,
           HelperOpens, HelperWaits, HelperBacksUp, HelperSwaps, HelperSpawns,
           HelperSeesConfirmed, HelperLosesPatience, HelperKills, HelperSavesRollback,
           HelperRestoresBare, HelperRelaunches, HelperCleans, HelperClears, Apply, Publish,
           DeadlinePasses, vars
  <2> QED BY <1>1, <2>1
<1> QED
  BY <1>2, <1>3, <1>4, <1>5, <1>6 DEF Next, ServerStep, HelperStep

LEMMA HistoryTyped ==
  ASSUME TypeOK, SelectionInv, [Next]_vars
  PROVE  /\ lock' \in {"free", "server", "helper"} /\ latest' \in Versions
         /\ proven' \subseteq Versions /\ owed' \in 0..MaxVersion /\ gaps' \subseteq GapNames
<1>1. lock' \in {lock, "free", "server", "helper"}
  BY DEF Next, vars, ServerStep, HelperStep, BootFails, Ready, LoadPending, OwnJournal, AckLoad,
         AckSave, Recover, Confirm, RecoverCleans, RecoverClears, Suppress, RecoverRestores,
         RecoverSavesRollback, StartupApply, StopServing, Download, Prepare, Backup, Swap,
         SaveActivated, Handoff, Exit, HaltedExits, HelperOpens, HelperWaits, HelperBacksUp,
         HelperSwaps, HelperGivesUp, HelperSpawns, HelperSeesConfirmed, HelperLosesPatience,
         HelperKills, HelperRestores, HelperSavesRollback, HelperRestoresBare, HelperRelaunches,
         HelperCleans, HelperClears, Start, Apply, RecoverFails, InstallFails, HelperSpawnFails,
         HelperSaveFails, Publish, DeadlinePasses, Crash, Release
<1>2. latest' = latest \/ (latest < MaxVersion /\ latest' = latest + 1)
  BY DEF Next, vars, ServerStep, HelperStep, BootFails, Ready, LoadPending, OwnJournal, AckLoad,
         AckSave, Recover, Confirm, RecoverCleans, RecoverClears, Suppress, RecoverRestores,
         RecoverSavesRollback, StartupApply, StopServing, Download, Prepare, Backup, Swap,
         SaveActivated, Handoff, Exit, HaltedExits, HelperOpens, HelperWaits, HelperBacksUp,
         HelperSwaps, HelperGivesUp, HelperSpawns, HelperSeesConfirmed, HelperLosesPatience,
         HelperKills, HelperRestores, HelperSavesRollback, HelperRestoresBare, HelperRelaunches,
         HelperCleans, HelperClears, Start, Apply, RecoverFails, InstallFails, HelperSpawnFails,
         HelperSaveFails, Publish, DeadlinePasses, Crash
<1>3. \/ proven' = proven
      \/ srv.pc \in {"ackSave", "confirm"} /\ proven' = proven \cup {srv.ver}
  BY DEF Next, vars, ServerStep, HelperStep, BootFails, Ready, LoadPending, OwnJournal, AckLoad,
         AckSave, Recover, Confirm, RecoverCleans, RecoverClears, Suppress, RecoverRestores,
         RecoverSavesRollback, StartupApply, StopServing, Download, Prepare, Backup, Swap,
         SaveActivated, Handoff, Exit, HaltedExits, HelperOpens, HelperWaits, HelperBacksUp,
         HelperSwaps, HelperGivesUp, HelperSpawns, HelperSeesConfirmed, HelperLosesPatience,
         HelperKills, HelperRestores, HelperSavesRollback, HelperRestoresBare, HelperRelaunches,
         HelperCleans, HelperClears, Start, Apply, RecoverFails, InstallFails, HelperSpawnFails,
         HelperSaveFails, Publish, DeadlinePasses, Crash
<1>4. owed' \in {owed, 0, srv.op.version, helper.op.version}
  BY DEF Next, vars, ServerStep, HelperStep, BootFails, Ready, LoadPending, OwnJournal, AckLoad,
         AckSave, Recover, Confirm, RecoverCleans, RecoverClears, Suppress, RecoverRestores,
         RecoverSavesRollback, StartupApply, StopServing, Download, Prepare, Backup, Swap,
         SaveActivated, Handoff, Exit, HaltedExits, HelperOpens, HelperWaits, HelperBacksUp,
         HelperSwaps, HelperGivesUp, HelperSpawns, HelperSeesConfirmed, HelperLosesPatience,
         HelperKills, HelperRestores, HelperSavesRollback, HelperRestoresBare, HelperRelaunches,
         HelperCleans, HelperClears, Start, Apply, RecoverFails, InstallFails, HelperSpawnFails,
         HelperSaveFails, Publish, DeadlinePasses, Crash
<1>5. gaps' \subseteq gaps \cup GapNames
  BY DEF Next, vars, ServerStep, HelperStep, BootFails, Ready, LoadPending, OwnJournal, AckLoad,
         AckSave, Recover, Confirm, RecoverCleans, RecoverClears, Suppress, RecoverRestores,
         RecoverSavesRollback, StartupApply, StopServing, Download, Prepare, Backup, Swap,
         SaveActivated, Handoff, Exit, HaltedExits, HelperOpens, HelperWaits, HelperBacksUp,
         HelperSwaps, HelperGivesUp, HelperSpawns, HelperSeesConfirmed, HelperLosesPatience,
         HelperKills, HelperRestores, HelperSavesRollback, HelperRestoresBare, HelperRelaunches,
         HelperCleans, HelperClears, Start, Apply, RecoverFails, InstallFails, HelperSpawnFails,
         HelperSaveFails, Publish, DeadlinePasses, Crash, GapNames
<1>6. lock' \in {"free", "server", "helper"}
  BY <1>1, Typing
<1>7. latest' \in Versions
  BY <1>2, Typing, Limits DEF Versions
<1>8. proven' \subseteq Versions
  BY <1>3, Typing DEF SelectionInv, Alive
<1>9. owed' \in 0..MaxVersion
  <2>1. srv.op.version \in 0..MaxVersion /\ helper.op.version \in 0..MaxVersion
    BY Fields, OperationEdits
  <2> QED BY <1>4, <2>1, Typing, Fields
<1> QED BY <1>5, <1>6, <1>7, <1>8, <1>9, Typing

LEMMA TypeStep ==
  ASSUME Basics, [Next]_vars
  PROVE  TypeOK'
BY ServerTyped, JournalTyped, HelperTyped, DiskTyped, SpentTyped, HistoryTyped, ModeStays, Typing
   DEF Basics, TypeOK, Disks, Servers, Helpers, Spendings

-----------------------------------------------------------------------------
(* Who has the lock, and what the processes work on.                       *)

\* The lock has the owner its steps say.
LEMMA LockStep ==
  ASSUME Basics, [Next]_vars
  PROVE  LockInv'
<1>0. /\ srv \in Servers /\ helper \in Helpers /\ lock \in {"free", "server", "helper"}
      /\ srv.pc \in ServerSteps /\ helper.pc \in HelperSteps
  BY Typing DEF Basics, Servers, Helpers
<1> USE DEF Basics, LockInv, OwnSteps, HelperOwns, Servers, Helpers, NoServer, NoHelper,
            ServerSteps, ServingSteps, RecoverSteps, InstallSteps, HelperSteps, Alive
<1>1. CASE Recover
  BY <1>0, <1>1, OwnedSteps DEF Recover, Release
<1>2. CASE Prepare
  <2>1. CASE SetPc("halted") /\ UNCHANGED <<lock, helper>>
    BY <1>0, <2>1, <1>2 DEF SetPc, Prepare
  <2>2. CASE srv' = [srv EXCEPT !.pc = FirstMutation, !.op = journal']
             /\ lock = "free" /\ lock' = "server" /\ helper' = helper
    <3>1. FirstMutation \in {"backup", "save", "swap"}
      BY Platforms DEF FirstMutation
    <3>2. srv'.pc = FirstMutation
      BY <1>0, <2>2
    <3> QED BY <1>0, <2>2, <3>1, <3>2
  <2> QED BY <1>2, <2>1, <2>2 DEF Prepare, Refused
<1>3. CASE OwnJournal
  BY <1>0, <1>3 DEF OwnJournal, SetPc
<1>4. CASE HelperOpens
  BY <1>0, <1>4 DEF HelperOpens
<1>5. CASE Crash
  BY <1>0, <1>5 DEF Crash
<1>6. CASE \/ BootFails \/ Ready
  BY <1>0, <1>6 DEF BootFails, Ready, SetPc
<1>7. CASE \/ LoadPending \/ AckLoad \/ AckSave
  BY <1>0, <1>7 DEF LoadPending, AckLoad, AckSave, SetPc
<1>8. CASE \/ Confirm \/ RecoverCleans \/ RecoverRestores
  BY <1>0, <1>8
     DEF Confirm, SetPc, RecoverCleans, RecoverRestores, Fault
<1>9. CASE \/ StartupApply \/ StopServing \/ Download
  BY <1>0, <1>9
     DEF StartupApply, SetPc, Accept, StopServing, Download
<1>10. CASE \/ RecoverClears \/ Suppress \/ RecoverSavesRollback
  BY <1>0, <1>10
     DEF RecoverClears, SetPc, Release, Suppress, RecoverSavesRollback
<1>11. CASE \/ Backup \/ Swap
  BY <1>0, <1>11 DEF Backup, SetPc, Swap
<1>12. CASE \/ SaveActivated \/ Handoff
  BY <1>0, <1>12 DEF SaveActivated, Handoff, SetPc
<1>13. CASE \/ Exit \/ HaltedExits
  BY <1>0, <1>13 DEF Exit, Release, HaltedExits
<1>14. CASE \/ RecoverFails \/ InstallFails
  BY <1>0, <1>14
     DEF RecoverFails, SetPc, Release, Fault, InstallFails
<1>15. CASE \/ Start \/ Apply
  BY <1>0, <1>15 DEF Start, Launched, Apply, Accept
<1>16. CASE \/ HelperWaits \/ HelperBacksUp \/ HelperSwaps
  BY <1>0, <1>16 DEF HelperWaits, SetHelper, HelperBacksUp, HelperSwaps
<1>17. CASE HelperGivesUp
  BY <1>0, <1>17 DEF HelperGivesUp, Release, Fault
<1>18. CASE HelperSpawns
  <2>1. /\ helper.pc = "spawn" /\ helper'.pc = "await" /\ lock' = lock
        /\ srv'.pc = srv.pc \/ (srv.pc = "dead" /\ srv'.pc = "booting")
    BY <1>0, <1>18 DEF HelperSpawns, SetHelper, Launched
  <2> QED BY <1>0, <2>1
<1>19. CASE \/ HelperSeesConfirmed \/ HelperLosesPatience \/ HelperKills
  BY <1>0, <1>19 DEF HelperSeesConfirmed, SetHelper, HelperLosesPatience, HelperKills
<1>20. CASE HelperRestores
  <2>1. helper.pc = "undo" /\ helper'.pc = "undoSave" /\ UNCHANGED <<lock, srv>>
    BY <1>20 DEF HelperRestores, RolledBack
  <2> QED BY <1>0, <2>1
<1>21. CASE \/ HelperSavesRollback \/ HelperRestoresBare
  BY <1>0, <1>21 DEF HelperSavesRollback, SetHelper, Release, HelperRestoresBare
<1>22. CASE HelperRelaunches
  <2>1. /\ helper.pc = "relaunch" /\ helper'.pc = "off" /\ Release("helper")
        /\ srv'.pc = srv.pc \/ (srv.pc = "dead" /\ srv'.pc = "booting")
    BY <1>0, <1>22 DEF HelperRelaunches, Launched
  <2> QED BY <1>0, <2>1 DEF Release
<1>23. CASE HelperCleans
  BY <1>0, <1>23 DEF HelperCleans, SetHelper
<1>24. CASE \/ HelperClears \/ HelperSpawnFails
  BY <1>0, <1>24
     DEF HelperClears, Release, HelperSpawnFails, SetHelper, Fault
<1>25. CASE HelperSaveFails
  BY <1>0, <1>25 DEF HelperSaveFails, Release, Fault
<1>26. CASE \/ Publish \/ DeadlinePasses \/ UNCHANGED vars
  BY <1>0, <1>26 DEF Publish, DeadlinePasses, vars
<1> QED BY <1>1, <1>2, <1>3, <1>4, <1>5, <1>6, <1>7, <1>8, <1>9, <1>10, <1>11, <1>12,
           <1>13, <1>14, <1>15, <1>16, <1>17, <1>18, <1>19, <1>20, <1>21, <1>22, <1>23,
           <1>24, <1>25, <1>26 DEF Next, ServerStep, HelperStep

\* What a recovery found when it goes on with a step.
LEMMA OwnedStepFinds ==
  ASSUME NEW op
  PROVE  /\ OwnedStep(op) = "confirm" =>
              op.phase = "activated" /\ Activated(op) /\ srv.ver = op.version
         /\ OwnedStep(op) = "undo" =>
              \/ op.phase = "staged" /\ Activated(op)
              \/ op.phase = "activated" /\ (Activated(op) \/ ~Pristine(op))
         /\ OwnedStep(op) = "clean" =>
              \/ op.phase = "confirmed"
              \/ op.phase \in {"staged", "activated"} /\ ~Activated(op)
         /\ OwnedStep(op) = "suppress" => op.phase = "rolled-back" /\ ~op.failed
         /\ OwnedStep(op) = "check" => op.phase # "rolled-back" \/ op.failed
BY DEF OwnedStep, EvaluateRecovery, NoOp

\* What an accepted installation writes down.
LEMMA PrepareWrites ==
  ASSUME TypeOK, Prepare
  PROVE  \/ /\ srv'.pc = "halted" /\ srv'.op = srv.op
            /\ srv'.ver = srv.ver /\ srv'.child = srv.child
            /\ UNCHANGED <<disk, journal, lock, spent>>
         \/ /\ lock = "free" /\ ~(journal.phase \in {"staged", "activated"})
            /\ srv'.pc = FirstMutation /\ FirstMutation \in {"backup", "save", "swap"}
            /\ srv'.op = journal' /\ srv'.sel = srv.sel
            /\ srv'.ver = srv.ver /\ srv'.child = srv.child
            /\ journal'.phase = "staged" /\ journal'.version = srv.sel /\ ~journal'.failed
            /\ journal'.prior = IF platform = "bundle" THEN 0 ELSE disk.live
            /\ disk' = PreparedDisk /\ lock' = "server"
<1>0. srv \in Servers /\ FirstMutation \in {"backup", "save", "swap"}
  BY Typing, Platforms DEF FirstMutation
<1>1. CASE SetPc("halted") /\ UNCHANGED <<disk, journal, lock, spent>>
  BY <1>0, <1>1 DEF SetPc, Servers
<1>2. CASE /\ ~Refused /\ lock' = "server" /\ disk' = PreparedDisk
           /\ srv' = [srv EXCEPT !.pc = FirstMutation, !.op = journal']
           /\ journal' = [NoOp EXCEPT !.id = spent.ops + 1, !.phase = "staged",
                                      !.version = srv.sel,
                                      !.prior = IF platform = "bundle" THEN 0 ELSE disk.live]
  <2>1. /\ srv'.pc = FirstMutation /\ srv'.op = journal' /\ srv'.sel = srv.sel
        /\ srv'.ver = srv.ver /\ srv'.child = srv.child
    BY <1>0, <1>2 DEF Servers
  <2>2. /\ journal'.phase = "staged" /\ journal'.version = srv.sel /\ ~journal'.failed
        /\ journal'.prior = IF platform = "bundle" THEN 0 ELSE disk.live
    BY <1>2 DEF NoOp
  <2> QED BY <1>0, <1>2, <2>1, <2>2 DEF Refused
<1> QED BY <1>1, <1>2 DEF Prepare

\* An installation works on the release it selected.
LEMMA SelectionStep ==
  ASSUME Basics, [Next]_vars
  PROVE  SelectionInv'
<1>0. /\ srv \in Servers /\ helper \in Helpers /\ disk \in Disks /\ journal \in Operations
      /\ srv.op \in Operations /\ mode' = mode /\ platform' = platform
      /\ platform \in {"posix", "windows", "bundle"}
      /\ disk.live \in Versions /\ latest \in Versions /\ Versions \subseteq Nat
  BY Typing, ModeStays, Platforms, Fields DEF Basics, Versions
<1> USE DEF Basics, SelectionInv, Servers, Helpers, Disks, NoServer, NoHelper, LockInv,
            OwnSteps, HelperOwns, HelperSteps, Alive
<1>1. CASE \/ LoadPending \/ AckLoad
  BY <1>0, <1>1 DEF LoadPending, AckLoad
<1>2. CASE Recover
  <2>1. srv'.pc = OwnedStep(journal) /\ srv'.ver = srv.ver /\ srv.pc = "own"
    BY <1>0, <1>2 DEF Recover
  <2>2. srv'.pc \in {"check", "confirm", "undo", "clean", "suppress"}
    BY <2>1, OwnedSteps
  <2> QED BY <1>0, <2>1, <2>2
<1>3. CASE OwnJournal
  BY <1>0, <1>3 DEF OwnJournal, SetPc
<1>4. CASE AckSave
  BY <1>0, <1>4 DEF AckSave, SetPc
<1>5. CASE Confirm
  BY <1>0, <1>5 DEF Confirm, SetPc
<1>6. CASE RecoverCleans
  BY <1>0, <1>6 DEF RecoverCleans, SetPc
<1>7. CASE \/ RecoverClears \/ Suppress
  BY <1>0, <1>7 DEF RecoverClears, SetPc, Release, Suppress
<1>8. CASE RecoverRestores
  BY <1>0, <1>8 DEF RecoverRestores, RolledBack
<1>9. CASE RecoverSavesRollback
  BY <1>0, <1>9 DEF RecoverSavesRollback, SetPc, Release
<1>10. CASE \/ BootFails \/ Ready \/ StopServing \/ Download
  BY <1>0, <1>10
     DEF BootFails, Ready, SetPc, StopServing, Download
<1>11. CASE StartupApply
  BY <1>0, <1>11 DEF StartupApply, SetPc, Accept
<1>12. CASE Apply
  BY <1>0, <1>12 DEF Apply, Accept
<1>13. CASE Prepare
  <2>1. CASE srv'.pc = "halted"
    <3>1. srv'.ver = srv.ver /\ srv.pc = "prepare"
      BY <1>13, <2>1, PrepareWrites DEF Prepare
    <3> QED BY <1>0, <2>1, <3>1
  <2>2. CASE srv'.pc # "halted"
    <3>1. srv.pc = "prepare" /\ srv'.ver = srv.ver /\ srv'.sel = srv.sel
          /\ srv'.op = journal' /\ journal'.phase = "staged" /\ journal'.version = srv.sel
          /\ srv'.pc = FirstMutation /\ disk' = PreparedDisk
      BY <1>13, <2>2, PrepareWrites DEF Prepare
    <3>2. /\ FirstMutation = "backup" => platform = "posix"
          /\ FirstMutation = "swap" => platform = "bundle"
          /\ FirstMutation \in {"backup", "save", "swap"}
      BY <1>0 DEF FirstMutation
    <3>3. platform = "posix" => disk'.staged = srv.sel
      BY <1>0, <3>1 DEF PreparedDisk
    <3>4. platform = "bundle" => disk'.backup = srv.sel
      BY <1>0, <3>1 DEF PreparedDisk
    <3> QED BY <1>0, <3>1, <3>2, <3>3, <3>4
  <2> QED BY <2>1, <2>2
<1>14. CASE Backup
  BY <1>0, <1>14 DEF Backup, SetPc
<1>15. CASE Swap
  BY <1>0, <1>15 DEF Swap, SetPc
<1>16. CASE SaveActivated
  BY <1>0, <1>16 DEF SaveActivated
<1>17. CASE \/ Handoff \/ Exit \/ HaltedExits
  BY <1>0, <1>17
     DEF Handoff, SetPc, Exit, Release, HaltedExits
<1>18. CASE RecoverFails
  BY <1>0, <1>18 DEF RecoverFails, SetPc, Release, Fault
<1>19. CASE InstallFails
  <2>1. srv'.pc = "halted" /\ srv'.ver = srv.ver /\ srv.pc # "dead"
    BY <1>0, <1>19 DEF InstallFails, SetPc, InstallSteps
  <2> QED BY <1>0, <2>1
<1>20. CASE Start
  BY <1>0, <1>20 DEF Start, Launched
<1>21. CASE Crash
  BY <1>0, <1>21 DEF Crash
<1>22. CASE \/ HelperOpens \/ HelperWaits
  BY <1>0, <1>22 DEF HelperOpens, HelperWaits, SetHelper
<1>23. CASE HelperBacksUp
  BY <1>0, <1>23 DEF HelperBacksUp, SetHelper
<1>24. CASE HelperSwaps
  BY <1>0, <1>24 DEF HelperSwaps, SetHelper
<1>25. CASE HelperGivesUp
  BY <1>0, <1>25 DEF HelperGivesUp, Release, Fault
<1>26. CASE HelperSpawns
  BY <1>0, <1>26 DEF HelperSpawns, SetHelper, Launched
<1>27. CASE \/ HelperSeesConfirmed \/ HelperLosesPatience \/ HelperKills
  BY <1>0, <1>27 DEF HelperSeesConfirmed, SetHelper, HelperLosesPatience, HelperKills
<1>28. CASE HelperRestores
  BY <1>0, <1>28 DEF HelperRestores, RolledBack
<1>29. CASE HelperSavesRollback
  BY <1>0, <1>29 DEF HelperSavesRollback, SetHelper, Release
<1>30. CASE HelperRestoresBare
  BY <1>0, <1>30 DEF HelperRestoresBare, SetHelper, Release
<1>31. CASE HelperRelaunches
  BY <1>0, <1>31 DEF HelperRelaunches, Release, Launched
<1>32. CASE HelperCleans
  BY <1>0, <1>32 DEF HelperCleans, SetHelper
<1>33. CASE HelperClears
  BY <1>0, <1>33 DEF HelperClears, Release
<1>34. CASE HelperSpawnFails
  BY <1>0, <1>34 DEF HelperSpawnFails, SetHelper, Fault
<1>35. CASE HelperSaveFails
  BY <1>0, <1>35 DEF HelperSaveFails, Release, Fault
<1>36. CASE Publish
  BY <1>0, <1>36 DEF Publish
<1>37. CASE DeadlinePasses
  BY <1>0, <1>37 DEF DeadlinePasses
<1>38. CASE UNCHANGED vars
  BY <1>0, <1>38 DEF vars
<1> QED BY <1>1, <1>2, <1>3, <1>4, <1>5, <1>6, <1>7, <1>8, <1>9, <1>10, <1>11, <1>12,
           <1>13, <1>14, <1>15, <1>16, <1>17, <1>18, <1>19, <1>20, <1>21, <1>22, <1>23,
           <1>24, <1>25, <1>26, <1>27, <1>28, <1>29, <1>30, <1>31, <1>32, <1>33, <1>34,
           <1>35, <1>36, <1>37, <1>38 DEF Next, ServerStep, HelperStep

\* A recovery works on the operation the journal holds.
LEMMA RecoveryStep ==
  ASSUME Basics, [Next]_vars
  PROVE  RecoveryInv'
<1>0. /\ srv \in Servers /\ helper \in Helpers /\ disk \in Disks /\ journal \in Operations
      /\ srv.op \in Operations /\ mode' = mode /\ platform' = platform
      /\ platform \in {"posix", "windows", "bundle"}
      /\ disk.live \in Versions /\ latest \in Versions /\ Versions \subseteq Nat
  BY Typing, ModeStays, Platforms, Fields DEF Basics, Versions
<1> USE DEF Basics, RecoveryInv, HelperInv, Servers, Helpers, Disks, NoServer, NoHelper,
            NoOp, LockInv, OwnSteps, HelperOwns, HelperSteps, OnTrial, Unsettled,
            HelperTrial, Alive
<1>1. CASE LoadPending
  <2>1. /\ srv'.pc \in {"check", "pending"} /\ srv'.op = journal /\ srv'.ver = srv.ver
        /\ UNCHANGED <<mode, disk, journal, lock, helper, latest, spent, proven, owed, gaps>>
    BY <1>0, <1>1 DEF LoadPending
  <2> QED BY <1>0, <1>1, <2>1 DEF LoadPending
<1>1b. CASE AckLoad
  BY <1>0, <1>1b DEF AckLoad
<1>2. CASE Recover
  <2>1. srv'.pc = OwnedStep(journal) /\ srv'.op = journal /\ srv'.ver = srv.ver /\ journal' = journal
    BY <1>0, <1>2 DEF Recover
  <2> QED BY <1>0, <2>1, OwnedSteps, OwnedStepFinds
<1>3. CASE OwnJournal
  BY <1>0, <1>3 DEF OwnJournal, SetPc
<1>4. CASE AckSave
  <2>1. srv'.pc = "check"
    BY <1>0, <1>4 DEF AckSave, SetPc
  <2> QED BY <2>1
<1>5. CASE Confirm
  <2>1. /\ srv.pc = "confirm" /\ srv'.pc = "clean" /\ srv'.op = srv.op /\ helper' = helper
        /\ journal' = [srv.op EXCEPT !.phase = "confirmed"]
    BY <1>0, <1>5 DEF Confirm, SetPc
  <2>2. journal'.version = srv.op.version /\ journal'.prior = srv.op.prior
    BY <1>0, <2>1 DEF Operations
  <2> QED BY <1>0, <2>1, <2>2
<1>6. CASE RecoverCleans
  BY <1>0, <1>6 DEF RecoverCleans, SetPc
<1>7. CASE \/ RecoverClears \/ Suppress
  BY <1>0, <1>7 DEF RecoverClears, SetPc, Release, Suppress
<1>8. CASE RecoverRestores
  <2>0. /\ srv.pc = "undo" /\ UNCHANGED <<journal, helper>>
        /\ \E b \in BOOLEAN :
             srv' = [srv EXCEPT !.pc = "undoSave",
                                !.op = [srv.op EXCEPT !.phase = "rolled-back", !.failed = b]]
    BY <1>8 DEF RecoverRestores, RolledBack
  <2>1. /\ srv'.pc = "undoSave" /\ srv'.op.phase = "rolled-back"
        /\ srv'.op.version = srv.op.version /\ srv'.op.prior = srv.op.prior
    <3>1. PICK b \in BOOLEAN :
            srv' = [srv EXCEPT !.pc = "undoSave",
                               !.op = [srv.op EXCEPT !.phase = "rolled-back", !.failed = b]]
      BY <2>0
    <3>2. srv'.pc = "undoSave" /\ srv'.op = [srv.op EXCEPT !.phase = "rolled-back", !.failed = b]
      BY <1>0, <3>1
    <3> QED BY <1>0, <3>2 DEF Operations
  <2> QED BY <1>0, <2>0, <2>1
<1>9. CASE RecoverSavesRollback
  BY <1>0, <1>9 DEF RecoverSavesRollback, SetPc, Release
<1>10. CASE \/ BootFails \/ Ready \/ StopServing \/ Download
  BY <1>0, <1>10
     DEF BootFails, Ready, SetPc, StopServing, Download
<1>11. CASE StartupApply
  BY <1>0, <1>11 DEF StartupApply, SetPc, Accept
<1>12. CASE Apply
  BY <1>0, <1>12 DEF Apply, Accept
<1>13. CASE Prepare
  <2>1. srv'.pc \in {"halted", "backup", "save", "swap"}
    BY <1>13, PrepareWrites
  <2> QED BY <2>1
<1>14. CASE Backup
  BY <1>0, <1>14 DEF Backup, SetPc
<1>15. CASE Swap
  BY <1>0, <1>15 DEF Swap, SetPc
<1>16. CASE SaveActivated
  BY <1>0, <1>16 DEF SaveActivated
<1>17. CASE \/ Handoff \/ Exit \/ HaltedExits
  BY <1>0, <1>17
     DEF Handoff, SetPc, Exit, Release, HaltedExits
<1>18. CASE RecoverFails
  BY <1>0, <1>18 DEF RecoverFails, SetPc, Release, Fault
<1>19. CASE InstallFails
  BY <1>0, <1>19 DEF InstallFails, SetPc, Release, Fault
<1>20. CASE Start
  BY <1>0, <1>20 DEF Start, Launched
<1>21. CASE Crash
  BY <1>0, <1>21 DEF Crash
<1>22. CASE \/ HelperOpens \/ HelperWaits
  BY <1>0, <1>22 DEF HelperOpens, HelperWaits, SetHelper
<1>23. CASE HelperBacksUp
  BY <1>0, <1>23 DEF HelperBacksUp, SetHelper
<1>24. CASE HelperSwaps
  BY <1>0, <1>24 DEF HelperSwaps, SetHelper
<1>25. CASE HelperGivesUp
  BY <1>0, <1>25 DEF HelperGivesUp, Release, Fault
<1>26. CASE HelperSpawns
  BY <1>0, <1>26 DEF HelperSpawns, SetHelper, Launched
<1>27. CASE \/ HelperSeesConfirmed \/ HelperLosesPatience \/ HelperKills
  BY <1>0, <1>27 DEF HelperSeesConfirmed, SetHelper, HelperLosesPatience, HelperKills
<1>28. CASE HelperRestores
  BY <1>0, <1>28 DEF HelperRestores, RolledBack
<1>29. CASE HelperSavesRollback
  BY <1>0, <1>29 DEF HelperSavesRollback, SetHelper, Release
<1>30. CASE HelperRestoresBare
  BY <1>0, <1>30 DEF HelperRestoresBare, SetHelper, Release
<1>31. CASE HelperRelaunches
  BY <1>0, <1>31 DEF HelperRelaunches, Release, Launched
<1>32. CASE HelperCleans
  BY <1>0, <1>32 DEF HelperCleans, SetHelper
<1>33. CASE HelperClears
  BY <1>0, <1>33 DEF HelperClears, Release
<1>34. CASE HelperSpawnFails
  BY <1>0, <1>34 DEF HelperSpawnFails, SetHelper, Fault
<1>35. CASE HelperSaveFails
  BY <1>0, <1>35 DEF HelperSaveFails, Release, Fault
<1>36. CASE Publish
  BY <1>0, <1>36 DEF Publish
<1>37. CASE DeadlinePasses
  BY <1>0, <1>37 DEF DeadlinePasses
<1>38. CASE UNCHANGED vars
  BY <1>0, <1>38 DEF vars
<1> QED BY <1>1, <1>1b, <1>2, <1>3, <1>4, <1>5, <1>6, <1>7, <1>8, <1>9, <1>10, <1>11, <1>12,
           <1>13, <1>14, <1>15, <1>16, <1>17, <1>18, <1>19, <1>20, <1>21, <1>22, <1>23,
           <1>24, <1>25, <1>26, <1>27, <1>28, <1>29, <1>30, <1>31, <1>32, <1>33, <1>34,
           <1>35, <1>36, <1>37, <1>38 DEF Next, ServerStep, HelperStep

-----------------------------------------------------------------------------
(* What the steps do, field by field.                                      *)

\* The server goes on at pc, is gone, or starts; the helper likewise.
Goes(pc) == /\ srv'.pc = pc /\ srv'.ver = srv.ver /\ srv'.sel = srv.sel
            /\ srv'.child = srv.child /\ srv'.op = srv.op
Gone == srv'.pc = "dead" /\ ~srv'.child /\ ~srv'.op.failed
Boots == srv'.pc = "booting" /\ srv'.ver = disk.live /\ ~srv'.op.failed
HelperGoes(pc) == helper'.pc = pc /\ helper'.op = helper.op
HelperGone == helper'.pc = "off" /\ ~helper'.op.failed

LEMMA ServerMoves ==
  ASSUME TypeOK
  PROVE  /\ \A pc : SetPc(pc) => Goes(pc)
         /\ srv' = NoServer => Gone
         /\ srv' = Accept => /\ srv'.pc = "stop" /\ srv'.ver = srv.ver /\ srv'.sel = latest
                             /\ srv'.child = srv.child /\ srv'.op = srv.op
<1>1. srv \in Servers
  BY Typing
<1>2. ASSUME NEW pc, SetPc(pc)
      PROVE  Goes(pc)
  BY <1>1, <1>2 DEF SetPc, Goes, Servers
<1>3. srv' = NoServer => Gone
  BY DEF NoServer, NoOp, Gone
<1>4. ASSUME srv' = Accept
      PROVE  /\ srv'.pc = "stop" /\ srv'.ver = srv.ver /\ srv'.sel = latest
             /\ srv'.child = srv.child /\ srv'.op = srv.op
  BY <1>1, <1>4 DEF Accept, Servers
<1> QED BY <1>2, <1>3, <1>4

LEMMA HelperMoves ==
  ASSUME TypeOK
  PROVE  /\ \A pc : SetHelper(pc) => HelperGoes(pc)
         /\ helper' = NoHelper => HelperGone
<1>1. helper \in Helpers
  BY Typing
<1>2. ASSUME NEW pc, SetHelper(pc)
      PROVE  HelperGoes(pc)
  BY <1>1, <1>2 DEF SetHelper, HelperGoes, Helpers
<1>3. helper' = NoHelper => HelperGone
  BY DEF NoHelper, NoOp, HelperGone
<1> QED BY <1>2, <1>3

LEMMA DiskMoves ==
  ASSUME TypeOK
  PROVE  /\ disk' = Cleaned => disk'.live = disk.live /\ disk'.backup = 0 /\ disk'.staged = 0
         /\ disk' = [disk EXCEPT !.backup = disk.live] =>
              disk'.live = disk.live /\ disk'.backup = disk.live /\ disk'.staged = disk.staged
         /\ disk' = Swapped =>
              IF platform = "bundle"
              THEN disk'.live = disk.backup /\ disk'.backup = disk.live /\ disk'.staged = disk.staged
              ELSE disk'.live = disk.staged /\ disk'.backup = disk.backup /\ disk'.staged = 0
         /\ disk' = Restored =>
              /\ disk'.live = disk.backup /\ disk'.staged = disk.staged
              /\ disk'.backup = IF platform = "bundle" THEN disk.live ELSE 0
         /\ disk' = PreparedDisk =>
              /\ disk'.live = disk.live
              /\ disk'.backup = IF platform = "bundle" THEN srv.sel ELSE 0
              /\ disk'.staged = IF platform = "bundle" THEN 0 ELSE srv.sel
<1>1. disk \in Disks
  BY Typing
<1> USE DEF Disks
<1>2. disk' = Cleaned => disk'.live = disk.live /\ disk'.backup = 0 /\ disk'.staged = 0
  BY <1>1 DEF Cleaned
<1>3. disk' = [disk EXCEPT !.backup = disk.live] =>
        disk'.live = disk.live /\ disk'.backup = disk.live /\ disk'.staged = disk.staged
  BY <1>1
<1>4. disk' = Swapped =>
        IF platform = "bundle"
        THEN disk'.live = disk.backup /\ disk'.backup = disk.live /\ disk'.staged = disk.staged
        ELSE disk'.live = disk.staged /\ disk'.backup = disk.backup /\ disk'.staged = 0
  BY <1>1 DEF Swapped, Exchanged
<1>5. disk' = Restored =>
        /\ disk'.live = disk.backup /\ disk'.staged = disk.staged
        /\ disk'.backup = IF platform = "bundle" THEN disk.live ELSE 0
  BY <1>1 DEF Restored, Exchanged
<1>6. disk' = PreparedDisk =>
        /\ disk'.live = disk.live
        /\ disk'.backup = IF platform = "bundle" THEN srv.sel ELSE 0
        /\ disk'.staged = IF platform = "bundle" THEN 0 ELSE srv.sel
  BY <1>1 DEF PreparedDisk
<1> QED BY <1>2, <1>3, <1>4, <1>5, <1>6

LEMMA JournalMoves ==
  ASSUME TypeOK
  PROVE  /\ journal' = [srv.op EXCEPT !.phase = "confirmed"] =>
              /\ journal'.phase = "confirmed" /\ journal'.version = srv.op.version
              /\ journal'.prior = srv.op.prior /\ journal'.failed = srv.op.failed
         /\ journal' = [journal EXCEPT !.late = TRUE] =>
              /\ journal'.phase = journal.phase /\ journal'.version = journal.version
              /\ journal'.prior = journal.prior /\ journal'.failed = journal.failed
         /\ journal' = NoOp => journal'.phase = "none" /\ ~journal'.failed
<1>1. srv.op \in Operations /\ journal \in Operations
  BY Fields
<1>2. journal' = [srv.op EXCEPT !.phase = "confirmed"] =>
        /\ journal'.phase = "confirmed" /\ journal'.version = srv.op.version
        /\ journal'.prior = srv.op.prior /\ journal'.failed = srv.op.failed
  BY <1>1 DEF Operations
<1>3. journal' = [journal EXCEPT !.late = TRUE] =>
        /\ journal'.phase = journal.phase /\ journal'.version = journal.version
        /\ journal'.prior = journal.prior /\ journal'.failed = journal.failed
  BY <1>1 DEF Operations
<1>4. journal' = NoOp => journal'.phase = "none" /\ ~journal'.failed
  BY DEF NoOp
<1> QED BY <1>2, <1>3, <1>4

\* The steps that write a record into a process.
LEMMA Launches ==
  ASSUME TypeOK
  PROVE  /\ Start => srv.pc = "dead" /\ Boots /\ ~srv'.child
         /\ HelperSpawns => IF Alive THEN srv' = srv ELSE Boots
         /\ HelperRelaunches => IF Alive THEN srv' = srv ELSE Boots /\ ~srv'.child
<1>1. Start => srv.pc = "dead" /\ Boots /\ ~srv'.child
  BY DEF Start, Launched, Boots, NoServer, NoOp, Alive
<1>2. HelperSpawns => IF Alive THEN srv' = srv ELSE Boots
  BY DEF HelperSpawns, Launched, Boots, NoServer, NoOp
<1>3. HelperRelaunches => IF Alive THEN srv' = srv ELSE Boots /\ ~srv'.child
  BY DEF HelperRelaunches, Launched, Boots, NoServer, NoOp
<1> QED BY <1>1, <1>2, <1>3

LEMMA LoadMoves ==
  ASSUME TypeOK
  PROVE  /\ LoadPending =>
              /\ srv'.pc \in {"check", "pending"} /\ srv'.op = journal
              /\ srv'.ver = srv.ver /\ srv'.sel = srv.sel /\ srv'.child = srv.child
         /\ AckLoad =>
              /\ \/ /\ srv'.pc = "ackSave" /\ srv'.op = journal /\ journal.phase = "activated"
                 \/ srv'.pc = "check" /\ srv'.op = srv.op
              /\ srv'.ver = srv.ver /\ srv'.sel = srv.sel /\ srv'.child = srv.child
         /\ Recover =>
              /\ srv'.pc = OwnedStep(journal) /\ srv'.op = journal
              /\ srv'.ver = srv.ver /\ srv'.sel = srv.sel /\ srv'.child = srv.child
<1>1. srv \in Servers
  BY Typing
<1>2. LoadPending =>
        /\ srv'.pc \in {"check", "pending"} /\ srv'.op = journal
        /\ srv'.ver = srv.ver /\ srv'.sel = srv.sel /\ srv'.child = srv.child
  BY <1>1 DEF LoadPending, Servers
<1>3. AckLoad =>
        /\ \/ /\ srv'.pc = "ackSave" /\ srv'.op = journal /\ journal.phase = "activated"
           \/ srv'.pc = "check" /\ srv'.op = srv.op
        /\ srv'.ver = srv.ver /\ srv'.sel = srv.sel /\ srv'.child = srv.child
  BY <1>1 DEF AckLoad, Servers
<1>4. Recover =>
        /\ srv'.pc = OwnedStep(journal) /\ srv'.op = journal
        /\ srv'.ver = srv.ver /\ srv'.sel = srv.sel /\ srv'.child = srv.child
  BY <1>1 DEF Recover, Servers
<1> QED BY <1>2, <1>3, <1>4

LEMMA RestoreMoves ==
  ASSUME TypeOK, RecoverRestores
  PROVE  /\ srv.pc = "undo" /\ srv'.pc = "undoSave"
         /\ srv'.op.version = srv.op.version /\ srv'.op.prior = srv.op.prior
         /\ srv'.op.phase = "rolled-back"
         /\ srv'.ver = srv.ver /\ srv'.sel = srv.sel /\ srv'.child = srv.child
         /\ UNCHANGED <<journal, lock, helper, latest, proven>>
         /\ \/ /\ Restorable /\ disk' = Restored /\ ~srv'.op.failed
               /\ owed' = srv.op.version /\ gaps' = gaps
            \/ /\ srv'.op.failed /\ gaps' = gaps \cup {"repair"} /\ UNCHANGED <<disk, owed>>
<1>1. srv \in Servers /\ srv.op \in Operations
  BY Typing, Fields
<1>2. ASSUME NEW b \in BOOLEAN,
             srv' = [srv EXCEPT !.pc = "undoSave",
                                !.op = [srv.op EXCEPT !.phase = "rolled-back", !.failed = b]]
      PROVE  /\ srv'.pc = "undoSave" /\ srv'.op.version = srv.op.version
             /\ srv'.op.prior = srv.op.prior /\ srv'.op.phase = "rolled-back"
             /\ srv'.op.failed = b
             /\ srv'.ver = srv.ver /\ srv'.sel = srv.sel /\ srv'.child = srv.child
  BY <1>1, <1>2 DEF Servers, Operations
<1>3. CASE /\ Restorable /\ disk' = Restored /\ UNCHANGED gaps /\ owed' = srv.op.version
           /\ srv' = [srv EXCEPT !.pc = "undoSave",
                                 !.op = [srv.op EXCEPT !.phase = "rolled-back", !.failed = FALSE]]
  <2>1. /\ srv'.pc = "undoSave" /\ srv'.op.version = srv.op.version
        /\ srv'.op.prior = srv.op.prior /\ srv'.op.phase = "rolled-back" /\ ~srv'.op.failed
        /\ srv'.ver = srv.ver /\ srv'.sel = srv.sel /\ srv'.child = srv.child
    BY <1>2, <1>3
  <2> QED BY <1>3, <2>1 DEF RecoverRestores
<1>4. CASE /\ gaps' = gaps \cup {"repair"} /\ UNCHANGED <<disk, owed>>
           /\ srv' = [srv EXCEPT !.pc = "undoSave",
                                 !.op = [srv.op EXCEPT !.phase = "rolled-back", !.failed = TRUE]]
  <2>1. /\ srv'.pc = "undoSave" /\ srv'.op.version = srv.op.version
        /\ srv'.op.prior = srv.op.prior /\ srv'.op.phase = "rolled-back" /\ srv'.op.failed
        /\ srv'.ver = srv.ver /\ srv'.sel = srv.sel /\ srv'.child = srv.child
    BY <1>2, <1>4
  <2> QED BY <1>4, <2>1 DEF RecoverRestores
<1> QED BY <1>3, <1>4 DEF RecoverRestores, RolledBack

LEMMA ActivationMoves ==
  ASSUME TypeOK, SaveActivated
  PROVE  /\ srv.pc = "save" /\ srv'.pc = "handoff" /\ srv'.op = journal'
         /\ srv'.ver = srv.ver /\ srv'.sel = srv.sel /\ srv'.child = srv.child
         /\ journal'.phase = "activated" /\ journal'.version = srv.op.version
         /\ journal'.prior = srv.op.prior /\ journal'.failed = srv.op.failed
         /\ UNCHANGED <<disk, lock, helper, latest, proven, owed, gaps>>
<1>1. srv \in Servers /\ srv.op \in Operations
  BY Typing, Fields
<1>2. srv'.pc = "handoff" /\ srv'.op = journal'
      /\ srv'.ver = srv.ver /\ srv'.sel = srv.sel /\ srv'.child = srv.child
  BY <1>1 DEF SaveActivated, Servers
<1>3. /\ journal'.phase = "activated" /\ journal'.version = srv.op.version
      /\ journal'.prior = srv.op.prior /\ journal'.failed = srv.op.failed
  BY <1>1 DEF SaveActivated, Operations
<1> QED BY <1>2, <1>3 DEF SaveActivated

LEMMA HelperRestoreMoves ==
  ASSUME TypeOK, HelperRestores
  PROVE  /\ helper.pc = "undo" /\ helper'.pc = "undoSave"
         /\ helper'.op.version = helper.op.version /\ helper'.op.prior = helper.op.prior
         /\ helper'.op.phase = "rolled-back"
         /\ UNCHANGED <<journal, lock, srv, latest, proven>>
         /\ \/ /\ Restorable /\ disk' = Restored /\ ~helper'.op.failed
               /\ owed' = helper.op.version
               /\ gaps' = IF journal.phase = "confirmed" THEN gaps \cup {"undone"} ELSE gaps
            \/ /\ helper'.op.failed /\ gaps' = gaps \cup {"repair"} /\ UNCHANGED <<disk, owed>>
<1>1. helper.op \in Operations
  BY Fields
<1>2. ASSUME NEW b \in BOOLEAN,
             helper' = [pc |-> "undoSave",
                        op |-> [helper.op EXCEPT !.phase = "rolled-back", !.failed = b]]
      PROVE  /\ helper'.pc = "undoSave" /\ helper'.op.version = helper.op.version
             /\ helper'.op.prior = helper.op.prior /\ helper'.op.phase = "rolled-back"
             /\ helper'.op.failed = b
  BY <1>1, <1>2 DEF Operations
<1>3. CASE /\ Restorable /\ disk' = Restored /\ owed' = helper.op.version
           /\ gaps' = IF journal.phase = "confirmed" THEN gaps \cup {"undone"} ELSE gaps
           /\ helper' = [pc |-> "undoSave",
                         op |-> [helper.op EXCEPT !.phase = "rolled-back", !.failed = FALSE]]
  <2>1. /\ helper'.pc = "undoSave" /\ helper'.op.version = helper.op.version
        /\ helper'.op.prior = helper.op.prior /\ helper'.op.phase = "rolled-back"
        /\ ~helper'.op.failed
    BY <1>2, <1>3
  <2> QED BY <1>3, <2>1 DEF HelperRestores
<1>4. CASE /\ gaps' = gaps \cup {"repair"} /\ UNCHANGED <<disk, owed>>
           /\ helper' = [pc |-> "undoSave",
                         op |-> [helper.op EXCEPT !.phase = "rolled-back", !.failed = TRUE]]
  <2>1. /\ helper'.pc = "undoSave" /\ helper'.op.version = helper.op.version
        /\ helper'.op.prior = helper.op.prior /\ helper'.op.phase = "rolled-back"
        /\ helper'.op.failed
    BY <1>2, <1>4
  <2> QED BY <1>4, <2>1 DEF HelperRestores
<1> QED BY <1>3, <1>4 DEF HelperRestores, RolledBack

LEMMA OpeningMoves ==
  ASSUME TypeOK
  PROVE  /\ Handoff => helper' = helper \/ (helper'.pc = "lock" /\ ~helper'.op.failed)
         /\ HelperOpens =>
              \/ /\ helper'.pc = "wait" /\ helper'.op = journal /\ gaps' = gaps
                 /\ lock = "free" /\ journal.phase = "activated"
              \/ HelperGone
BY DEF Handoff, HelperOpens, NoHelper, NoOp, HelperGone

\* The helper works on the operation the journal holds.
LEMMA HelperStepWorks ==
  ASSUME Basics, [Next]_vars
  PROVE  HelperInv'
<1>0. /\ TypeOK /\ mode' = mode /\ platform' = platform
      /\ platform \in {"posix", "windows", "bundle"}
      /\ srv.pc \in ServerSteps /\ helper.pc \in HelperSteps
      /\ disk.live \in Versions /\ disk.backup \in 0..MaxVersion
  BY Typing, ModeStays, Platforms, Fields DEF Basics, Servers, Helpers
<1> USE DEF Basics, HelperInv, RecoveryInv, LockInv, OwnSteps, HelperOwns, HelperSteps,
            HelperTrial, OnTrial, Unsettled, HelperGoes, HelperGone, Goes
<1>1. CASE AckSave
  BY <1>0, <1>1, ServerMoves, JournalMoves DEF AckSave
<1>2. CASE Confirm
  BY <1>0, <1>2, ServerMoves, JournalMoves DEF Confirm
<1>3. CASE RecoverClears
  BY <1>0, <1>3, ServerMoves, JournalMoves DEF RecoverClears, Release
<1>4. CASE Suppress
  BY <1>0, <1>4, ServerMoves, JournalMoves DEF Suppress, Release
<1>5. CASE RecoverRestores
  BY <1>0, <1>5, RestoreMoves
<1>6. CASE RecoverSavesRollback
  BY <1>0, <1>6, ServerMoves DEF RecoverSavesRollback, Release
<1>7. CASE Prepare
  BY <1>0, <1>7, PrepareWrites DEF Prepare
<1>8. CASE SaveActivated
  BY <1>0, <1>8, ActivationMoves
<1>9. CASE Handoff
  BY <1>0, <1>9, ServerMoves, OpeningMoves DEF Handoff
<1>10. CASE HelperOpens
  BY <1>0, <1>10, OpeningMoves DEF HelperOpens
<1>11. CASE HelperWaits
  BY <1>0, <1>11, HelperMoves DEF HelperWaits
<1>12. CASE HelperBacksUp
  BY <1>0, <1>12, HelperMoves, DiskMoves DEF HelperBacksUp
<1>13. CASE HelperSwaps
  BY <1>0, <1>13, HelperMoves, DiskMoves DEF HelperSwaps
<1>14. CASE HelperGivesUp
  BY <1>0, <1>14, HelperMoves DEF HelperGivesUp, Release
<1>15. CASE HelperSpawns
  BY <1>0, <1>15, HelperMoves, Launches DEF HelperSpawns
<1>16. CASE HelperSpawnFails
  BY <1>0, <1>16, HelperMoves DEF HelperSpawnFails
<1>17. CASE HelperSeesConfirmed
  BY <1>0, <1>17, HelperMoves DEF HelperSeesConfirmed
<1>18. CASE HelperLosesPatience
  BY <1>0, <1>18, HelperMoves DEF HelperLosesPatience
<1>19. CASE HelperKills
  BY <1>0, <1>19, HelperMoves, ServerMoves DEF HelperKills
<1>20. CASE HelperRestores
  BY <1>0, <1>20, HelperRestoreMoves
<1>21. CASE HelperSavesRollback
  BY <1>0, <1>21, HelperMoves DEF HelperSavesRollback, Release
<1>22. CASE HelperSaveFails
  BY <1>0, <1>22, HelperMoves DEF HelperSaveFails, Release
<1>23. CASE HelperRestoresBare
  BY <1>0, <1>23, HelperMoves, DiskMoves DEF HelperRestoresBare, Release
<1>24. CASE HelperRelaunches
  BY <1>0, <1>24, HelperMoves, Launches DEF HelperRelaunches, Release
<1>25. CASE HelperCleans
  BY <1>0, <1>25, HelperMoves, DiskMoves DEF HelperCleans
<1>26. CASE HelperClears
  BY <1>0, <1>26, HelperMoves, JournalMoves DEF HelperClears, Release
<1>27. CASE DeadlinePasses
  BY <1>0, <1>27, JournalMoves DEF DeadlinePasses
<1>28. CASE Crash
  BY <1>0, <1>28, ServerMoves, HelperMoves DEF Crash
<1>29. CASE \/ BootFails \/ Ready \/ LoadPending \/ OwnJournal \/ AckLoad \/ Recover
            \/ RecoverCleans \/ StartupApply \/ Apply \/ StopServing \/ Download \/ Backup
            \/ Swap \/ Exit \/ HaltedExits \/ Start \/ Publish \/ RecoverFails
            \/ InstallFails \/ UNCHANGED vars
  <2>1. UNCHANGED <<journal, helper>>
    BY <1>29
       DEF BootFails, Ready, LoadPending, OwnJournal, AckLoad, Recover, RecoverCleans,
           StartupApply, Apply, StopServing, Download, Backup, Swap, Exit, HaltedExits, Start,
           Publish, RecoverFails, InstallFails, vars
  <2> QED BY <1>0, <2>1
<1> QED BY <1>1, <1>2, <1>3, <1>4, <1>5, <1>6, <1>7, <1>8, <1>9, <1>10, <1>11, <1>12,
           <1>13, <1>14, <1>15, <1>16, <1>17, <1>18, <1>19, <1>20, <1>21, <1>22, <1>23,
           <1>24, <1>25, <1>26, <1>27, <1>28, <1>29
   DEF Next, ServerStep, HelperStep

\* What is staged, and what a failed restore leaves behind.
LEMMA FilesStep ==
  ASSUME Basics, [Next]_vars
  PROVE  FilesInv'
<1>0. /\ TypeOK /\ mode' = mode /\ platform' = platform
      /\ platform \in {"posix", "windows", "bundle"}
      /\ srv.pc \in ServerSteps /\ helper.pc \in HelperSteps
      /\ disk.live \in Versions /\ disk.backup \in 0..MaxVersion
  BY Typing, ModeStays, Platforms, Fields DEF Basics, Servers, Helpers
<1> USE DEF Basics, FilesInv, SelectionInv, RecoveryInv, HelperInv, LockInv, OwnSteps,
            HelperOwns, HelperSteps, Repair, Alive, Unsettled, HelperTrial, HelperGoes,
            HelperGone, Goes, Gone, Boots, Restorable
<1>1. CASE BootFails
  BY <1>0, <1>1, ServerMoves DEF BootFails
<1>2. CASE Ready
  BY <1>0, <1>2, ServerMoves DEF Ready
<1>3. CASE LoadPending
  BY <1>0, <1>3, LoadMoves DEF LoadPending
<1>4. CASE OwnJournal
  BY <1>0, <1>4, ServerMoves DEF OwnJournal
<1>5. CASE AckLoad
  BY <1>0, <1>5, LoadMoves DEF AckLoad
<1>6. CASE AckSave
  BY <1>0, <1>6, ServerMoves, JournalMoves DEF AckSave
<1>7. CASE Recover
  BY <1>0, <1>7, LoadMoves DEF Recover, Release
<1>8. CASE Confirm
  BY <1>0, <1>8, ServerMoves, JournalMoves DEF Confirm
<1>9. CASE RecoverCleans
  BY <1>0, <1>9, ServerMoves, DiskMoves DEF RecoverCleans
<1>10. CASE RecoverClears
  BY <1>0, <1>10, ServerMoves, JournalMoves DEF RecoverClears, Release
<1>11. CASE Suppress
  BY <1>0, <1>11, ServerMoves, JournalMoves DEF Suppress, Release
<1>12. CASE RecoverRestores
  BY <1>0, <1>12, RestoreMoves
<1>13. CASE RecoverSavesRollback
  BY <1>0, <1>13, ServerMoves DEF RecoverSavesRollback, Release
<1>14. CASE RecoverFails
  BY <1>0, <1>14, ServerMoves DEF RecoverFails, Release
<1>15. CASE StartupApply
  BY <1>0, <1>15, ServerMoves DEF StartupApply
<1>16. CASE Apply
  BY <1>0, <1>16, ServerMoves DEF Apply
<1>17. CASE StopServing
  BY <1>0, <1>17, ServerMoves DEF StopServing
<1>18. CASE Download
  BY <1>0, <1>18, ServerMoves DEF Download
<1>19. CASE Prepare
  <2>1. gaps' = gaps /\ helper' = helper /\ srv.pc = "prepare"
    BY <1>19 DEF Prepare
  <2>2. CASE /\ srv'.pc = "halted" /\ srv'.op = srv.op /\ srv'.ver = srv.ver
             /\ UNCHANGED <<disk, journal>>
    BY <1>0, <2>1, <2>2
  <2>3. CASE /\ srv'.op = journal' /\ srv'.ver = srv.ver /\ journal'.version = srv.sel
             /\ ~journal'.failed /\ disk' = PreparedDisk
    BY <1>0, <2>1, <2>3, DiskMoves
  <2> QED BY <1>19, <1>0, <2>2, <2>3, PrepareWrites
<1>20. CASE Backup
  BY <1>0, <1>20, ServerMoves, DiskMoves DEF Backup
<1>21. CASE Swap
  BY <1>0, <1>21, ServerMoves, DiskMoves DEF Swap
<1>22. CASE SaveActivated
  BY <1>0, <1>22, ActivationMoves
<1>23. CASE Handoff
  BY <1>0, <1>23, ServerMoves, OpeningMoves DEF Handoff
<1>24. CASE Exit
  BY <1>0, <1>24, ServerMoves DEF Exit, Release
<1>25. CASE InstallFails
  BY <1>0, <1>25, ServerMoves DEF InstallFails, Release, InstallSteps
<1>26. CASE HaltedExits
  BY <1>0, <1>26, ServerMoves DEF HaltedExits
<1>27. CASE Start
  BY <1>0, <1>27, Launches DEF Start
<1>28. CASE HelperOpens
  BY <1>0, <1>28, OpeningMoves DEF HelperOpens
<1>29. CASE HelperWaits
  BY <1>0, <1>29, HelperMoves DEF HelperWaits
<1>30. CASE HelperBacksUp
  BY <1>0, <1>30, HelperMoves, DiskMoves DEF HelperBacksUp
<1>31. CASE HelperSwaps
  BY <1>0, <1>31, HelperMoves, DiskMoves DEF HelperSwaps
<1>32. CASE HelperGivesUp
  BY <1>0, <1>32, HelperMoves DEF HelperGivesUp, Release
<1>33. CASE HelperSpawns
  BY <1>0, <1>33, HelperMoves, Launches DEF HelperSpawns
<1>34. CASE HelperSpawnFails
  BY <1>0, <1>34, HelperMoves DEF HelperSpawnFails
<1>35. CASE HelperSeesConfirmed
  BY <1>0, <1>35, HelperMoves DEF HelperSeesConfirmed
<1>36. CASE HelperLosesPatience
  BY <1>0, <1>36, HelperMoves DEF HelperLosesPatience
<1>37. CASE HelperKills
  BY <1>0, <1>37, HelperMoves, ServerMoves DEF HelperKills
<1>38. CASE HelperRestores
  <2>1. /\ UNCHANGED <<journal, srv>> /\ gaps \subseteq gaps' /\ disk'.staged = disk.staged
        /\ helper'.op.failed => "repair" \in gaps'
        /\ disk'.live = disk.live \/ Restorable
    BY <1>0, <1>38, HelperRestoreMoves, DiskMoves
  <2> QED BY <1>0, <2>1
<1>39. CASE HelperSavesRollback
  BY <1>0, <1>39, HelperMoves DEF HelperSavesRollback, Release
<1>40. CASE HelperSaveFails
  BY <1>0, <1>40, HelperMoves DEF HelperSaveFails, Release
<1>41. CASE HelperRestoresBare
  BY <1>0, <1>41, HelperMoves, DiskMoves DEF HelperRestoresBare, Release
<1>42. CASE HelperRelaunches
  BY <1>0, <1>42, HelperMoves, Launches DEF HelperRelaunches, Release
<1>43. CASE HelperCleans
  BY <1>0, <1>43, HelperMoves, DiskMoves DEF HelperCleans
<1>44. CASE HelperClears
  BY <1>0, <1>44, HelperMoves, JournalMoves DEF HelperClears, Release
<1>45. CASE Publish
  BY <1>0, <1>45 DEF Publish
<1>46. CASE DeadlinePasses
  BY <1>0, <1>46, JournalMoves DEF DeadlinePasses
<1>47. CASE Crash
  BY <1>0, <1>47, ServerMoves, HelperMoves DEF Crash
<1>48. CASE UNCHANGED vars
  BY <1>0, <1>48 DEF vars
<1> QED BY <1>1, <1>2, <1>3, <1>4, <1>5, <1>6, <1>7, <1>8, <1>9, <1>10, <1>11, <1>12,
           <1>13, <1>14, <1>15, <1>16, <1>17, <1>18, <1>19, <1>20, <1>21, <1>22, <1>23,
           <1>24, <1>25, <1>26, <1>27, <1>28, <1>29, <1>30, <1>31, <1>32, <1>33, <1>34,
           <1>35, <1>36, <1>37, <1>38, <1>39, <1>40, <1>41, <1>42, <1>43, <1>44, <1>45,
           <1>46, <1>47, <1>48
   DEF Next, ServerStep, HelperStep

\* A rollback of the helper has no child beside it.
LEMMA AloneStep ==
  ASSUME Basics, [Next]_vars
  PROVE  AloneInv'
<1>0. /\ TypeOK /\ mode' = mode /\ platform' = platform
      /\ platform \in {"posix", "windows", "bundle"}
      /\ srv.pc \in ServerSteps /\ helper.pc \in HelperSteps
      /\ disk.live \in Versions /\ disk.backup \in 0..MaxVersion
  BY Typing, ModeStays, Platforms, Fields DEF Basics, Servers, Helpers
<1> USE DEF Basics, AloneInv, SelectionInv, LockInv, OwnSteps, HelperOwns, HelperSteps,
            ChildAlive, Alive, HelperGoes, HelperGone, Goes, Gone, Boots
<1>1. CASE BootFails
  BY <1>0, <1>1, ServerMoves DEF BootFails
<1>2. CASE Ready
  BY <1>0, <1>2, ServerMoves DEF Ready
<1>3. CASE LoadPending
  BY <1>0, <1>3, LoadMoves DEF LoadPending
<1>4. CASE OwnJournal
  BY <1>0, <1>4, ServerMoves DEF OwnJournal
<1>5. CASE AckLoad
  BY <1>0, <1>5, LoadMoves DEF AckLoad
<1>6. CASE AckSave
  BY <1>0, <1>6, ServerMoves, JournalMoves DEF AckSave
<1>7. CASE Recover
  BY <1>0, <1>7, LoadMoves DEF Recover, Release
<1>8. CASE Confirm
  BY <1>0, <1>8, ServerMoves, JournalMoves DEF Confirm
<1>9. CASE RecoverCleans
  BY <1>0, <1>9, ServerMoves, DiskMoves DEF RecoverCleans
<1>10. CASE RecoverClears
  BY <1>0, <1>10, ServerMoves, JournalMoves DEF RecoverClears, Release
<1>11. CASE Suppress
  BY <1>0, <1>11, ServerMoves, JournalMoves DEF Suppress, Release
<1>12. CASE RecoverRestores
  BY <1>0, <1>12, RestoreMoves
<1>13. CASE RecoverSavesRollback
  BY <1>0, <1>13, ServerMoves DEF RecoverSavesRollback, Release
<1>14. CASE RecoverFails
  BY <1>0, <1>14, ServerMoves DEF RecoverFails, Release
<1>15. CASE StartupApply
  BY <1>0, <1>15, ServerMoves DEF StartupApply
<1>16. CASE Apply
  BY <1>0, <1>16, ServerMoves DEF Apply
<1>17. CASE StopServing
  BY <1>0, <1>17, ServerMoves DEF StopServing
<1>18. CASE Download
  BY <1>0, <1>18, ServerMoves DEF Download
<1>19. CASE Prepare
  BY <1>0, <1>19, PrepareWrites DEF Prepare
<1>20. CASE Backup
  BY <1>0, <1>20, ServerMoves, DiskMoves DEF Backup
<1>21. CASE Swap
  BY <1>0, <1>21, ServerMoves, DiskMoves DEF Swap
<1>22. CASE SaveActivated
  BY <1>0, <1>22, ActivationMoves
<1>23. CASE Handoff
  BY <1>0, <1>23, ServerMoves, OpeningMoves DEF Handoff
<1>24. CASE Exit
  BY <1>0, <1>24, ServerMoves DEF Exit, Release
<1>25. CASE InstallFails
  BY <1>0, <1>25, ServerMoves DEF InstallFails, Release, InstallSteps
<1>26. CASE HaltedExits
  BY <1>0, <1>26, ServerMoves DEF HaltedExits
<1>27. CASE Start
  BY <1>0, <1>27, Launches DEF Start
<1>28. CASE HelperOpens
  BY <1>0, <1>28, OpeningMoves DEF HelperOpens
<1>29. CASE HelperWaits
  BY <1>0, <1>29, HelperMoves DEF HelperWaits
<1>30. CASE HelperBacksUp
  BY <1>0, <1>30, HelperMoves, DiskMoves DEF HelperBacksUp
<1>31. CASE HelperSwaps
  BY <1>0, <1>31, HelperMoves, DiskMoves DEF HelperSwaps
<1>32. CASE HelperGivesUp
  BY <1>0, <1>32, HelperMoves DEF HelperGivesUp, Release
<1>33. CASE HelperSpawns
  BY <1>0, <1>33, HelperMoves, Launches DEF HelperSpawns
<1>34. CASE HelperSpawnFails
  BY <1>0, <1>34, HelperMoves DEF HelperSpawnFails
<1>35. CASE HelperSeesConfirmed
  BY <1>0, <1>35, HelperMoves DEF HelperSeesConfirmed
<1>36. CASE HelperLosesPatience
  BY <1>0, <1>36, HelperMoves DEF HelperLosesPatience
<1>37. CASE HelperKills
  BY <1>0, <1>37, HelperMoves, ServerMoves DEF HelperKills
<1>38. CASE HelperRestores
  BY <1>0, <1>38, HelperRestoreMoves
<1>39. CASE HelperSavesRollback
  BY <1>0, <1>39, HelperMoves DEF HelperSavesRollback, Release
<1>40. CASE HelperSaveFails
  BY <1>0, <1>40, HelperMoves DEF HelperSaveFails, Release
<1>41. CASE HelperRestoresBare
  BY <1>0, <1>41, HelperMoves, DiskMoves DEF HelperRestoresBare, Release
<1>42. CASE HelperRelaunches
  BY <1>0, <1>42, HelperMoves, Launches DEF HelperRelaunches, Release
<1>43. CASE HelperCleans
  BY <1>0, <1>43, HelperMoves, DiskMoves DEF HelperCleans
<1>44. CASE HelperClears
  BY <1>0, <1>44, HelperMoves, JournalMoves DEF HelperClears, Release
<1>45. CASE Publish
  BY <1>0, <1>45 DEF Publish
<1>46. CASE DeadlinePasses
  BY <1>0, <1>46, JournalMoves DEF DeadlinePasses
<1>47. CASE Crash
  BY <1>0, <1>47, ServerMoves, HelperMoves DEF Crash
<1>48. CASE UNCHANGED vars
  BY <1>0, <1>48 DEF vars
<1> QED BY <1>1, <1>2, <1>3, <1>4, <1>5, <1>6, <1>7, <1>8, <1>9, <1>10, <1>11, <1>12,
           <1>13, <1>14, <1>15, <1>16, <1>17, <1>18, <1>19, <1>20, <1>21, <1>22, <1>23,
           <1>24, <1>25, <1>26, <1>27, <1>28, <1>29, <1>30, <1>31, <1>32, <1>33, <1>34,
           <1>35, <1>36, <1>37, <1>38, <1>39, <1>40, <1>41, <1>42, <1>43, <1>44, <1>45,
           <1>46, <1>47, <1>48
   DEF Next, ServerStep, HelperStep

-----------------------------------------------------------------------------
(* Where an operation stands.                                              *)

LEMMA SettledTypes ==
  ASSUME Basics, ~Twice', [Next]_vars
  PROVE  /\ TypeOK /\ mode' = mode /\ platform' = platform
         /\ platform \in {"posix", "windows", "bundle"}
         /\ srv.pc \in ServerSteps /\ helper.pc \in HelperSteps
         /\ disk.live \in Nat \ {0} /\ disk.backup \in Nat /\ disk.staged \in Nat
         /\ srv.ver \in Nat /\ srv.sel \in Nat /\ journal.version \in Nat
         /\ ~Twice /\ gaps \subseteq gaps' /\ proven \subseteq proven'
<1>1. TypeOK /\ mode' = mode /\ platform' = platform /\ platform \in {"posix", "windows", "bundle"}
      /\ gaps \subseteq gaps' /\ proven \subseteq proven'
  BY ModeStays, Platforms, GapsGrow DEF Basics
<1>2. srv.pc \in ServerSteps /\ helper.pc \in HelperSteps
  BY <1>1, Typing DEF Servers, Helpers
<1>3. disk.live \in Nat \ {0} /\ disk.backup \in Nat /\ disk.staged \in Nat
      /\ srv.ver \in Nat /\ srv.sel \in Nat
  BY <1>1, Fields, Limits DEF Versions
<1>4. journal.version \in Nat
  <2>1. journal \in Operations
    BY <1>1, Fields
  <2>2. journal.version \in 0..MaxVersion
    BY <2>1, OperationEdits
  <2> QED BY <2>2, Limits
<1>5. ~Twice
  BY <1>1 DEF Twice
<1> QED BY <1>1, <1>2, <1>3, <1>4, <1>5

\* Before its swap, or past it.
LEMMA PhaseStep ==
  ASSUME Basics, Settled, ~Twice', [Next]_vars
  PROVE  PhaseInv'
<1>0. /\ TypeOK /\ mode' = mode /\ platform' = platform
      /\ platform \in {"posix", "windows", "bundle"}
      /\ srv.pc \in ServerSteps /\ helper.pc \in HelperSteps
      /\ disk.live \in Nat \ {0} /\ disk.backup \in Nat /\ disk.staged \in Nat
      /\ srv.ver \in Nat /\ srv.sel \in Nat /\ journal.version \in Nat
      /\ ~Twice /\ gaps \subseteq gaps' /\ proven \subseteq proven'
  BY SettledTypes
<1> USE DEF Basics, Settled, Repair, LockInv, OwnSteps, HelperOwns, HelperSteps, Sound,
            Alive, HelperGoes, HelperGone, Goes, Gone, Boots, Restorable, OnTrial,
            Unsettled, HelperTrial, PhaseInv, Pre, Post, Reverting, ServerPlace,
            HelperPlace, OrderInv, SelectionInv, RecoveryInv, HelperInv
<1>1. CASE BootFails
  BY <1>0, <1>1, ServerMoves DEF BootFails
<1>2. CASE Ready
  BY <1>0, <1>2, ServerMoves DEF Ready
<1>3. CASE LoadPending
  BY <1>0, <1>3, LoadMoves DEF LoadPending
<1>4. CASE OwnJournal
  BY <1>0, <1>4, ServerMoves DEF OwnJournal
<1>5. CASE AckLoad
  BY <1>0, <1>5, LoadMoves DEF AckLoad
<1>6. CASE AckSave
  BY <1>0, <1>6, ServerMoves, JournalMoves DEF AckSave
<1>7. CASE Recover
  BY <1>0, <1>7, LoadMoves, OwnedSteps, OwnedStepFinds
     DEF Activated, Pristine, Recover, Release
<1>8. CASE Confirm
  BY <1>0, <1>8, ServerMoves, JournalMoves DEF Confirm
<1>9. CASE RecoverCleans
  BY <1>0, <1>9, ServerMoves, DiskMoves DEF RecoverCleans
<1>10. CASE RecoverClears
  BY <1>0, <1>10, ServerMoves, JournalMoves DEF RecoverClears, Release
<1>11. CASE Suppress
  BY <1>0, <1>11, ServerMoves, JournalMoves DEF Suppress, Release
<1>12. CASE RecoverRestores
  BY <1>0, <1>12, RestoreMoves, DiskMoves
<1>13. CASE RecoverSavesRollback
  <2>1. /\ srv.pc = "undoSave" /\ journal' = srv.op /\ srv'.pc = "check"
        /\ UNCHANGED <<disk, helper, gaps, proven>>
        /\ srv.op.phase = "rolled-back" /\ srv.op.version = journal.version
        /\ helper.pc \in {"off", "lock"}
    BY <1>0, <1>13, ServerMoves DEF RecoverSavesRollback
  <2>2. ~srv.op.failed => disk.live < journal.version /\ Sound
    BY <2>1
  <2>3. srv.op.failed => Repair
    BY DEF FilesInv
  <2> QED BY <1>0, <2>1, <2>2, <2>3
<1>14. CASE RecoverFails
  <2>1. /\ srv.pc \in {"ackSave", "confirm", "clean", "clear", "suppress", "undoSave"}
        /\ srv'.pc \in {"idle", "check"} /\ UNCHANGED <<disk, journal, helper, proven>>
        /\ srv.pc = "undoSave" => gaps' = gaps \cup {"unsaved"}
    BY <1>0, <1>14, ServerMoves DEF RecoverFails
  <2>2. CASE srv.pc = "undoSave"
    <3>1. platform # "bundle"
      BY <1>0, <2>1, <2>2 DEF Twice
    <3> QED BY <1>0, <2>1, <2>2, <3>1
  <2>3. CASE srv.pc # "undoSave"
    <3>1. helper.pc = "undoSave" \/ helper.pc # "undoSave"
      OBVIOUS
    <3> QED BY <1>0, <2>1, <2>3, <3>1
  <2> QED BY <2>2, <2>3
<1>15. CASE StartupApply
  BY <1>0, <1>15, ServerMoves DEF StartupApply
<1>16. CASE Apply
  BY <1>0, <1>16, ServerMoves DEF Apply
<1>17. CASE StopServing
  BY <1>0, <1>17, ServerMoves DEF StopServing
<1>18. CASE Download
  BY <1>0, <1>18, ServerMoves DEF Download
<1>19. CASE Prepare
  BY <1>0, <1>19, PrepareWrites, DiskMoves DEF Prepare
<1>20. CASE Backup
  BY <1>0, <1>20, ServerMoves, DiskMoves DEF Backup
<1>21. CASE Swap
  BY <1>0, <1>21, ServerMoves, DiskMoves DEF Swap
<1>22. CASE SaveActivated
  BY <1>0, <1>22, ActivationMoves
<1>23. CASE Handoff
  BY <1>0, <1>23, ServerMoves, OpeningMoves DEF Handoff
<1>24. CASE Exit
  BY <1>0, <1>24, ServerMoves DEF Exit, Release
<1>25. CASE InstallFails
  BY <1>0, <1>25, ServerMoves DEF InstallFails, Release, InstallSteps
<1>26. CASE HaltedExits
  BY <1>0, <1>26, ServerMoves DEF HaltedExits
<1>27. CASE Start
  BY <1>0, <1>27, Launches DEF Start
<1>28. CASE HelperOpens
  BY <1>0, <1>28, OpeningMoves DEF HelperOpens
<1>29. CASE HelperWaits
  BY <1>0, <1>29, HelperMoves DEF HelperWaits
<1>30. CASE HelperBacksUp
  BY <1>0, <1>30, HelperMoves, DiskMoves DEF HelperBacksUp
<1>31. CASE HelperSwaps
  BY <1>0, <1>31, HelperMoves, DiskMoves DEF FilesInv, HelperSwaps
<1>32. CASE HelperGivesUp
  BY <1>0, <1>32, HelperMoves DEF HelperGivesUp, Release
<1>33. CASE HelperSpawns
  BY <1>0, <1>33, HelperMoves, Launches DEF HelperSpawns
<1>34. CASE HelperSpawnFails
  BY <1>0, <1>34, HelperMoves DEF HelperSpawnFails
<1>35. CASE HelperSeesConfirmed
  BY <1>0, <1>35, HelperMoves DEF HelperSeesConfirmed
<1>36. CASE HelperLosesPatience
  BY <1>0, <1>36, HelperMoves DEF HelperLosesPatience
<1>37. CASE HelperKills
  BY <1>0, <1>37, HelperMoves, ServerMoves DEF HelperKills
<1>38. CASE HelperRestores
  BY <1>0, <1>38, HelperRestoreMoves, DiskMoves
<1>39. CASE HelperSavesRollback
  <2>1. /\ helper.pc = "undoSave" /\ journal' = helper.op /\ helper'.pc \in {"off", "relaunch"}
        /\ UNCHANGED <<disk, srv, proven>> /\ helper.op.phase = "rolled-back"
        /\ helper.op.version = journal.version
    BY <1>0, <1>39, HelperMoves DEF HelperSavesRollback
  <2>2. ~helper.op.failed => disk.live < journal.version /\ Sound
    BY <2>1
  <2>3. helper.op.failed => Repair
    BY DEF FilesInv
  <2> QED BY <1>0, <2>1, <2>2, <2>3
<1>40. CASE HelperSaveFails
  <2>1. /\ helper.pc = "undoSave" /\ helper'.pc = "off" /\ UNCHANGED <<disk, journal, srv, proven>>
        /\ gaps' = gaps \cup {"unsaved"}
    BY <1>0, <1>40, HelperMoves DEF HelperSaveFails
  <2>2. platform # "bundle"
    BY <1>0, <2>1 DEF Twice
  <2> QED BY <1>0, <2>1, <2>2
<1>41. CASE HelperRestoresBare
  BY <1>0, <1>41, HelperMoves, DiskMoves DEF HelperRestoresBare, Release
<1>42. CASE HelperRelaunches
  BY <1>0, <1>42, HelperMoves, Launches DEF HelperRelaunches, Release
<1>43. CASE HelperCleans
  BY <1>0, <1>43, HelperMoves, DiskMoves DEF HelperCleans
<1>44. CASE HelperClears
  BY <1>0, <1>44, HelperMoves, JournalMoves DEF HelperClears, Release
<1>45. CASE Publish
  BY <1>0, <1>45 DEF Publish
<1>46. CASE DeadlinePasses
  BY <1>0, <1>46, JournalMoves DEF DeadlinePasses
<1>47. CASE Crash
  <2>1. /\ UNCHANGED <<disk, journal, proven>>
        /\ \/ srv' = srv
           \/ /\ Gone
              /\ srv.pc = "undoSave" /\ ~srv.op.failed => "unsaved" \in gaps'
        /\ \/ helper' = helper
           \/ /\ HelperGone
              /\ helper.pc = "undoSave" /\ ~helper.op.failed => "unsaved" \in gaps'
    BY <1>0, <1>47, ServerMoves, HelperMoves DEF Crash
  <2>2. "unsaved" \in gaps' => platform # "bundle"
    BY <1>0 DEF Twice
  <2>3. Reverting => Reverting' \/ platform # "bundle"
    BY <2>1, <2>2
  <2>4. (OnTrial => Pre \/ Post)' /\ (~Unsettled => Sound)'
    BY <1>0, <2>1
  <2> QED BY <1>0, <2>1, <2>3, <2>4
<1>48. CASE UNCHANGED vars
  BY <1>0, <1>48 DEF vars
<1> QED BY <1>1, <1>2, <1>3, <1>4, <1>5, <1>6, <1>7, <1>8, <1>9, <1>10, <1>11, <1>12,
           <1>13, <1>14, <1>15, <1>16, <1>17, <1>18, <1>19, <1>20, <1>21, <1>22, <1>23,
           <1>24, <1>25, <1>26, <1>27, <1>28, <1>29, <1>30, <1>31, <1>32, <1>33, <1>34,
           <1>35, <1>36, <1>37, <1>38, <1>39, <1>40, <1>41, <1>42, <1>43, <1>44, <1>45,
           <1>46, <1>47, <1>48
   DEF Next, ServerStep, HelperStep

\* Where the server stands in it.
LEMMA ServerPlaceStep ==
  ASSUME Basics, Settled, ~Twice', [Next]_vars
  PROVE  ServerPlace'
<1>0. /\ TypeOK /\ mode' = mode /\ platform' = platform
      /\ platform \in {"posix", "windows", "bundle"}
      /\ srv.pc \in ServerSteps /\ helper.pc \in HelperSteps
      /\ disk.live \in Nat \ {0} /\ disk.backup \in Nat /\ disk.staged \in Nat
      /\ srv.ver \in Nat /\ srv.sel \in Nat /\ journal.version \in Nat
      /\ ~Twice /\ gaps \subseteq gaps' /\ proven \subseteq proven'
  BY SettledTypes
<1> USE DEF Basics, Settled, Repair, LockInv, OwnSteps, HelperOwns, HelperSteps, Sound,
            Alive, HelperGoes, HelperGone, Goes, Gone, Boots, Restorable, OnTrial,
            Unsettled, HelperTrial, PhaseInv, Pre, Post, Reverting, ServerPlace,
            HelperPlace, OrderInv, SelectionInv, RecoveryInv, HelperInv
<1>1. CASE BootFails
  BY <1>0, <1>1, ServerMoves DEF BootFails
<1>2. CASE Ready
  BY <1>0, <1>2, ServerMoves DEF Ready
<1>3. CASE LoadPending
  BY <1>0, <1>3, LoadMoves DEF LoadPending
<1>4. CASE OwnJournal
  BY <1>0, <1>4, ServerMoves DEF OwnJournal
<1>5. CASE AckLoad
  BY <1>0, <1>5, LoadMoves DEF AckLoad
<1>6. CASE AckSave
  BY <1>0, <1>6, ServerMoves, JournalMoves DEF AckSave
<1>7. CASE Recover
  BY <1>0, <1>7, LoadMoves, OwnedSteps, OwnedStepFinds
     DEF Activated, Pristine, Recover, Release
<1>8. CASE Confirm
  BY <1>0, <1>8, ServerMoves, JournalMoves DEF Confirm
<1>9. CASE RecoverCleans
  BY <1>0, <1>9, ServerMoves, DiskMoves DEF RecoverCleans
<1>10. CASE RecoverClears
  BY <1>0, <1>10, ServerMoves, JournalMoves DEF RecoverClears, Release
<1>11. CASE Suppress
  BY <1>0, <1>11, ServerMoves, JournalMoves DEF Suppress, Release
<1>12. CASE RecoverRestores
  BY <1>0, <1>12, RestoreMoves, DiskMoves
<1>13. CASE RecoverSavesRollback
  BY <1>0, <1>13, ServerMoves DEF RecoverSavesRollback, Release
<1>14. CASE RecoverFails
  BY <1>0, <1>14, ServerMoves DEF RecoverFails, Release
<1>15. CASE StartupApply
  BY <1>0, <1>15, ServerMoves DEF StartupApply
<1>16. CASE Apply
  BY <1>0, <1>16, ServerMoves DEF Apply
<1>17. CASE StopServing
  BY <1>0, <1>17, ServerMoves DEF StopServing
<1>18. CASE Download
  BY <1>0, <1>18, ServerMoves DEF Download
<1>19. CASE Prepare
  <2>1. UNCHANGED <<gaps, proven, helper>> /\ srv.pc = "prepare"
    BY <1>19 DEF Prepare
  <2>2. CASE srv'.pc = "halted" /\ UNCHANGED <<disk, journal>>
    BY <2>2
  <2>3. CASE /\ lock = "free" /\ ~Unsettled /\ disk' = PreparedDisk
             /\ srv'.pc = FirstMutation /\ FirstMutation \in {"backup", "save", "swap"}
             /\ journal'.version = srv.sel
             /\ journal'.prior = IF platform = "bundle" THEN 0 ELSE disk.live
    <3>1. /\ disk'.live = disk.live /\ Sound
          /\ disk'.backup = IF platform = "bundle" THEN srv.sel ELSE 0
      BY <1>0, <2>1, <2>3, DiskMoves
    <3>2. disk.live < srv.sel
      BY <1>0, <2>1
    <3>3. Pre'
      BY <1>0, <2>1, <2>3, <3>1, <3>2
    <3>4. /\ FirstMutation = "swap" => platform = "bundle"
          /\ FirstMutation = "save" => platform = "windows"
      BY <1>0 DEF FirstMutation
    <3> QED BY <1>0, <2>3, <3>3, <3>4
  <2> QED BY <1>19, <2>2, <2>3, PrepareWrites
<1>20. CASE Backup
  BY <1>0, <1>20, ServerMoves, DiskMoves DEF Backup
<1>21. CASE Swap
  BY <1>0, <1>21, ServerMoves, DiskMoves DEF Swap
<1>22. CASE SaveActivated
  BY <1>0, <1>22, ActivationMoves
<1>23. CASE Handoff
  BY <1>0, <1>23, ServerMoves, OpeningMoves DEF Handoff
<1>24. CASE Exit
  BY <1>0, <1>24, ServerMoves DEF Exit, Release
<1>25. CASE InstallFails
  BY <1>0, <1>25, ServerMoves DEF InstallFails, Release, InstallSteps
<1>26. CASE HaltedExits
  BY <1>0, <1>26, ServerMoves DEF HaltedExits
<1>27. CASE Start
  BY <1>0, <1>27, Launches DEF Start
<1>28. CASE HelperOpens
  BY <1>0, <1>28, OpeningMoves DEF HelperOpens
<1>29. CASE HelperWaits
  BY <1>0, <1>29, HelperMoves DEF HelperWaits
<1>30. CASE HelperBacksUp
  BY <1>0, <1>30, HelperMoves, DiskMoves DEF HelperBacksUp
<1>31. CASE HelperSwaps
  BY <1>0, <1>31, HelperMoves, DiskMoves DEF FilesInv, HelperSwaps
<1>32. CASE HelperGivesUp
  BY <1>0, <1>32, HelperMoves DEF HelperGivesUp, Release
<1>33. CASE HelperSpawns
  BY <1>0, <1>33, HelperMoves, Launches DEF HelperSpawns
<1>34. CASE HelperSpawnFails
  BY <1>0, <1>34, HelperMoves DEF HelperSpawnFails
<1>35. CASE HelperSeesConfirmed
  BY <1>0, <1>35, HelperMoves DEF HelperSeesConfirmed
<1>36. CASE HelperLosesPatience
  BY <1>0, <1>36, HelperMoves DEF HelperLosesPatience
<1>37. CASE HelperKills
  BY <1>0, <1>37, HelperMoves, ServerMoves DEF HelperKills
<1>38. CASE HelperRestores
  BY <1>0, <1>38, HelperRestoreMoves, DiskMoves
<1>39. CASE HelperSavesRollback
  BY <1>0, <1>39, HelperMoves DEF HelperSavesRollback, Release
<1>40. CASE HelperSaveFails
  BY <1>0, <1>40, HelperMoves DEF HelperSaveFails, Release
<1>41. CASE HelperRestoresBare
  BY <1>0, <1>41, HelperMoves, DiskMoves DEF HelperRestoresBare, Release
<1>42. CASE HelperRelaunches
  BY <1>0, <1>42, HelperMoves, Launches DEF HelperRelaunches, Release
<1>43. CASE HelperCleans
  BY <1>0, <1>43, HelperMoves, DiskMoves DEF HelperCleans
<1>44. CASE HelperClears
  BY <1>0, <1>44, HelperMoves, JournalMoves DEF HelperClears, Release
<1>45. CASE Publish
  BY <1>0, <1>45 DEF Publish
<1>46. CASE DeadlinePasses
  BY <1>0, <1>46, JournalMoves DEF DeadlinePasses
<1>47. CASE Crash
  BY <1>0, <1>47, ServerMoves, HelperMoves DEF Crash
<1>48. CASE UNCHANGED vars
  BY <1>0, <1>48 DEF vars
<1> QED BY <1>1, <1>2, <1>3, <1>4, <1>5, <1>6, <1>7, <1>8, <1>9, <1>10, <1>11, <1>12,
           <1>13, <1>14, <1>15, <1>16, <1>17, <1>18, <1>19, <1>20, <1>21, <1>22, <1>23,
           <1>24, <1>25, <1>26, <1>27, <1>28, <1>29, <1>30, <1>31, <1>32, <1>33, <1>34,
           <1>35, <1>36, <1>37, <1>38, <1>39, <1>40, <1>41, <1>42, <1>43, <1>44, <1>45,
           <1>46, <1>47, <1>48
   DEF Next, ServerStep, HelperStep

\* Where the helper stands in it.
LEMMA HelperPlaceStep ==
  ASSUME Basics, Settled, ~Twice', [Next]_vars
  PROVE  HelperPlace'
<1>0. /\ TypeOK /\ mode' = mode /\ platform' = platform
      /\ platform \in {"posix", "windows", "bundle"}
      /\ srv.pc \in ServerSteps /\ helper.pc \in HelperSteps
      /\ disk.live \in Nat \ {0} /\ disk.backup \in Nat /\ disk.staged \in Nat
      /\ srv.ver \in Nat /\ srv.sel \in Nat /\ journal.version \in Nat
      /\ ~Twice /\ gaps \subseteq gaps' /\ proven \subseteq proven'
  BY SettledTypes
<1> USE DEF Basics, Settled, Repair, LockInv, OwnSteps, HelperOwns, HelperSteps, Sound,
            Alive, HelperGoes, HelperGone, Goes, Gone, Boots, Restorable, OnTrial,
            Unsettled, HelperTrial, PhaseInv, Pre, Post, Reverting, ServerPlace,
            HelperPlace, OrderInv, SelectionInv, RecoveryInv, HelperInv
<1>1. CASE BootFails
  BY <1>0, <1>1, ServerMoves DEF BootFails
<1>2. CASE Ready
  BY <1>0, <1>2, ServerMoves DEF Ready
<1>3. CASE LoadPending
  BY <1>0, <1>3, LoadMoves DEF LoadPending
<1>4. CASE OwnJournal
  BY <1>0, <1>4, ServerMoves DEF OwnJournal
<1>5. CASE AckLoad
  BY <1>0, <1>5, LoadMoves DEF AckLoad
<1>6. CASE AckSave
  BY <1>0, <1>6, ServerMoves, JournalMoves DEF FilesInv, AckSave
<1>7. CASE Recover
  BY <1>0, <1>7, LoadMoves, OwnedSteps, OwnedStepFinds
     DEF Activated, Pristine, Recover, Release
<1>8. CASE Confirm
  BY <1>0, <1>8, ServerMoves, JournalMoves DEF Confirm
<1>9. CASE RecoverCleans
  BY <1>0, <1>9, ServerMoves, DiskMoves DEF RecoverCleans
<1>10. CASE RecoverClears
  BY <1>0, <1>10, ServerMoves, JournalMoves DEF RecoverClears, Release
<1>11. CASE Suppress
  BY <1>0, <1>11, ServerMoves, JournalMoves DEF Suppress, Release
<1>12. CASE RecoverRestores
  BY <1>0, <1>12, RestoreMoves, DiskMoves
<1>13. CASE RecoverSavesRollback
  BY <1>0, <1>13, ServerMoves DEF RecoverSavesRollback, Release
<1>14. CASE RecoverFails
  BY <1>0, <1>14, ServerMoves DEF RecoverFails, Release
<1>15. CASE StartupApply
  BY <1>0, <1>15, ServerMoves DEF StartupApply
<1>16. CASE Apply
  BY <1>0, <1>16, ServerMoves DEF Apply
<1>17. CASE StopServing
  BY <1>0, <1>17, ServerMoves DEF StopServing
<1>18. CASE Download
  BY <1>0, <1>18, ServerMoves DEF Download
<1>19. CASE Prepare
  BY <1>0, <1>19, PrepareWrites, DiskMoves DEF Prepare
<1>20. CASE Backup
  BY <1>0, <1>20, ServerMoves, DiskMoves DEF Backup
<1>21. CASE Swap
  BY <1>0, <1>21, ServerMoves, DiskMoves DEF Swap
<1>22. CASE SaveActivated
  BY <1>0, <1>22, ActivationMoves
<1>23. CASE Handoff
  BY <1>0, <1>23, ServerMoves, OpeningMoves DEF FilesInv, Handoff
<1>24. CASE Exit
  BY <1>0, <1>24, ServerMoves DEF Exit, Release
<1>25. CASE InstallFails
  BY <1>0, <1>25, ServerMoves DEF InstallFails, Release, InstallSteps
<1>26. CASE HaltedExits
  BY <1>0, <1>26, ServerMoves DEF HaltedExits
<1>27. CASE Start
  BY <1>0, <1>27, Launches DEF Start
<1>28. CASE HelperOpens
  BY <1>0, <1>28, OpeningMoves DEF HelperOpens
<1>29. CASE HelperWaits
  BY <1>0, <1>29, HelperMoves DEF HelperWaits
<1>30. CASE HelperBacksUp
  BY <1>0, <1>30, HelperMoves, DiskMoves DEF HelperBacksUp
<1>31. CASE HelperSwaps
  BY <1>0, <1>31, HelperMoves, DiskMoves DEF FilesInv, HelperSwaps
<1>32. CASE HelperGivesUp
  BY <1>0, <1>32, HelperMoves DEF HelperGivesUp, Release
<1>33. CASE HelperSpawns
  BY <1>0, <1>33, HelperMoves, Launches DEF HelperSpawns
<1>34. CASE HelperSpawnFails
  BY <1>0, <1>34, HelperMoves DEF HelperSpawnFails
<1>35. CASE HelperSeesConfirmed
  BY <1>0, <1>35, HelperMoves DEF HelperSeesConfirmed
<1>36. CASE HelperLosesPatience
  BY <1>0, <1>36, HelperMoves DEF HelperLosesPatience
<1>37. CASE HelperKills
  BY <1>0, <1>37, HelperMoves, ServerMoves DEF HelperKills
<1>38. CASE HelperRestores
  BY <1>0, <1>38, HelperRestoreMoves, DiskMoves
<1>39. CASE HelperSavesRollback
  BY <1>0, <1>39, HelperMoves DEF HelperSavesRollback, Release
<1>40. CASE HelperSaveFails
  BY <1>0, <1>40, HelperMoves DEF HelperSaveFails, Release
<1>41. CASE HelperRestoresBare
  BY <1>0, <1>41, HelperMoves, DiskMoves DEF HelperRestoresBare, Release
<1>42. CASE HelperRelaunches
  BY <1>0, <1>42, HelperMoves, Launches DEF HelperRelaunches, Release
<1>43. CASE HelperCleans
  BY <1>0, <1>43, HelperMoves, DiskMoves DEF HelperCleans
<1>44. CASE HelperClears
  BY <1>0, <1>44, HelperMoves, JournalMoves DEF HelperClears, Release
<1>45. CASE Publish
  BY <1>0, <1>45 DEF Publish
<1>46. CASE DeadlinePasses
  BY <1>0, <1>46, JournalMoves DEF DeadlinePasses
<1>47. CASE Crash
  BY <1>0, <1>47, ServerMoves, HelperMoves DEF Crash
<1>48. CASE UNCHANGED vars
  BY <1>0, <1>48 DEF vars
<1> QED BY <1>1, <1>2, <1>3, <1>4, <1>5, <1>6, <1>7, <1>8, <1>9, <1>10, <1>11, <1>12,
           <1>13, <1>14, <1>15, <1>16, <1>17, <1>18, <1>19, <1>20, <1>21, <1>22, <1>23,
           <1>24, <1>25, <1>26, <1>27, <1>28, <1>29, <1>30, <1>31, <1>32, <1>33, <1>34,
           <1>35, <1>36, <1>37, <1>38, <1>39, <1>40, <1>41, <1>42, <1>43, <1>44, <1>45,
           <1>46, <1>47, <1>48
   DEF Next, ServerStep, HelperStep

\* No version runs behind the one that is live.
LEMMA OrderStep ==
  ASSUME Basics, Settled, ~Twice', [Next]_vars
  PROVE  OrderInv'
<1>0. /\ TypeOK /\ mode' = mode /\ platform' = platform
      /\ platform \in {"posix", "windows", "bundle"}
      /\ srv.pc \in ServerSteps /\ helper.pc \in HelperSteps
      /\ disk.live \in Nat \ {0} /\ disk.backup \in Nat /\ disk.staged \in Nat
      /\ srv.ver \in Nat /\ srv.sel \in Nat /\ journal.version \in Nat
      /\ ~Twice /\ gaps \subseteq gaps' /\ proven \subseteq proven'
  BY SettledTypes
<1> USE DEF Basics, Settled, Repair, LockInv, OwnSteps, HelperOwns, HelperSteps, Sound,
            Alive, HelperGoes, HelperGone, Goes, Gone, Boots, Restorable, OnTrial,
            Unsettled, HelperTrial, PhaseInv, Pre, Post, Reverting, ServerPlace,
            HelperPlace, OrderInv, SelectionInv, RecoveryInv, HelperInv
<1>1. CASE BootFails
  BY <1>0, <1>1, ServerMoves DEF BootFails
<1>2. CASE Ready
  BY <1>0, <1>2, ServerMoves DEF Ready
<1>3. CASE LoadPending
  BY <1>0, <1>3, LoadMoves DEF LoadPending
<1>4. CASE OwnJournal
  BY <1>0, <1>4, ServerMoves DEF OwnJournal
<1>5. CASE AckLoad
  BY <1>0, <1>5, LoadMoves DEF AckLoad
<1>6. CASE AckSave
  BY <1>0, <1>6, ServerMoves, JournalMoves DEF AckSave
<1>7. CASE Recover
  BY <1>0, <1>7, LoadMoves, OwnedSteps, OwnedStepFinds
     DEF Activated, Pristine, Recover, Release
<1>8. CASE Confirm
  BY <1>0, <1>8, ServerMoves, JournalMoves DEF Confirm
<1>9. CASE RecoverCleans
  BY <1>0, <1>9, ServerMoves, DiskMoves DEF RecoverCleans
<1>10. CASE RecoverClears
  BY <1>0, <1>10, ServerMoves, JournalMoves DEF RecoverClears, Release
<1>11. CASE Suppress
  BY <1>0, <1>11, ServerMoves, JournalMoves DEF Suppress, Release
<1>12. CASE RecoverRestores
  BY <1>0, <1>12, RestoreMoves, DiskMoves
<1>13. CASE RecoverSavesRollback
  BY <1>0, <1>13, ServerMoves DEF RecoverSavesRollback, Release
<1>14. CASE RecoverFails
  BY <1>0, <1>14, ServerMoves DEF RecoverFails, Release
<1>15. CASE StartupApply
  BY <1>0, <1>15, ServerMoves DEF StartupApply
<1>16. CASE Apply
  BY <1>0, <1>16, ServerMoves DEF Apply
<1>17. CASE StopServing
  BY <1>0, <1>17, ServerMoves DEF StopServing
<1>18. CASE Download
  BY <1>0, <1>18, ServerMoves DEF Download
<1>19. CASE Prepare
  BY <1>0, <1>19, PrepareWrites, DiskMoves DEF Prepare
<1>20. CASE Backup
  BY <1>0, <1>20, ServerMoves, DiskMoves DEF Backup
<1>21. CASE Swap
  BY <1>0, <1>21, ServerMoves, DiskMoves DEF Swap
<1>22. CASE SaveActivated
  BY <1>0, <1>22, ActivationMoves
<1>23. CASE Handoff
  BY <1>0, <1>23, ServerMoves, OpeningMoves DEF Handoff
<1>24. CASE Exit
  BY <1>0, <1>24, ServerMoves DEF Exit, Release
<1>25. CASE InstallFails
  BY <1>0, <1>25, ServerMoves DEF InstallFails, Release, InstallSteps
<1>26. CASE HaltedExits
  BY <1>0, <1>26, ServerMoves DEF HaltedExits
<1>27. CASE Start
  <2>1. /\ disk' = disk
        /\ srv' = srv \/ Boots
    BY <1>27, Launches DEF Start
  <2> QED BY <1>0, <2>1
<1>28. CASE HelperOpens
  BY <1>0, <1>28, OpeningMoves DEF HelperOpens
<1>29. CASE HelperWaits
  BY <1>0, <1>29, HelperMoves DEF HelperWaits
<1>30. CASE HelperBacksUp
  BY <1>0, <1>30, HelperMoves, DiskMoves DEF HelperBacksUp
<1>31. CASE HelperSwaps
  BY <1>0, <1>31, HelperMoves, DiskMoves DEF FilesInv, HelperSwaps
<1>32. CASE HelperGivesUp
  BY <1>0, <1>32, HelperMoves DEF HelperGivesUp, Release
<1>33. CASE HelperSpawns
  <2>1. /\ disk' = disk
        /\ srv' = srv \/ Boots
    BY <1>33, Launches DEF HelperSpawns
  <2> QED BY <1>0, <2>1
<1>34. CASE HelperSpawnFails
  BY <1>0, <1>34, HelperMoves DEF HelperSpawnFails
<1>35. CASE HelperSeesConfirmed
  BY <1>0, <1>35, HelperMoves DEF HelperSeesConfirmed
<1>36. CASE HelperLosesPatience
  BY <1>0, <1>36, HelperMoves DEF HelperLosesPatience
<1>37. CASE HelperKills
  BY <1>0, <1>37, HelperMoves, ServerMoves DEF HelperKills
<1>38. CASE HelperRestores
  BY <1>0, <1>38, HelperRestoreMoves, DiskMoves
<1>39. CASE HelperSavesRollback
  BY <1>0, <1>39, HelperMoves DEF HelperSavesRollback, Release
<1>40. CASE HelperSaveFails
  BY <1>0, <1>40, HelperMoves DEF HelperSaveFails, Release
<1>41. CASE HelperRestoresBare
  BY <1>0, <1>41, HelperMoves, DiskMoves DEF HelperRestoresBare, Release
<1>42. CASE HelperRelaunches
  <2>1. /\ disk' = disk
        /\ srv' = srv \/ Boots
    BY <1>42, Launches DEF HelperRelaunches
  <2> QED BY <1>0, <2>1
<1>43. CASE HelperCleans
  BY <1>0, <1>43, HelperMoves, DiskMoves DEF HelperCleans
<1>44. CASE HelperClears
  BY <1>0, <1>44, HelperMoves, JournalMoves DEF HelperClears, Release
<1>45. CASE Publish
  BY <1>0, <1>45 DEF Publish
<1>46. CASE DeadlinePasses
  BY <1>0, <1>46, JournalMoves DEF DeadlinePasses
<1>47. CASE Crash
  BY <1>0, <1>47, ServerMoves, HelperMoves DEF Crash
<1>48. CASE UNCHANGED vars
  BY <1>0, <1>48 DEF vars
<1> QED BY <1>1, <1>2, <1>3, <1>4, <1>5, <1>6, <1>7, <1>8, <1>9, <1>10, <1>11, <1>12,
           <1>13, <1>14, <1>15, <1>16, <1>17, <1>18, <1>19, <1>20, <1>21, <1>22, <1>23,
           <1>24, <1>25, <1>26, <1>27, <1>28, <1>29, <1>30, <1>31, <1>32, <1>33, <1>34,
           <1>35, <1>36, <1>37, <1>38, <1>39, <1>40, <1>41, <1>42, <1>43, <1>44, <1>45,
           <1>46, <1>47, <1>48
   DEF Next, ServerStep, HelperStep

-----------------------------------------------------------------------------
(* The invariant, and what it shows.                                       *)

LEMMA InvInit == Init => IInv
<1> SUFFICES ASSUME Init PROVE IInv
  OBVIOUS
<1>1. /\ srv.pc = "idle" /\ srv.ver = 1 /\ ~srv.child /\ srv.op = NoOp
      /\ helper.pc = "off" /\ helper.op = NoOp
  BY DEF Init, NoServer, NoHelper
<1>2. /\ disk.live = 1 /\ journal.phase = "none" /\ ~journal.failed /\ ~NoOp.failed
      /\ lock = "free" /\ proven = {1} /\ gaps = {}
  BY DEF Init, NoOp
<1>3. TypeOK
  <2>1. NoOp \in Operations
    BY Limits DEF Operations, NoOp, Phases
  <2>2. srv \in Servers
    <3>1. srv = [NoServer EXCEPT !.pc = "idle", !.ver = 1]
      BY DEF Init
    <3>2. "idle" \in ServerSteps /\ "dead" \in ServerSteps /\ 1 \in 0..MaxVersion /\ 0 \in 0..MaxVersion
      BY StepNames, Limits
    <3> QED BY <2>1, <3>1, <3>2 DEF Servers, NoServer
  <2>3. helper \in Helpers
    BY <2>1 DEF Init, Helpers, NoHelper, HelperSteps
  <2>4. disk \in Disks
    BY Limits DEF Init, Disks
  <2>5. spent \in Spendings
    BY Limits DEF Init, Spendings
  <2> QED BY <2>1, <2>2, <2>3, <2>4, <2>5, Limits
          DEF Init, TypeOK, Servers, Helpers, Disks, Spendings
<1>4. LockInv
  BY <1>1, <1>2 DEF LockInv, OwnSteps, HelperOwns, HelperSteps
<1>5. SelectionInv /\ RecoveryInv /\ HelperInv
  BY <1>1, <1>2, Limits DEF SelectionInv, RecoveryInv, HelperInv, HelperTrial
<1>6. FilesInv /\ AloneInv
  BY <1>1, <1>2 DEF FilesInv, AloneInv, ChildAlive, Unsettled
<1>7. Settled
  BY <1>1, <1>2
     DEF Settled, PhaseInv, ServerPlace, HelperPlace, OrderInv, OnTrial, Unsettled, HelperTrial,
         Sound, Reverting
<1> QED BY <1>3, <1>4, <1>5, <1>6, <1>7 DEF IInv, Basics

LEMMA InvStep == IInv /\ [Next]_vars => IInv'
<1> SUFFICES ASSUME IInv, [Next]_vars PROVE IInv'
  OBVIOUS
<1>1. Basics'
  BY TypeStep, LockStep, SelectionStep, RecoveryStep, HelperStepWorks, FilesStep, AloneStep
     DEF IInv, Basics
<1>2. ASSUME ~Twice'
      PROVE  Settled'
  <2>1. Basics /\ Settled
    BY <1>2, SettledTypes DEF IInv
  <2> QED BY <1>2, <2>1, PhaseStep, ServerPlaceStep, HelperPlaceStep, OrderStep DEF Settled
<1> QED BY <1>1, <1>2 DEF IInv

LEMMA InvImplies == IInv => UpdateSafe
<1> SUFFICES ASSUME IInv PROVE UpdateSafe
  OBVIOUS
<1>1. Recoverable
  BY DEF IInv, Twice, Settled, PhaseInv, OnTrial, Unsettled, Pre, Post, Sound, Repair, Recoverable
<1>2. RolledBackIsRestored
  <2>1. CASE Twice
    BY <2>1 DEF Twice, RolledBackIsRestored
  <2>2. CASE Settled /\ journal.phase = "rolled-back" /\ ~journal.failed
    <3>1. disk.live < journal.version /\ Sound
      BY <2>2 DEF Settled, PhaseInv, Unsettled
    <3>2. disk.live \in Nat /\ journal.version \in Nat
      <4>1. TypeOK /\ journal \in Operations
        BY Fields DEF IInv, Basics
      <4>2. journal.version \in 0..MaxVersion /\ disk.live \in Versions
        BY <4>1, Fields, OperationEdits
      <4> QED BY <4>2, Limits DEF Versions
    <3> QED BY <3>1, <3>2 DEF RolledBackIsRestored, Sound, Repair
  <2> QED BY <2>1, <2>2 DEF IInv, RolledBackIsRestored
<1>3. RollbackAlone
  BY DEF IInv, Basics, AloneInv, RollbackAlone
<1> QED BY <1>1, <1>2, <1>3 DEF UpdateSafe, IInv, Basics

\* At every moment a version that proved healthy can be had again: it is live,
\* or the backup of a record the next start acts on; a record of a rollback is
\* true of the files; and the helper never restores beside the child it gave up
\* on.  For all versions, kills and faults, up to the named gaps of the code.
THEOREM UpdateTheorem == Spec => []UpdateSafe
<1>1. Spec => []IInv
  BY InvInit, InvStep, PTL DEF Spec
<1>2. []IInv => []UpdateSafe
  BY InvImplies, PTL
<1> QED BY <1>1, <1>2, PTL

-----------------------------------------------------------------------------
(* The transaction is the abstract one.                                    *)

\* Until a gap is met, no proven version is newer than the one to rely on, and
\* a version on trial is not proven; a late acknowledgement may come between
\* the helper's restore and its record.
Newest ==
    \/ /\ \A v \in proven : v <= Base
       /\ Unsettled /\ disk.live = journal.version => disk.live \notin proven
    \/ helper.pc = "undoSave" /\ journal.phase = "confirmed"

\* The version of the record that runs is the one that is live, until the
\* helper restores the other.
Acknowledgeable ==
    srv.pc \in {"booting", "ready", "pending", "ackLoad", "ackSave"}
      /\ Unsettled /\ srv.ver = journal.version
    => disk.live = journal.version \/ helper.pc = "undoSave"

Undisturbed == gaps = {} => Newest /\ Acknowledgeable

\* What a step does to the two versions.
Stays ==
    /\ Base' = Base /\ Trial' = Trial /\ proven' = proven
    /\ Unsettled' => \/ /\ Unsettled /\ journal'.version = journal.version
                        /\ disk'.live = disk.live
                     \/ disk'.live < journal'.version
    /\ helper.pc = "undoSave" /\ journal.phase = "confirmed" =>
         helper'.pc = "undoSave" /\ journal'.phase = "confirmed"
Tries ==
    /\ Unsettled /\ disk.live \in proven /\ proven' = proven
    /\ disk'.live \in (disk.live + 1)..MaxVersion /\ disk'.backup = disk.live
Confirms ==
    /\ Unsettled /\ Post /\ disk' = disk /\ proven' = proven \cup {disk.live}
    /\ journal'.phase = "confirmed"
AcksLate ==
    /\ disk' = disk /\ disk.live \in proven /\ proven \subseteq proven'
    /\ helper'.pc = "undoSave" /\ journal'.phase = "confirmed"
Reverts ==
    /\ Unsettled /\ Post /\ disk'.live = disk.backup /\ proven' = proven /\ journal' = journal

LEMMA QuietFiles ==
  ASSUME disk' = disk, proven' = proven
  PROVE  Base' = Base /\ Trial' = Trial
BY DEF Base, Trial

LEMMA ProvenStays ==
  ASSUME disk.live \in proven, disk'.live = disk.live, proven' = proven
  PROVE  Base' = Base /\ Trial' = Trial
BY DEF Base, Trial

LEMMA Undistorted ==
  ASSUME Basics, gaps' = {}, [Next]_vars
  PROVE  gaps = {} /\ ~Repair /\ ~Repair' /\ ~Twice' /\ ~Twice
BY GapsGrow DEF Repair, Twice

\* Every step of an undisturbed transaction is of one of five kinds.
LEMMA KindStep ==
  ASSUME Basics, Settled, Acknowledgeable, gaps' = {}, [Next]_vars
  PROVE  Stays \/ Tries \/ Confirms \/ AcksLate \/ Reverts
<1>0. /\ TypeOK /\ mode' = mode /\ platform' = platform
      /\ platform \in {"posix", "windows", "bundle"}
      /\ srv.pc \in ServerSteps /\ helper.pc \in HelperSteps
      /\ disk.live \in Nat \ {0} /\ disk.backup \in Nat /\ disk.staged \in Nat
      /\ srv.ver \in Nat /\ srv.sel \in Nat /\ journal.version \in Nat
      /\ ~Repair /\ ~Repair' /\ ~Twice
  BY SettledTypes, Undistorted
<1> USE DEF PhaseInv, Pre, Post, Sound, Reverting, ServerPlace, HelperPlace, OrderInv,
            Basics, Settled, SelectionInv, RecoveryInv, HelperInv, LockInv, OwnSteps,
            HelperOwns, HelperSteps, Alive, HelperGoes, HelperGone, Goes, Gone, Boots,
            Restorable, OnTrial, Unsettled, HelperTrial, Stays
<1>1. CASE BootFails
  <2>1. disk' = disk /\ proven' = proven
    BY <1>1 DEF BootFails
  <2>2. Base' = Base /\ Trial' = Trial
    BY <2>1, QuietFiles
  <2> QED
    BY <1>0, <1>1, <2>1, <2>2, ServerMoves
       DEF BootFails, FilesInv, Repair
<1>2. CASE Ready
  <2>1. disk' = disk /\ proven' = proven
    BY <1>2 DEF Ready
  <2>2. Base' = Base /\ Trial' = Trial
    BY <2>1, QuietFiles
  <2> QED
    BY <1>0, <1>2, <2>1, <2>2, ServerMoves
       DEF Ready, FilesInv, Repair
<1>3. CASE LoadPending
  <2>1. disk' = disk /\ proven' = proven
    BY <1>3 DEF LoadPending
  <2>2. Base' = Base /\ Trial' = Trial
    BY <2>1, QuietFiles
  <2> QED
    BY <1>0, <1>3, <2>1, <2>2, LoadMoves
       DEF LoadPending, FilesInv, Repair
<1>4. CASE OwnJournal
  <2>1. disk' = disk /\ proven' = proven
    BY <1>4 DEF OwnJournal
  <2>2. Base' = Base /\ Trial' = Trial
    BY <2>1, QuietFiles
  <2> QED
    BY <1>0, <1>4, <2>1, <2>2, ServerMoves
       DEF OwnJournal, FilesInv, Repair
<1>5. CASE AckLoad
  <2>1. disk' = disk /\ proven' = proven
    BY <1>5 DEF AckLoad
  <2>2. Base' = Base /\ Trial' = Trial
    BY <2>1, QuietFiles
  <2> QED
    BY <1>0, <1>5, <2>1, <2>2, LoadMoves
       DEF AckLoad, FilesInv, Repair
<1>6. CASE AckSave
  <2>1. /\ srv.pc = "ackSave" /\ proven' = proven \cup {srv.ver} /\ journal.phase = "activated"
        /\ srv.op.version = srv.ver /\ UNCHANGED <<disk, helper>> /\ journal'.phase = "confirmed"
    BY <1>0, <1>6, JournalMoves DEF AckSave
  <2>2. srv.ver = journal.version
    BY <2>1
  <2>3. CASE helper.pc = "undoSave"
    <3>1. ~helper.op.failed
      BY <1>0 DEF FilesInv
    <3> QED BY <1>0, <2>1, <2>3, <3>1 DEF AcksLate
  <2>4. CASE helper.pc # "undoSave"
    <3>1. disk.live = journal.version
      BY <2>1, <2>2, <2>4 DEF Acknowledgeable
    <3> QED BY <1>0, <2>1, <2>2, <3>1 DEF Confirms
  <2> QED BY <2>3, <2>4
<1>7. CASE Recover
  <2>1. disk' = disk /\ proven' = proven
    BY <1>7 DEF Recover
  <2>2. Base' = Base /\ Trial' = Trial
    BY <2>1, QuietFiles
  <2> QED
    BY <1>0, <1>7, <2>1, <2>2, LoadMoves
       DEF Recover, Release, FilesInv, Repair
<1>8. CASE Confirm
  <2>1. /\ srv.pc = "confirm" /\ proven' = proven \cup {srv.ver} /\ disk' = disk
        /\ journal'.phase = "confirmed" /\ srv.ver = journal.version /\ Post /\ Unsettled
    BY <1>0, <1>8, JournalMoves DEF Confirm
  <2> QED BY <1>0, <2>1 DEF Confirms
<1>9. CASE RecoverCleans
  <2>1. disk'.live = disk.live /\ UNCHANGED <<proven, journal>> /\ helper' = helper
    BY <1>0, <1>9, DiskMoves DEF RecoverCleans
  <2>2. disk.live \in proven
    BY <1>0, <2>1, <1>9 DEF RecoverCleans
  <2>3. Base' = Base /\ Trial' = Trial
    BY <2>1, <2>2, ProvenStays
  <2> QED BY <1>0, <2>1, <2>3, <1>9 DEF RecoverCleans
<1>10. CASE RecoverClears
  <2>1. disk' = disk /\ proven' = proven
    BY <1>10 DEF RecoverClears
  <2>2. Base' = Base /\ Trial' = Trial
    BY <2>1, QuietFiles
  <2> QED
    BY <1>0, <1>10, <2>1, <2>2, ServerMoves, JournalMoves
       DEF RecoverClears, Release, FilesInv, Repair
<1>11. CASE Suppress
  <2>1. disk' = disk /\ proven' = proven
    BY <1>11 DEF Suppress
  <2>2. Base' = Base /\ Trial' = Trial
    BY <2>1, QuietFiles
  <2> QED
    BY <1>0, <1>11, <2>1, <2>2, ServerMoves, JournalMoves
       DEF Suppress, Release, FilesInv, Repair
<1>12. CASE RecoverRestores
  <2>1. /\ srv.pc = "undo" /\ Post /\ Unsettled /\ UNCHANGED <<journal, helper, proven>>
        /\ disk' = Restored
    BY <1>0, <1>12, RestoreMoves DEF Repair
  <2>2. disk'.live = disk.backup
    BY <2>1, <1>0, DiskMoves
  <2> QED BY <2>1, <2>2 DEF Reverts
<1>13. CASE RecoverSavesRollback
  <2>1. disk' = disk /\ proven' = proven
    BY <1>13 DEF RecoverSavesRollback
  <2>2. Base' = Base /\ Trial' = Trial
    BY <2>1, QuietFiles
  <2> QED
    BY <1>0, <1>13, <2>1, <2>2, ServerMoves
       DEF RecoverSavesRollback, Release, FilesInv, Repair
<1>14. CASE RecoverFails
  <2>1. disk' = disk /\ proven' = proven
    BY <1>14 DEF RecoverFails
  <2>2. Base' = Base /\ Trial' = Trial
    BY <2>1, QuietFiles
  <2> QED
    BY <1>0, <1>14, <2>1, <2>2, ServerMoves
       DEF RecoverFails, Release, FilesInv, Repair
<1>15. CASE StartupApply
  <2>1. disk' = disk /\ proven' = proven
    BY <1>15 DEF StartupApply
  <2>2. Base' = Base /\ Trial' = Trial
    BY <2>1, QuietFiles
  <2> QED
    BY <1>0, <1>15, <2>1, <2>2, ServerMoves
       DEF StartupApply, FilesInv, Repair
<1>16. CASE Apply
  <2>1. disk' = disk /\ proven' = proven
    BY <1>16 DEF Apply
  <2>2. Base' = Base /\ Trial' = Trial
    BY <2>1, QuietFiles
  <2> QED
    BY <1>0, <1>16, <2>1, <2>2, ServerMoves
       DEF Apply, FilesInv, Repair
<1>17. CASE StopServing
  <2>1. disk' = disk /\ proven' = proven
    BY <1>17 DEF StopServing
  <2>2. Base' = Base /\ Trial' = Trial
    BY <2>1, QuietFiles
  <2> QED
    BY <1>0, <1>17, <2>1, <2>2, ServerMoves
       DEF StopServing, FilesInv, Repair
<1>18. CASE Download
  <2>1. disk' = disk /\ proven' = proven
    BY <1>18 DEF Download
  <2>2. Base' = Base /\ Trial' = Trial
    BY <2>1, QuietFiles
  <2> QED
    BY <1>0, <1>18, <2>1, <2>2, ServerMoves
       DEF Download, FilesInv, Repair
<1>19. CASE Prepare
  <2>1. UNCHANGED <<proven, helper>> /\ srv.pc = "prepare"
    BY <1>19 DEF Prepare
  <2>2. CASE srv'.pc = "halted" /\ UNCHANGED <<disk, journal>>
    BY <2>1, <2>2, QuietFiles
  <2>3. CASE /\ lock = "free" /\ ~Unsettled /\ disk' = PreparedDisk
             /\ journal'.phase = "staged" /\ journal'.version = srv.sel
    <3>1. disk'.live = disk.live /\ disk.live \in proven
      BY <1>0, <2>3, DiskMoves
    <3>2. Base' = Base /\ Trial' = Trial
      BY <2>1, <3>1, ProvenStays
    <3>3. disk.live < srv.sel
      BY <1>0, <2>1
    <3>4. helper.pc # "undoSave"
      BY <2>3
    <3> QED BY <2>1, <2>3, <3>1, <3>2, <3>3, <3>4
  <2> QED BY <1>19, <2>2, <2>3, PrepareWrites
<1>20. CASE Backup
  <2>1. disk'.live = disk.live /\ UNCHANGED <<proven, journal>> /\ helper' = helper
    BY <1>0, <1>20, DiskMoves DEF Backup
  <2>2. disk.live \in proven
    BY <1>0, <2>1, <1>20 DEF Backup
  <2>3. Base' = Base /\ Trial' = Trial
    BY <2>1, <2>2, ProvenStays
  <2> QED BY <1>0, <2>1, <2>3, <1>20 DEF Backup
<1>21. CASE Swap
  <2>1. /\ srv.pc = "swap" /\ disk' = Swapped /\ proven' = proven /\ Pre /\ Unsettled
        /\ srv.sel \in Versions /\ journal.version = srv.sel
    BY <1>0, <1>21 DEF Swap
  <2>2. disk'.live = srv.sel /\ disk'.backup = disk.live
    BY <1>0, <2>1, DiskMoves
  <2>3. disk.live < srv.sel /\ srv.sel \in 1..MaxVersion
    BY <1>0, <2>1 DEF Versions
  <2>4. Tries
    BY <1>0, <2>1, <2>2, <2>3, Limits DEF Tries
  <2> QED BY <2>4
<1>22. CASE SaveActivated
  <2>1. disk' = disk /\ proven' = proven
    BY <1>22, ActivationMoves DEF SaveActivated
  <2>2. Base' = Base /\ Trial' = Trial
    BY <2>1, QuietFiles
  <2> QED
    BY <1>0, <1>22, <2>1, <2>2, ActivationMoves
<1>23. CASE Handoff
  <2>1. disk' = disk /\ proven' = proven
    BY <1>23 DEF Handoff
  <2>2. Base' = Base /\ Trial' = Trial
    BY <2>1, QuietFiles
  <2> QED
    BY <1>0, <1>23, <2>1, <2>2, ServerMoves, OpeningMoves
       DEF Handoff, FilesInv, Repair
<1>24. CASE Exit
  <2>1. disk' = disk /\ proven' = proven
    BY <1>24 DEF Exit
  <2>2. Base' = Base /\ Trial' = Trial
    BY <2>1, QuietFiles
  <2> QED
    BY <1>0, <1>24, <2>1, <2>2, ServerMoves
       DEF Exit, Release, FilesInv, Repair
<1>25. CASE InstallFails
  <2>1. disk' = disk /\ proven' = proven
    BY <1>25 DEF InstallFails
  <2>2. Base' = Base /\ Trial' = Trial
    BY <2>1, QuietFiles
  <2> QED
    BY <1>0, <1>25, <2>1, <2>2, ServerMoves
       DEF InstallFails, Release, InstallSteps, FilesInv, Repair
<1>26. CASE HaltedExits
  <2>1. disk' = disk /\ proven' = proven
    BY <1>26 DEF HaltedExits
  <2>2. Base' = Base /\ Trial' = Trial
    BY <2>1, QuietFiles
  <2> QED
    BY <1>0, <1>26, <2>1, <2>2, ServerMoves
       DEF HaltedExits, FilesInv, Repair
<1>27. CASE Start
  <2>1. disk' = disk /\ proven' = proven
    BY <1>27 DEF Start
  <2>2. Base' = Base /\ Trial' = Trial
    BY <2>1, QuietFiles
  <2> QED
    BY <1>0, <1>27, <2>1, <2>2, Launches
       DEF Start, FilesInv, Repair
<1>28. CASE HelperOpens
  <2>1. disk' = disk /\ proven' = proven
    BY <1>28 DEF HelperOpens
  <2>2. Base' = Base /\ Trial' = Trial
    BY <2>1, QuietFiles
  <2> QED
    BY <1>0, <1>28, <2>1, <2>2, OpeningMoves
       DEF HelperOpens, FilesInv, Repair
<1>29. CASE HelperWaits
  <2>1. disk' = disk /\ proven' = proven
    BY <1>29 DEF HelperWaits
  <2>2. Base' = Base /\ Trial' = Trial
    BY <2>1, QuietFiles
  <2> QED
    BY <1>0, <1>29, <2>1, <2>2, HelperMoves
       DEF HelperWaits, FilesInv, Repair
<1>30. CASE HelperBacksUp
  <2>1. disk'.live = disk.live /\ UNCHANGED <<proven, journal>> /\ helper'.pc = "swap"
    BY <1>0, <1>30, DiskMoves, HelperMoves DEF HelperBacksUp
  <2>2. disk.live \in proven
    BY <1>0, <2>1, <1>30 DEF HelperBacksUp
  <2>3. Base' = Base /\ Trial' = Trial
    BY <2>1, <2>2, ProvenStays
  <2> QED BY <1>0, <2>1, <2>3, <1>30 DEF HelperBacksUp
<1>31. CASE HelperSwaps
  <2>1. /\ helper.pc = "swap" /\ disk' = Swapped /\ proven' = proven /\ disk.staged # 0
        /\ platform = "windows" /\ Pre /\ Unsettled /\ disk.backup = disk.live
    BY <1>0, <1>31 DEF HelperSwaps
  <2>2. disk'.live = journal.version /\ disk'.backup = disk.live
    BY <1>0, <2>1, DiskMoves DEF FilesInv
  <2>3. disk.live < journal.version /\ disk'.live \in 1..MaxVersion
    <3>1. journal.version \in 0..MaxVersion
      <4>1. journal \in Operations
        BY <1>0, Fields
      <4> QED BY <4>1, OperationEdits
    <3> QED BY <1>0, <2>1, <2>2, <3>1, Limits
  <2>4. Tries
    BY <1>0, <2>1, <2>2, <2>3, Limits DEF Tries
  <2> QED BY <2>4
<1>32. CASE HelperGivesUp
  <2>1. disk' = disk /\ proven' = proven
    BY <1>32 DEF HelperGivesUp
  <2>2. Base' = Base /\ Trial' = Trial
    BY <2>1, QuietFiles
  <2> QED
    BY <1>0, <1>32, <2>1, <2>2, HelperMoves
       DEF HelperGivesUp, Release, FilesInv, Repair
<1>33. CASE HelperSpawns
  <2>1. disk' = disk /\ proven' = proven
    BY <1>33 DEF HelperSpawns
  <2>2. Base' = Base /\ Trial' = Trial
    BY <2>1, QuietFiles
  <2> QED
    BY <1>0, <1>33, <2>1, <2>2, HelperMoves, Launches
       DEF HelperSpawns, FilesInv, Repair
<1>34. CASE HelperSpawnFails
  <2>1. disk' = disk /\ proven' = proven
    BY <1>34 DEF HelperSpawnFails
  <2>2. Base' = Base /\ Trial' = Trial
    BY <2>1, QuietFiles
  <2> QED
    BY <1>0, <1>34, <2>1, <2>2, HelperMoves
       DEF HelperSpawnFails, FilesInv, Repair
<1>35. CASE HelperSeesConfirmed
  <2>1. disk' = disk /\ proven' = proven
    BY <1>35 DEF HelperSeesConfirmed
  <2>2. Base' = Base /\ Trial' = Trial
    BY <2>1, QuietFiles
  <2> QED
    BY <1>0, <1>35, <2>1, <2>2, HelperMoves
       DEF HelperSeesConfirmed, FilesInv, Repair
<1>36. CASE HelperLosesPatience
  <2>1. disk' = disk /\ proven' = proven
    BY <1>36 DEF HelperLosesPatience
  <2>2. Base' = Base /\ Trial' = Trial
    BY <2>1, QuietFiles
  <2> QED
    BY <1>0, <1>36, <2>1, <2>2, HelperMoves
       DEF HelperLosesPatience, FilesInv, Repair
<1>37. CASE HelperKills
  <2>1. disk' = disk /\ proven' = proven
    BY <1>37 DEF HelperKills
  <2>2. Base' = Base /\ Trial' = Trial
    BY <2>1, QuietFiles
  <2> QED
    BY <1>0, <1>37, <2>1, <2>2, HelperMoves, ServerMoves
       DEF HelperKills, FilesInv, Repair
<1>38. CASE HelperRestores
  <2>1. /\ helper.pc = "undo" /\ Unsettled /\ UNCHANGED <<journal, proven>>
        /\ disk' = Restored /\ disk.backup # 0
    BY <1>0, <1>38, HelperRestoreMoves DEF Repair
  <2>2. disk'.live = disk.backup
    BY <2>1, <1>0, DiskMoves
  <2>3. CASE Post
    BY <2>1, <2>2, <2>3 DEF Reverts
  <2>4. CASE Pre
    <3>1. platform # "bundle"
      BY <1>0, <2>1, <2>4
    <3>2. disk'.live = disk.live /\ disk.live \in proven
      BY <1>0, <2>1, <2>2, <2>4, <3>1
    <3>3. Base' = Base /\ Trial' = Trial
      BY <2>1, <3>2, ProvenStays
    <3> QED BY <2>1, <3>2, <3>3
  <2> QED BY <2>1, <2>3, <2>4
<1>39. CASE HelperSavesRollback
  <2>1. disk' = disk /\ proven' = proven
    BY <1>39 DEF HelperSavesRollback
  <2>2. Base' = Base /\ Trial' = Trial
    BY <2>1, QuietFiles
  <2> QED
    BY <1>0, <1>39, <2>1, <2>2, HelperMoves
       DEF HelperSavesRollback, Release, FilesInv, Repair
<1>40. CASE HelperSaveFails
  <2>1. disk' = disk /\ proven' = proven
    BY <1>40 DEF HelperSaveFails
  <2>2. Base' = Base /\ Trial' = Trial
    BY <2>1, QuietFiles
  <2> QED
    BY <1>0, <1>40, <2>1, <2>2, HelperMoves
       DEF HelperSaveFails, Release, FilesInv, Repair
<1>41. CASE HelperRestoresBare
  <2>1. ~Restorable
    BY <1>41 DEF HelperRestoresBare
  <2>2. /\ UNCHANGED <<disk, proven, journal>> /\ helper.pc = "bareUndo"
    BY <1>41, <2>1 DEF HelperRestoresBare
  <2>3. Base' = Base /\ Trial' = Trial
    BY <2>2, QuietFiles
  <2> QED BY <2>2, <2>3
<1>42. CASE HelperRelaunches
  <2>1. disk' = disk /\ proven' = proven
    BY <1>42 DEF HelperRelaunches
  <2>2. Base' = Base /\ Trial' = Trial
    BY <2>1, QuietFiles
  <2> QED
    BY <1>0, <1>42, <2>1, <2>2, HelperMoves, Launches
       DEF HelperRelaunches, Release, FilesInv, Repair
<1>43. CASE HelperCleans
  <2>1. disk'.live = disk.live /\ UNCHANGED <<proven, journal>> /\ helper'.pc = "clear"
    BY <1>0, <1>43, DiskMoves, HelperMoves DEF HelperCleans
  <2>2. disk.live \in proven
    BY <1>0, <2>1, <1>43 DEF HelperCleans
  <2>3. Base' = Base /\ Trial' = Trial
    BY <2>1, <2>2, ProvenStays
  <2> QED BY <1>0, <2>1, <2>3, <1>43 DEF HelperCleans
<1>44. CASE HelperClears
  <2>1. disk' = disk /\ proven' = proven
    BY <1>44 DEF HelperClears
  <2>2. Base' = Base /\ Trial' = Trial
    BY <2>1, QuietFiles
  <2> QED
    BY <1>0, <1>44, <2>1, <2>2, HelperMoves, JournalMoves
       DEF HelperClears, Release, FilesInv, Repair
<1>45. CASE Publish
  <2>1. disk' = disk /\ proven' = proven
    BY <1>45 DEF Publish
  <2>2. Base' = Base /\ Trial' = Trial
    BY <2>1, QuietFiles
  <2> QED
    BY <1>0, <1>45, <2>1, <2>2
       DEF Publish, FilesInv, Repair
<1>46. CASE DeadlinePasses
  <2>1. disk' = disk /\ proven' = proven
    BY <1>46 DEF DeadlinePasses
  <2>2. Base' = Base /\ Trial' = Trial
    BY <2>1, QuietFiles
  <2> QED
    BY <1>0, <1>46, <2>1, <2>2, JournalMoves
       DEF DeadlinePasses, FilesInv, Repair
<1>47. CASE Crash
  <2>1. disk' = disk /\ proven' = proven
    BY <1>47 DEF Crash
  <2>2. Base' = Base /\ Trial' = Trial
    BY <2>1, QuietFiles
  <2> QED
    BY <1>0, <1>47, <2>1, <2>2, ServerMoves, HelperMoves
       DEF Crash, FilesInv, Repair
<1>48. CASE UNCHANGED vars
  <2>1. disk' = disk /\ proven' = proven
    BY <1>48 DEF vars
  <2>2. Base' = Base /\ Trial' = Trial
    BY <2>1, QuietFiles
  <2> QED BY <1>0, <1>48, <2>1, <2>2 DEF vars
<1> QED BY <1>1, <1>2, <1>3, <1>4, <1>5, <1>6, <1>7, <1>8, <1>9, <1>10, <1>11, <1>12,
           <1>13, <1>14, <1>15, <1>16, <1>17, <1>18, <1>19, <1>20, <1>21, <1>22, <1>23,
           <1>24, <1>25, <1>26, <1>27, <1>28, <1>29, <1>30, <1>31, <1>32, <1>33, <1>34,
           <1>35, <1>36, <1>37, <1>38, <1>39, <1>40, <1>41, <1>42, <1>43, <1>44, <1>45,
           <1>46, <1>47, <1>48
   DEF Next, ServerStep, HelperStep

\* A step keeps the running version of the record live.
LEMMA AcknowledgeableStep ==
  ASSUME Basics, Settled, Acknowledgeable, gaps' = {}, [Next]_vars
  PROVE  Acknowledgeable'
<1>0. /\ TypeOK /\ mode' = mode /\ platform' = platform
      /\ platform \in {"posix", "windows", "bundle"}
      /\ srv.pc \in ServerSteps /\ helper.pc \in HelperSteps
      /\ disk.live \in Nat \ {0} /\ disk.backup \in Nat /\ disk.staged \in Nat
      /\ srv.ver \in Nat /\ srv.sel \in Nat /\ journal.version \in Nat
      /\ ~Repair /\ ~Repair' /\ ~Twice
  BY SettledTypes, Undistorted
<1> USE DEF PhaseInv, Pre, Post, Sound, Reverting, ServerPlace, HelperPlace, OrderInv,
            Basics, Settled, SelectionInv, RecoveryInv, HelperInv, LockInv, OwnSteps,
            HelperOwns, HelperSteps, Alive, HelperGoes, HelperGone, Goes, Gone, Boots,
            Restorable, OnTrial, Unsettled, HelperTrial, Acknowledgeable
<1>1. CASE BootFails
  BY <1>0, <1>1, ServerMoves DEF BootFails
<1>2. CASE Ready
  BY <1>0, <1>2, ServerMoves DEF Ready
<1>3. CASE LoadPending
  BY <1>0, <1>3, LoadMoves DEF LoadPending
<1>4. CASE OwnJournal
  BY <1>0, <1>4, ServerMoves DEF OwnJournal
<1>5. CASE AckLoad
  BY <1>0, <1>5, LoadMoves DEF AckLoad
<1>6. CASE AckSave
  BY <1>0, <1>6, ServerMoves, JournalMoves DEF AckSave
<1>7. CASE Recover
  BY <1>0, <1>7, LoadMoves, OwnedSteps, OwnedStepFinds
     DEF Activated, Pristine, Recover, Release
<1>8. CASE Confirm
  BY <1>0, <1>8, ServerMoves, JournalMoves DEF Confirm
<1>9. CASE RecoverCleans
  BY <1>0, <1>9, ServerMoves, DiskMoves DEF RecoverCleans
<1>10. CASE RecoverClears
  BY <1>0, <1>10, ServerMoves, JournalMoves DEF RecoverClears, Release
<1>11. CASE Suppress
  BY <1>0, <1>11, ServerMoves, JournalMoves DEF Suppress, Release
<1>12. CASE RecoverRestores
  BY <1>0, <1>12, RestoreMoves, DiskMoves
<1>13. CASE RecoverSavesRollback
  BY <1>0, <1>13, ServerMoves DEF RecoverSavesRollback, Release
<1>14. CASE RecoverFails
  BY <1>0, <1>14, ServerMoves DEF RecoverFails, Release
<1>15. CASE StartupApply
  BY <1>0, <1>15, ServerMoves DEF StartupApply
<1>16. CASE Apply
  BY <1>0, <1>16, ServerMoves DEF Apply
<1>17. CASE StopServing
  BY <1>0, <1>17, ServerMoves DEF StopServing
<1>18. CASE Download
  BY <1>0, <1>18, ServerMoves DEF Download
<1>19. CASE Prepare
  BY <1>0, <1>19, PrepareWrites, DiskMoves DEF Prepare
<1>20. CASE Backup
  BY <1>0, <1>20, ServerMoves, DiskMoves DEF Backup
<1>21. CASE Swap
  BY <1>0, <1>21, ServerMoves, DiskMoves DEF Swap
<1>22. CASE SaveActivated
  BY <1>0, <1>22, ActivationMoves
<1>23. CASE Handoff
  BY <1>0, <1>23, ServerMoves, OpeningMoves DEF Handoff
<1>24. CASE Exit
  BY <1>0, <1>24, ServerMoves DEF Exit, Release
<1>25. CASE InstallFails
  BY <1>0, <1>25, ServerMoves DEF InstallFails, Release, InstallSteps
<1>26. CASE HaltedExits
  BY <1>0, <1>26, ServerMoves DEF HaltedExits
<1>27. CASE Start
  <2>1. UNCHANGED <<disk, journal>> /\ helper' = helper
        /\ (srv' = srv \/ Boots)
    BY <1>0, <1>27, Launches DEF Start
  <2> QED BY <1>0, <2>1
<1>28. CASE HelperOpens
  BY <1>0, <1>28, OpeningMoves DEF HelperOpens
<1>29. CASE HelperWaits
  BY <1>0, <1>29, HelperMoves DEF HelperWaits
<1>30. CASE HelperBacksUp
  BY <1>0, <1>30, HelperMoves, DiskMoves DEF HelperBacksUp
<1>31. CASE HelperSwaps
  BY <1>0, <1>31, HelperMoves, DiskMoves DEF FilesInv, HelperSwaps
<1>32. CASE HelperGivesUp
  BY <1>0, <1>32, HelperMoves DEF HelperGivesUp, Release
<1>33. CASE HelperSpawns
  <2>1. UNCHANGED <<disk, journal>> /\ helper.pc = "spawn"
        /\ (srv' = srv \/ Boots)
    BY <1>0, <1>33, Launches DEF HelperSpawns
  <2> QED BY <1>0, <2>1
<1>34. CASE HelperSpawnFails
  BY <1>0, <1>34, HelperMoves DEF HelperSpawnFails
<1>35. CASE HelperSeesConfirmed
  BY <1>0, <1>35, HelperMoves DEF HelperSeesConfirmed
<1>36. CASE HelperLosesPatience
  BY <1>0, <1>36, HelperMoves DEF HelperLosesPatience
<1>37. CASE HelperKills
  BY <1>0, <1>37, HelperMoves, ServerMoves DEF HelperKills
<1>38. CASE HelperRestores
  BY <1>0, <1>38, HelperRestoreMoves DEF Repair
<1>39. CASE HelperSavesRollback
  BY <1>0, <1>39, HelperMoves DEF HelperSavesRollback, Release
<1>40. CASE HelperSaveFails
  BY <1>0, <1>40, HelperMoves DEF HelperSaveFails, Release
<1>41. CASE HelperRestoresBare
  BY <1>0, <1>41, HelperMoves, DiskMoves DEF HelperRestoresBare, Release
<1>42. CASE HelperRelaunches
  <2>1. UNCHANGED <<disk, journal>> /\ helper.pc = "relaunch"
        /\ (srv' = srv \/ Boots)
    BY <1>0, <1>42, Launches DEF HelperRelaunches
  <2> QED BY <1>0, <2>1
<1>43. CASE HelperCleans
  BY <1>0, <1>43, HelperMoves, DiskMoves DEF HelperCleans
<1>44. CASE HelperClears
  BY <1>0, <1>44, HelperMoves, JournalMoves DEF HelperClears, Release
<1>45. CASE Publish
  BY <1>0, <1>45 DEF Publish
<1>46. CASE DeadlinePasses
  BY <1>0, <1>46, JournalMoves DEF DeadlinePasses
<1>47. CASE Crash
  BY <1>0, <1>47, ServerMoves, HelperMoves DEF FilesInv, Crash
<1>48. CASE UNCHANGED vars
  BY <1>0, <1>48 DEF vars
<1> QED BY <1>1, <1>2, <1>3, <1>4, <1>5, <1>6, <1>7, <1>8, <1>9, <1>10, <1>11, <1>12,
           <1>13, <1>14, <1>15, <1>16, <1>17, <1>18, <1>19, <1>20, <1>21, <1>22, <1>23,
           <1>24, <1>25, <1>26, <1>27, <1>28, <1>29, <1>30, <1>31, <1>32, <1>33, <1>34,
           <1>35, <1>36, <1>37, <1>38, <1>39, <1>40, <1>41, <1>42, <1>43, <1>44, <1>45,
           <1>46, <1>47, <1>48
   DEF Next, ServerStep, HelperStep
LEMMA NewestStep ==
  ASSUME Basics, Settled, Newest, Acknowledgeable, gaps' = {}, [Next]_vars
  PROVE  Newest'
<1>0. /\ disk.live \in Nat \ {0} /\ disk.backup \in Nat /\ Base \in Nat
      /\ \A v \in proven : v \in Nat
      /\ Stays \/ Tries \/ Confirms \/ AcksLate \/ Reverts
  <2>1. disk.live \in Nat \ {0} /\ disk.backup \in Nat /\ TypeOK
    BY SettledTypes, Undistorted
  <2>2. Base \in Nat
    BY <2>1 DEF Base
  <2>3. \A v \in proven : v \in Nat
    BY <2>1, Limits, Typing DEF Versions
  <2> QED BY <2>1, <2>2, <2>3, KindStep
<1>1. CASE Stays
  BY <1>0, <1>1 DEF Stays, Newest, Unsettled, Base
<1>2. CASE Tries
  <2>1. Base' = disk.live /\ Base = disk.live
    BY <1>0, <1>2 DEF Tries, Newest, Base, Unsettled
  <2> QED BY <1>0, <1>2, <2>1 DEF Tries, Newest, Unsettled
<1>3. CASE Confirms
  <2>1. Base' = disk.live /\ Base <= disk.live
    BY <1>0, <1>3 DEF Confirms, Base, Post
  <2>2. \A v \in proven' : v <= Base'
    BY <1>0, <1>3, <2>1 DEF Confirms, Newest, Unsettled
  <2> QED BY <1>3, <2>2 DEF Confirms, Newest, Unsettled
<1>4. CASE AcksLate
  BY <1>4 DEF AcksLate, Newest
<1>5. CASE Reverts
  <2>1. ~Repair
    BY Undistorted
  <2>2. Base = disk.backup /\ Base' = disk.backup /\ disk.backup < journal.version
    BY <1>0, <1>5, <2>1 DEF Reverts, Newest, Base, Post, Unsettled
  <2>3. disk'.live # journal'.version
    BY <1>0, <1>5, <2>2 DEF Reverts
  <2>4. \A v \in proven' : v <= Base'
    BY <1>0, <1>5, <2>2 DEF Reverts, Newest, Unsettled
  <2> QED BY <2>3, <2>4 DEF Newest
<1> QED BY <1>0, <1>1, <1>2, <1>3, <1>4, <1>5

\* Every step of an undisturbed transaction is one of the abstract one.
LEMMA AbstractStep ==
  ASSUME Basics, Settled, Newest, Acknowledgeable, gaps' = {}, [Next]_vars
  PROVE  [Abstract!Next]_<<Base, Trial>>
<1>0. /\ disk.live \in Nat \ {0} /\ disk.backup \in Nat /\ ~Repair
      /\ Stays \/ Tries \/ Confirms \/ AcksLate \/ Reverts
  BY SettledTypes, Undistorted, KindStep
<1>1. CASE Stays
  BY <1>1 DEF Stays
<1>2. CASE Tries
  <2>1. /\ disk.live \in proven /\ disk'.live > disk.live /\ disk'.backup = disk.live
        /\ proven' = proven /\ disk'.live \in (disk.live + 1)..MaxVersion
    BY <1>0, <1>2, Limits DEF Tries
  <2>2. disk'.live \notin proven
    <3>1. \A v \in proven : v <= disk.live
      BY <1>2, <2>1 DEF Tries, Newest, Unsettled, Base
    <3> QED BY <1>0, <2>1, <3>1, Limits
  <2>3. Trial = 0 /\ Base = disk.live /\ Trial' = disk'.live /\ Base' = disk.live
    BY <2>1, <2>2 DEF Trial, Base
  <2> QED BY <2>1, <2>3 DEF Abstract!Next, Abstract!Try
<1>3. CASE Confirms
  <2>1. disk' = disk /\ proven' = proven \cup {disk.live}
    BY <1>3 DEF Confirms
  <2>2. Base' = disk.live /\ Trial' = 0
    BY <2>1 DEF Base, Trial
  <2>3. CASE disk.live \in proven
    BY <2>2, <2>3 DEF Base, Trial
  <2>4. CASE disk.live \notin proven
    <3>1. Trial = disk.live /\ Trial # 0
      BY <1>0, <2>4 DEF Trial
    <3> QED BY <2>2, <3>1 DEF Abstract!Next, Abstract!Confirm
  <2> QED BY <2>3, <2>4
<1>4. CASE AcksLate
  BY <1>4 DEF AcksLate, Base, Trial
<1>5. CASE Reverts
  <2>1. disk.live \notin proven /\ disk.backup \in proven /\ proven' = proven
        /\ disk'.live = disk.backup
    BY <1>0, <1>5 DEF Reverts, Newest, Post, Unsettled
  <2>2. Trial = disk.live /\ Trial # 0 /\ Base = disk.backup /\ Trial' = 0 /\ Base' = disk.backup
    BY <1>0, <2>1 DEF Trial, Base
  <2> QED BY <2>2 DEF Abstract!Next, Abstract!Revert
<1> QED BY <1>0, <1>1, <1>2, <1>3, <1>4, <1>5

\* Until a known gap of the code is met, a trial starts from a settled version
\* and ends confirmed or reverted, whatever is killed, fails or is started
\* meanwhile.
THEOREM InstallTheorem == Spec => InstallsAtomically
<1>1. Init => Undisturbed
  <2> SUFFICES ASSUME Init PROVE Newest /\ Acknowledgeable
    BY DEF Undisturbed
  <2>1. disk.live = 1 /\ proven = {1} /\ journal.phase = "none" /\ srv.pc = "idle"
    BY DEF Init, NoOp, NoServer
  <2> QED BY <2>1 DEF Newest, Acknowledgeable, Base, Unsettled
<1>2. ASSUME IInv, Undisturbed, [Next]_vars, gaps' = {}
      PROVE  Basics /\ Settled /\ Newest /\ Acknowledgeable
  BY <1>2, Undistorted DEF IInv, Undisturbed
<1>3. IInv /\ Undisturbed /\ [Next]_vars => Undisturbed'
  BY <1>2, NewestStep, AcknowledgeableStep DEF Undisturbed
<1>4. IInv /\ Undisturbed /\ [Next]_vars => (gaps' = {} => [Abstract!Next]_<<Base, Trial>>)
  BY <1>2, AbstractStep
<1>5. Spec => [](IInv /\ Undisturbed)
  BY <1>1, <1>3, InvInit, InvStep, PTL DEF Spec
<1> QED BY <1>4, <1>5, PTL DEF Spec, InstallsAtomically

-----------------------------------------------------------------------------
(* No start installs the release whose rollback it was to sit out.         *)

\* The ways the record of a rollback is lost.
Excused == gaps \cap {"unsaved", "launch", "acked", "raced", "repair"} # {}

\* The debt is paid, outdated by a newer release, ...
Paid == owed = 0 \/ owed < latest

\* ... or kept by the record, or by the process that is about to write it.
Kept ==
    \/ Paid
    \/ journal.phase = "rolled-back" /\ journal.version = owed
    \/ srv.pc = "undoSave" /\ srv.op.version = owed
    \/ helper.pc = "undoSave" /\ helper.op.version = owed

\* A start that goes on to its check without having met the record is of a
\* version no older than the one that was rolled back.
Acknowledging ==
    \/ srv.pc \in {"undoSave", "ackLoad", "ackSave", "check"}
    \/ srv.pc = "pending" /\ srv.op.phase = "activated" /\ srv.op.version = srv.ver

Met == Acknowledging => Paid \/ owed <= srv.ver

\* An accepted installation is of a release the debt is not about.
Chosen == srv.pc \in {"stop", "download", "prepare"} => Paid /\ srv.ver < latest

\* A recovery that rewrites the journal does not find a record there.
Rewrites == srv.pc \in {"confirm", "undo", "undoSave", "clean", "clear"} =>
              journal.phase # "rolled-back"

\* Where a running image can be replaced, what the helper tries is past its swap.
Past == platform # "windows" /\ (journal.phase = "activated" \/ helper.pc \in HelperTrial) =>
          Post \/ Reverting

DebtInv == Kept /\ Met /\ Chosen /\ Rewrites /\ Past

LEMMA Unexcused ==
  ASSUME Basics, ~Excused', [Next]_vars
  PROVE  /\ ~Excused /\ ~Twice /\ ~Twice' /\ ~Repair /\ ~Repair'
         /\ "unsaved" \notin gaps' /\ "launch" \notin gaps' /\ "acked" \notin gaps'
         /\ "raced" \notin gaps'
         /\ owed \in Nat /\ latest \in Nat /\ latest <= latest'
<1>1. TypeOK /\ gaps \subseteq gaps'
  BY GapsGrow DEF Basics
<1>2. owed \in Nat /\ latest \in Nat
  BY <1>1, Typing, Limits DEF Versions
<1>3. latest' = latest \/ latest' = latest + 1
  BY DEF Next, ServerStep, HelperStep, BootFails, Ready, LoadPending, OwnJournal, AckLoad, AckSave,
         Recover, Confirm, RecoverCleans, RecoverClears, Suppress, RecoverRestores,
         RecoverSavesRollback, RecoverFails, StartupApply, Apply, StopServing, Download,
         Prepare, Backup, Swap, SaveActivated, Handoff, Exit, InstallFails, HaltedExits,
         Start, HelperOpens, HelperWaits, HelperBacksUp, HelperSwaps, HelperGivesUp,
         HelperSpawns, HelperSpawnFails, HelperSeesConfirmed, HelperLosesPatience,
         HelperKills, HelperRestores, HelperSavesRollback, HelperSaveFails,
         HelperRestoresBare, HelperRelaunches, HelperCleans, HelperClears, DeadlinePasses,
         Crash, Publish, vars
<1> QED BY <1>1, <1>2, <1>3 DEF Excused, Twice, Repair

\* Only a restore takes an operation back from past its swap.
LEMMA PastStep ==
  ASSUME Basics, Settled, DebtInv, ~Excused', [Next]_vars
  PROVE  Past'
<1>0. /\ TypeOK /\ mode' = mode /\ platform' = platform
      /\ platform \in {"posix", "windows", "bundle"}
      /\ srv.pc \in ServerSteps /\ helper.pc \in HelperSteps
      /\ disk.live \in Nat \ {0} /\ disk.backup \in Nat /\ disk.staged \in Nat
      /\ srv.ver \in Nat /\ srv.sel \in Nat /\ journal.version \in Nat
      /\ ~Excused /\ ~Twice /\ ~Twice' /\ ~Repair /\ ~Repair'
      /\ "unsaved" \notin gaps' /\ "launch" \notin gaps' /\ "acked" \notin gaps'
      /\ "raced" \notin gaps'
      /\ owed \in Nat /\ latest \in Nat /\ latest <= latest'
  BY SettledTypes, Unexcused
<1> USE DEF Basics, LockInv, OwnSteps, HelperOwns, HelperSteps, Alive, HelperGoes,
            HelperGone, Goes, Gone, Boots, Restorable, Unsettled, HelperTrial, DebtInv,
            Repair, Past, Post, Pre, Reverting, Settled, PhaseInv, ServerPlace,
            HelperPlace, SelectionInv, RecoveryInv, HelperInv, OnTrial, Sound
<1>1. CASE BootFails
  BY <1>0, <1>1, ServerMoves DEF BootFails
<1>2. CASE Ready
  BY <1>0, <1>2, ServerMoves DEF Ready
<1>3. CASE LoadPending
  BY <1>0, <1>3, LoadMoves DEF NoOp, LoadPending
<1>4. CASE OwnJournal
  BY <1>0, <1>4, ServerMoves DEF OwnJournal
<1>5. CASE AckLoad
  BY <1>0, <1>5, LoadMoves DEF AckLoad
<1>6. CASE AckSave
  BY <1>0, <1>6, ServerMoves, JournalMoves DEF AckSave
<1>7. CASE Recover
  BY <1>0, <1>7, LoadMoves, OwnedSteps, OwnedStepFinds DEF FilesInv, Recover, Release
<1>8. CASE Confirm
  BY <1>0, <1>8, ServerMoves, JournalMoves DEF Confirm
<1>9. CASE RecoverCleans
  BY <1>0, <1>9, ServerMoves, DiskMoves DEF RecoverCleans
<1>10. CASE RecoverClears
  BY <1>0, <1>10, ServerMoves, JournalMoves DEF RecoverClears, Release
<1>11. CASE Suppress
  BY <1>0, <1>11, ServerMoves, JournalMoves DEF Suppress, Release
<1>12. CASE RecoverRestores
  BY <1>0, <1>12, RestoreMoves, DiskMoves
<1>13. CASE RecoverSavesRollback
  BY <1>0, <1>13, ServerMoves DEF RecoverSavesRollback, Release
<1>14. CASE RecoverFails
  BY <1>0, <1>14, ServerMoves DEF RecoverFails, Release
<1>15. CASE StartupApply
  BY <1>0, <1>15, ServerMoves DEF StartupApply
<1>16. CASE Apply
  BY <1>0, <1>16, ServerMoves DEF Apply
<1>17. CASE StopServing
  BY <1>0, <1>17, ServerMoves DEF StopServing
<1>18. CASE Download
  BY <1>0, <1>18, ServerMoves DEF Download
<1>19. CASE Prepare
  BY <1>0, <1>19, PrepareWrites, DiskMoves DEF Prepare
<1>20. CASE Backup
  BY <1>0, <1>20, ServerMoves, DiskMoves DEF Backup
<1>21. CASE Swap
  BY <1>0, <1>21, ServerMoves, DiskMoves DEF Swap
<1>22. CASE SaveActivated
  BY <1>0, <1>22, ActivationMoves DEF SelectionInv
<1>23. CASE Handoff
  BY <1>0, <1>23, ServerMoves, OpeningMoves DEF Handoff
<1>24. CASE Exit
  BY <1>0, <1>24, ServerMoves DEF Exit, Release
<1>25. CASE InstallFails
  BY <1>0, <1>25, ServerMoves DEF InstallFails, Release, InstallSteps
<1>26. CASE HaltedExits
  BY <1>0, <1>26, ServerMoves DEF HaltedExits
<1>27. CASE Start
  BY <1>0, <1>27, Launches DEF Start
<1>28. CASE HelperOpens
  BY <1>0, <1>28, OpeningMoves DEF HelperOpens
<1>29. CASE HelperWaits
  BY <1>0, <1>29, HelperMoves DEF HelperWaits
<1>30. CASE HelperBacksUp
  BY <1>0, <1>30, HelperMoves, DiskMoves DEF HelperBacksUp
<1>31. CASE HelperSwaps
  BY <1>0, <1>31, HelperMoves, DiskMoves DEF FilesInv, HelperSwaps
<1>32. CASE HelperGivesUp
  BY <1>0, <1>32, HelperMoves DEF HelperGivesUp, Release
<1>33. CASE HelperSpawns
  BY <1>0, <1>33, HelperMoves, Launches DEF HelperSpawns
<1>34. CASE HelperSpawnFails
  BY <1>0, <1>34, HelperMoves DEF HelperSpawnFails
<1>35. CASE HelperSeesConfirmed
  BY <1>0, <1>35, HelperMoves DEF HelperSeesConfirmed
<1>36. CASE HelperLosesPatience
  BY <1>0, <1>36, HelperMoves DEF HelperLosesPatience
<1>37. CASE HelperKills
  BY <1>0, <1>37, HelperMoves, ServerMoves DEF HelperKills
<1>38. CASE HelperRestores
  BY <1>0, <1>38, HelperRestoreMoves, DiskMoves
<1>39. CASE HelperSavesRollback
  BY <1>0, <1>39, HelperMoves DEF HelperSavesRollback, Release
<1>40. CASE HelperSaveFails
  BY <1>0, <1>40, HelperMoves DEF HelperSaveFails, Release
<1>41. CASE HelperRestoresBare
  BY <1>0, <1>41, HelperMoves, DiskMoves DEF HelperRestoresBare, Release
<1>42. CASE HelperRelaunches
  BY <1>0, <1>42, HelperMoves, Launches DEF HelperRelaunches, Release
<1>43. CASE HelperCleans
  BY <1>0, <1>43, HelperMoves, DiskMoves DEF HelperCleans
<1>44. CASE HelperClears
  BY <1>0, <1>44, HelperMoves, JournalMoves DEF HelperClears, Release
<1>45. CASE Publish
  BY <1>0, <1>45 DEF Publish
<1>46. CASE DeadlinePasses
  BY <1>0, <1>46, JournalMoves DEF DeadlinePasses
<1>47. CASE Crash
  BY <1>0, <1>47, ServerMoves, HelperMoves DEF FilesInv, Crash
<1>48. CASE UNCHANGED vars
  BY <1>0, <1>48 DEF vars
<1> QED BY <1>1, <1>2, <1>3, <1>4, <1>5, <1>6, <1>7, <1>8, <1>9, <1>10, <1>11, <1>12,
           <1>13, <1>14, <1>15, <1>16, <1>17, <1>18, <1>19, <1>20, <1>21, <1>22, <1>23,
           <1>24, <1>25, <1>26, <1>27, <1>28, <1>29, <1>30, <1>31, <1>32, <1>33, <1>34,
           <1>35, <1>36, <1>37, <1>38, <1>39, <1>40, <1>41, <1>42, <1>43, <1>44, <1>45,
           <1>46, <1>47, <1>48
   DEF Next, ServerStep, HelperStep

\* A recovery that rewrites the journal found no record of a rollback.
LEMMA RewritesStep ==
  ASSUME Basics, Settled, DebtInv, ~Excused', [Next]_vars
  PROVE  Rewrites'
<1>0. /\ TypeOK /\ mode' = mode /\ platform' = platform
      /\ platform \in {"posix", "windows", "bundle"}
      /\ srv.pc \in ServerSteps /\ helper.pc \in HelperSteps
      /\ disk.live \in Nat \ {0} /\ disk.backup \in Nat /\ disk.staged \in Nat
      /\ srv.ver \in Nat /\ srv.sel \in Nat /\ journal.version \in Nat
      /\ ~Excused /\ ~Twice /\ ~Twice' /\ ~Repair /\ ~Repair'
      /\ "unsaved" \notin gaps' /\ "launch" \notin gaps' /\ "acked" \notin gaps'
      /\ "raced" \notin gaps'
      /\ owed \in Nat /\ latest \in Nat /\ latest <= latest'
  BY SettledTypes, Unexcused
<1> USE DEF Basics, LockInv, OwnSteps, HelperOwns, HelperSteps, Alive, HelperGoes,
            HelperGone, Goes, Gone, Boots, Restorable, Unsettled, HelperTrial, DebtInv,
            Repair, Rewrites, RecoveryInv
<1>1. CASE BootFails
  BY <1>0, <1>1, ServerMoves DEF BootFails
<1>2. CASE Ready
  BY <1>0, <1>2, ServerMoves DEF Ready
<1>3. CASE LoadPending
  BY <1>0, <1>3, LoadMoves DEF NoOp, LoadPending
<1>4. CASE OwnJournal
  BY <1>0, <1>4, ServerMoves DEF OwnJournal
<1>5. CASE AckLoad
  BY <1>0, <1>5, LoadMoves DEF AckLoad
<1>6. CASE AckSave
  BY <1>0, <1>6, ServerMoves, JournalMoves DEF AckSave
<1>7. CASE Recover
  BY <1>0, <1>7, LoadMoves, OwnedSteps, OwnedStepFinds DEF FilesInv, Recover, Release
<1>8. CASE Confirm
  BY <1>0, <1>8, ServerMoves, JournalMoves DEF Confirm
<1>9. CASE RecoverCleans
  BY <1>0, <1>9, ServerMoves, DiskMoves DEF RecoverCleans
<1>10. CASE RecoverClears
  BY <1>0, <1>10, ServerMoves, JournalMoves DEF RecoverClears, Release
<1>11. CASE Suppress
  BY <1>0, <1>11, ServerMoves, JournalMoves DEF Suppress, Release
<1>12. CASE RecoverRestores
  BY <1>0, <1>12, RestoreMoves, DiskMoves
<1>13. CASE RecoverSavesRollback
  BY <1>0, <1>13, ServerMoves DEF RecoverSavesRollback, Release
<1>14. CASE RecoverFails
  BY <1>0, <1>14, ServerMoves DEF RecoverFails, Release
<1>15. CASE StartupApply
  BY <1>0, <1>15, ServerMoves DEF StartupApply
<1>16. CASE Apply
  BY <1>0, <1>16, ServerMoves DEF Apply
<1>17. CASE StopServing
  BY <1>0, <1>17, ServerMoves DEF StopServing
<1>18. CASE Download
  BY <1>0, <1>18, ServerMoves DEF Download
<1>19. CASE Prepare
  BY <1>0, <1>19, PrepareWrites, DiskMoves DEF Prepare
<1>20. CASE Backup
  BY <1>0, <1>20, ServerMoves, DiskMoves DEF Backup
<1>21. CASE Swap
  BY <1>0, <1>21, ServerMoves, DiskMoves DEF Swap
<1>22. CASE SaveActivated
  BY <1>0, <1>22, ActivationMoves DEF SelectionInv
<1>23. CASE Handoff
  BY <1>0, <1>23, ServerMoves, OpeningMoves DEF Handoff
<1>24. CASE Exit
  BY <1>0, <1>24, ServerMoves DEF Exit, Release
<1>25. CASE InstallFails
  BY <1>0, <1>25, ServerMoves DEF InstallFails, Release, InstallSteps
<1>26. CASE HaltedExits
  BY <1>0, <1>26, ServerMoves DEF HaltedExits
<1>27. CASE Start
  BY <1>0, <1>27, Launches DEF Start
<1>28. CASE HelperOpens
  BY <1>0, <1>28, OpeningMoves DEF HelperOpens
<1>29. CASE HelperWaits
  BY <1>0, <1>29, HelperMoves DEF HelperWaits
<1>30. CASE HelperBacksUp
  BY <1>0, <1>30, HelperMoves, DiskMoves DEF HelperBacksUp
<1>31. CASE HelperSwaps
  BY <1>0, <1>31, HelperMoves, DiskMoves DEF FilesInv, HelperSwaps
<1>32. CASE HelperGivesUp
  BY <1>0, <1>32, HelperMoves DEF HelperGivesUp, Release
<1>33. CASE HelperSpawns
  BY <1>0, <1>33, HelperMoves, Launches DEF HelperSpawns
<1>34. CASE HelperSpawnFails
  BY <1>0, <1>34, HelperMoves DEF HelperSpawnFails
<1>35. CASE HelperSeesConfirmed
  BY <1>0, <1>35, HelperMoves DEF HelperSeesConfirmed
<1>36. CASE HelperLosesPatience
  BY <1>0, <1>36, HelperMoves DEF HelperLosesPatience
<1>37. CASE HelperKills
  BY <1>0, <1>37, HelperMoves, ServerMoves DEF HelperKills
<1>38. CASE HelperRestores
  BY <1>0, <1>38, HelperRestoreMoves, DiskMoves
<1>39. CASE HelperSavesRollback
  BY <1>0, <1>39, HelperMoves DEF HelperSavesRollback, Release
<1>40. CASE HelperSaveFails
  BY <1>0, <1>40, HelperMoves DEF HelperSaveFails, Release
<1>41. CASE HelperRestoresBare
  BY <1>0, <1>41, HelperMoves, DiskMoves DEF HelperRestoresBare, Release
<1>42. CASE HelperRelaunches
  BY <1>0, <1>42, HelperMoves, Launches DEF HelperRelaunches, Release
<1>43. CASE HelperCleans
  BY <1>0, <1>43, HelperMoves, DiskMoves DEF HelperCleans
<1>44. CASE HelperClears
  BY <1>0, <1>44, HelperMoves, JournalMoves DEF HelperClears, Release
<1>45. CASE Publish
  BY <1>0, <1>45 DEF Publish
<1>46. CASE DeadlinePasses
  BY <1>0, <1>46, JournalMoves DEF DeadlinePasses
<1>47. CASE Crash
  BY <1>0, <1>47, ServerMoves, HelperMoves DEF FilesInv, Crash
<1>48. CASE UNCHANGED vars
  BY <1>0, <1>48 DEF vars
<1> QED BY <1>1, <1>2, <1>3, <1>4, <1>5, <1>6, <1>7, <1>8, <1>9, <1>10, <1>11, <1>12,
           <1>13, <1>14, <1>15, <1>16, <1>17, <1>18, <1>19, <1>20, <1>21, <1>22, <1>23,
           <1>24, <1>25, <1>26, <1>27, <1>28, <1>29, <1>30, <1>31, <1>32, <1>33, <1>34,
           <1>35, <1>36, <1>37, <1>38, <1>39, <1>40, <1>41, <1>42, <1>43, <1>44, <1>45,
           <1>46, <1>47, <1>48
   DEF Next, ServerStep, HelperStep

\* What is accepted is newer than what was rolled back.
LEMMA ChosenStep ==
  ASSUME Basics, Settled, DebtInv, ~Excused', [Next]_vars
  PROVE  Chosen'
<1>0. /\ TypeOK /\ mode' = mode /\ platform' = platform
      /\ platform \in {"posix", "windows", "bundle"}
      /\ srv.pc \in ServerSteps /\ helper.pc \in HelperSteps
      /\ disk.live \in Nat \ {0} /\ disk.backup \in Nat /\ disk.staged \in Nat
      /\ srv.ver \in Nat /\ srv.sel \in Nat /\ journal.version \in Nat
      /\ ~Excused /\ ~Twice /\ ~Twice' /\ ~Repair /\ ~Repair'
      /\ "unsaved" \notin gaps' /\ "launch" \notin gaps' /\ "acked" \notin gaps'
      /\ "raced" \notin gaps'
      /\ owed \in Nat /\ latest \in Nat /\ latest <= latest'
  BY SettledTypes, Unexcused
<1> USE DEF Basics, LockInv, OwnSteps, HelperOwns, HelperSteps, Alive, HelperGoes,
            HelperGone, Goes, Gone, Boots, Restorable, Unsettled, HelperTrial, DebtInv,
            Repair, Chosen, Paid, Kept, Met, Acknowledging, SelectionInv, Past, Reverting,
            Post, OrderInv, Settled, HelperInv
<1>1. CASE BootFails
  BY <1>0, <1>1, ServerMoves DEF BootFails
<1>2. CASE Ready
  BY <1>0, <1>2, ServerMoves DEF Ready
<1>3. CASE LoadPending
  BY <1>0, <1>3, LoadMoves DEF NoOp, LoadPending
<1>4. CASE OwnJournal
  BY <1>0, <1>4, ServerMoves DEF OwnJournal
<1>5. CASE AckLoad
  BY <1>0, <1>5, LoadMoves DEF AckLoad
<1>6. CASE AckSave
  BY <1>0, <1>6, ServerMoves, JournalMoves DEF AckSave
<1>7. CASE Recover
  BY <1>0, <1>7, LoadMoves, OwnedSteps, OwnedStepFinds DEF FilesInv, Recover, Release
<1>8. CASE Confirm
  BY <1>0, <1>8, ServerMoves, JournalMoves DEF Confirm
<1>9. CASE RecoverCleans
  BY <1>0, <1>9, ServerMoves, DiskMoves DEF RecoverCleans
<1>10. CASE RecoverClears
  BY <1>0, <1>10, ServerMoves, JournalMoves DEF RecoverClears, Release
<1>11. CASE Suppress
  BY <1>0, <1>11, ServerMoves, JournalMoves DEF Suppress, Release
<1>12. CASE RecoverRestores
  BY <1>0, <1>12, RestoreMoves, DiskMoves
<1>13. CASE RecoverSavesRollback
  BY <1>0, <1>13, ServerMoves DEF RecoverSavesRollback, Release
<1>14. CASE RecoverFails
  BY <1>0, <1>14, ServerMoves DEF RecoverFails, Release
<1>15. CASE StartupApply
  BY <1>0, <1>15, ServerMoves DEF StartupApply
<1>16. CASE Apply
  BY <1>0, <1>16, ServerMoves DEF Apply
<1>17. CASE StopServing
  BY <1>0, <1>17, ServerMoves DEF StopServing
<1>18. CASE Download
  BY <1>0, <1>18, ServerMoves DEF Download
<1>19. CASE Prepare
  BY <1>0, <1>19, PrepareWrites, DiskMoves DEF Prepare
<1>20. CASE Backup
  BY <1>0, <1>20, ServerMoves, DiskMoves DEF Backup
<1>21. CASE Swap
  BY <1>0, <1>21, ServerMoves, DiskMoves DEF Swap
<1>22. CASE SaveActivated
  BY <1>0, <1>22, ActivationMoves DEF SelectionInv
<1>23. CASE Handoff
  BY <1>0, <1>23, ServerMoves, OpeningMoves DEF Handoff
<1>24. CASE Exit
  BY <1>0, <1>24, ServerMoves DEF Exit, Release
<1>25. CASE InstallFails
  BY <1>0, <1>25, ServerMoves DEF InstallFails, Release, InstallSteps
<1>26. CASE HaltedExits
  BY <1>0, <1>26, ServerMoves DEF HaltedExits
<1>27. CASE Start
  BY <1>0, <1>27, Launches DEF Start
<1>28. CASE HelperOpens
  BY <1>0, <1>28, OpeningMoves DEF HelperOpens
<1>29. CASE HelperWaits
  BY <1>0, <1>29, HelperMoves DEF HelperWaits
<1>30. CASE HelperBacksUp
  BY <1>0, <1>30, HelperMoves, DiskMoves DEF HelperBacksUp
<1>31. CASE HelperSwaps
  BY <1>0, <1>31, HelperMoves, DiskMoves DEF FilesInv, HelperSwaps
<1>32. CASE HelperGivesUp
  BY <1>0, <1>32, HelperMoves DEF HelperGivesUp, Release
<1>33. CASE HelperSpawns
  BY <1>0, <1>33, HelperMoves, Launches DEF HelperSpawns
<1>34. CASE HelperSpawnFails
  BY <1>0, <1>34, HelperMoves DEF HelperSpawnFails
<1>35. CASE HelperSeesConfirmed
  BY <1>0, <1>35, HelperMoves DEF HelperSeesConfirmed
<1>36. CASE HelperLosesPatience
  BY <1>0, <1>36, HelperMoves DEF HelperLosesPatience
<1>37. CASE HelperKills
  BY <1>0, <1>37, HelperMoves, ServerMoves DEF HelperKills
<1>38. CASE HelperRestores
  BY <1>0, <1>38, HelperRestoreMoves, DiskMoves
<1>39. CASE HelperSavesRollback
  BY <1>0, <1>39, HelperMoves DEF HelperSavesRollback, Release
<1>40. CASE HelperSaveFails
  BY <1>0, <1>40, HelperMoves DEF HelperSaveFails, Release
<1>41. CASE HelperRestoresBare
  BY <1>0, <1>41, HelperMoves, DiskMoves DEF HelperRestoresBare, Release
<1>42. CASE HelperRelaunches
  BY <1>0, <1>42, HelperMoves, Launches DEF HelperRelaunches, Release
<1>43. CASE HelperCleans
  BY <1>0, <1>43, HelperMoves, DiskMoves DEF HelperCleans
<1>44. CASE HelperClears
  BY <1>0, <1>44, HelperMoves, JournalMoves DEF HelperClears, Release
<1>45. CASE Publish
  BY <1>0, <1>45 DEF Publish
<1>46. CASE DeadlinePasses
  BY <1>0, <1>46, JournalMoves DEF DeadlinePasses
<1>47. CASE Crash
  BY <1>0, <1>47, ServerMoves, HelperMoves DEF FilesInv, Crash
<1>48. CASE UNCHANGED vars
  BY <1>0, <1>48 DEF vars
<1> QED BY <1>1, <1>2, <1>3, <1>4, <1>5, <1>6, <1>7, <1>8, <1>9, <1>10, <1>11, <1>12,
           <1>13, <1>14, <1>15, <1>16, <1>17, <1>18, <1>19, <1>20, <1>21, <1>22, <1>23,
           <1>24, <1>25, <1>26, <1>27, <1>28, <1>29, <1>30, <1>31, <1>32, <1>33, <1>34,
           <1>35, <1>36, <1>37, <1>38, <1>39, <1>40, <1>41, <1>42, <1>43, <1>44, <1>45,
           <1>46, <1>47, <1>48
   DEF Next, ServerStep, HelperStep

\* A start that misses the record is no older than the rollback.
LEMMA MetStep ==
  ASSUME Basics, Settled, DebtInv, ~Excused', [Next]_vars
  PROVE  Met'
<1>0. /\ TypeOK /\ mode' = mode /\ platform' = platform
      /\ platform \in {"posix", "windows", "bundle"}
      /\ srv.pc \in ServerSteps /\ helper.pc \in HelperSteps
      /\ disk.live \in Nat \ {0} /\ disk.backup \in Nat /\ disk.staged \in Nat
      /\ srv.ver \in Nat /\ srv.sel \in Nat /\ journal.version \in Nat
      /\ ~Excused /\ ~Twice /\ ~Twice' /\ ~Repair /\ ~Repair'
      /\ "unsaved" \notin gaps' /\ "launch" \notin gaps' /\ "acked" \notin gaps'
      /\ "raced" \notin gaps'
      /\ owed \in Nat /\ latest \in Nat /\ latest <= latest'
  BY SettledTypes, Unexcused
<1> USE DEF Basics, LockInv, OwnSteps, HelperOwns, HelperSteps, Alive, HelperGoes,
            HelperGone, Goes, Gone, Boots, Restorable, Unsettled, HelperTrial, DebtInv,
            Repair, Met, Chosen, Rewrites, Acknowledging, Paid, Kept, Past, Reverting,
            Post, OrderInv, Settled, HelperInv, RecoveryInv, OnTrial, ServerPlace
<1>1. CASE BootFails
  BY <1>0, <1>1, ServerMoves DEF BootFails
<1>2. CASE Ready
  BY <1>0, <1>2, ServerMoves DEF Ready
<1>3. CASE LoadPending
  BY <1>0, <1>3, LoadMoves DEF NoOp, LoadPending
<1>4. CASE OwnJournal
  BY <1>0, <1>4, ServerMoves DEF OwnJournal
<1>5. CASE AckLoad
  BY <1>0, <1>5, LoadMoves DEF AckLoad
<1>6. CASE AckSave
  BY <1>0, <1>6, ServerMoves, JournalMoves DEF AckSave
<1>7. CASE Recover
  BY <1>0, <1>7, LoadMoves, OwnedSteps, OwnedStepFinds DEF FilesInv, Recover, Release
<1>8. CASE Confirm
  BY <1>0, <1>8, ServerMoves, JournalMoves DEF Confirm
<1>9. CASE RecoverCleans
  BY <1>0, <1>9, ServerMoves, DiskMoves DEF RecoverCleans
<1>10. CASE RecoverClears
  BY <1>0, <1>10, ServerMoves, JournalMoves DEF RecoverClears, Release
<1>11. CASE Suppress
  BY <1>0, <1>11, ServerMoves, JournalMoves DEF Suppress, Release
<1>12. CASE RecoverRestores
  BY <1>0, <1>12, RestoreMoves, DiskMoves
<1>13. CASE RecoverSavesRollback
  BY <1>0, <1>13, ServerMoves DEF RecoverSavesRollback, Release
<1>14. CASE RecoverFails
  BY <1>0, <1>14, ServerMoves DEF RecoverFails, Release
<1>15. CASE StartupApply
  BY <1>0, <1>15, ServerMoves DEF StartupApply
<1>16. CASE Apply
  BY <1>0, <1>16, ServerMoves DEF Apply
<1>17. CASE StopServing
  BY <1>0, <1>17, ServerMoves DEF StopServing
<1>18. CASE Download
  BY <1>0, <1>18, ServerMoves DEF Download
<1>19. CASE Prepare
  BY <1>0, <1>19, PrepareWrites, DiskMoves DEF Prepare
<1>20. CASE Backup
  BY <1>0, <1>20, ServerMoves, DiskMoves DEF Backup
<1>21. CASE Swap
  BY <1>0, <1>21, ServerMoves, DiskMoves DEF Swap
<1>22. CASE SaveActivated
  BY <1>0, <1>22, ActivationMoves DEF SelectionInv
<1>23. CASE Handoff
  BY <1>0, <1>23, ServerMoves, OpeningMoves DEF Handoff
<1>24. CASE Exit
  BY <1>0, <1>24, ServerMoves DEF Exit, Release
<1>25. CASE InstallFails
  BY <1>0, <1>25, ServerMoves DEF InstallFails, Release, InstallSteps
<1>26. CASE HaltedExits
  BY <1>0, <1>26, ServerMoves DEF HaltedExits
<1>27. CASE Start
  BY <1>0, <1>27, Launches DEF Start
<1>28. CASE HelperOpens
  BY <1>0, <1>28, OpeningMoves DEF HelperOpens
<1>29. CASE HelperWaits
  BY <1>0, <1>29, HelperMoves DEF HelperWaits
<1>30. CASE HelperBacksUp
  BY <1>0, <1>30, HelperMoves, DiskMoves DEF HelperBacksUp
<1>31. CASE HelperSwaps
  BY <1>0, <1>31, HelperMoves, DiskMoves DEF FilesInv, HelperSwaps
<1>32. CASE HelperGivesUp
  BY <1>0, <1>32, HelperMoves DEF HelperGivesUp, Release
<1>33. CASE HelperSpawns
  BY <1>0, <1>33, HelperMoves, Launches DEF HelperSpawns
<1>34. CASE HelperSpawnFails
  BY <1>0, <1>34, HelperMoves DEF HelperSpawnFails
<1>35. CASE HelperSeesConfirmed
  BY <1>0, <1>35, HelperMoves DEF HelperSeesConfirmed
<1>36. CASE HelperLosesPatience
  BY <1>0, <1>36, HelperMoves DEF HelperLosesPatience
<1>37. CASE HelperKills
  BY <1>0, <1>37, HelperMoves, ServerMoves DEF HelperKills
<1>38. CASE HelperRestores
  BY <1>0, <1>38, HelperRestoreMoves, DiskMoves
<1>39. CASE HelperSavesRollback
  BY <1>0, <1>39, HelperMoves DEF HelperSavesRollback, Release
<1>40. CASE HelperSaveFails
  BY <1>0, <1>40, HelperMoves DEF HelperSaveFails, Release
<1>41. CASE HelperRestoresBare
  BY <1>0, <1>41, HelperMoves, DiskMoves DEF HelperRestoresBare, Release
<1>42. CASE HelperRelaunches
  BY <1>0, <1>42, HelperMoves, Launches DEF HelperRelaunches, Release
<1>43. CASE HelperCleans
  BY <1>0, <1>43, HelperMoves, DiskMoves DEF HelperCleans
<1>44. CASE HelperClears
  BY <1>0, <1>44, HelperMoves, JournalMoves DEF HelperClears, Release
<1>45. CASE Publish
  BY <1>0, <1>45 DEF Publish
<1>46. CASE DeadlinePasses
  BY <1>0, <1>46, JournalMoves DEF DeadlinePasses
<1>47. CASE Crash
  BY <1>0, <1>47, ServerMoves, HelperMoves DEF FilesInv, Crash
<1>48. CASE UNCHANGED vars
  BY <1>0, <1>48 DEF vars
<1> QED BY <1>1, <1>2, <1>3, <1>4, <1>5, <1>6, <1>7, <1>8, <1>9, <1>10, <1>11, <1>12,
           <1>13, <1>14, <1>15, <1>16, <1>17, <1>18, <1>19, <1>20, <1>21, <1>22, <1>23,
           <1>24, <1>25, <1>26, <1>27, <1>28, <1>29, <1>30, <1>31, <1>32, <1>33, <1>34,
           <1>35, <1>36, <1>37, <1>38, <1>39, <1>40, <1>41, <1>42, <1>43, <1>44, <1>45,
           <1>46, <1>47, <1>48
   DEF Next, ServerStep, HelperStep

\* Nothing but the named gaps loses the record of a rollback.
LEMMA KeptStep ==
  ASSUME Basics, Settled, DebtInv, ~Excused', [Next]_vars
  PROVE  Kept'
<1>0. /\ TypeOK /\ mode' = mode /\ platform' = platform
      /\ platform \in {"posix", "windows", "bundle"}
      /\ srv.pc \in ServerSteps /\ helper.pc \in HelperSteps
      /\ disk.live \in Nat \ {0} /\ disk.backup \in Nat /\ disk.staged \in Nat
      /\ srv.ver \in Nat /\ srv.sel \in Nat /\ journal.version \in Nat
      /\ ~Excused /\ ~Twice /\ ~Twice' /\ ~Repair /\ ~Repair'
      /\ "unsaved" \notin gaps' /\ "launch" \notin gaps' /\ "acked" \notin gaps'
      /\ "raced" \notin gaps'
      /\ owed \in Nat /\ latest \in Nat /\ latest <= latest'
  BY SettledTypes, Unexcused
<1> USE DEF Basics, LockInv, OwnSteps, HelperOwns, HelperSteps, Alive, HelperGoes,
            HelperGone, Goes, Gone, Boots, Restorable, Unsettled, HelperTrial, DebtInv,
            Repair, Kept, Chosen, Rewrites, Paid, HelperInv, RecoveryInv, FilesInv
<1>1. CASE BootFails
  BY <1>0, <1>1, ServerMoves DEF BootFails
<1>2. CASE Ready
  BY <1>0, <1>2, ServerMoves DEF Ready
<1>3. CASE LoadPending
  BY <1>0, <1>3, LoadMoves DEF NoOp, LoadPending
<1>4. CASE OwnJournal
  BY <1>0, <1>4, ServerMoves DEF OwnJournal
<1>5. CASE AckLoad
  BY <1>0, <1>5, LoadMoves DEF AckLoad
<1>6. CASE AckSave
  BY <1>0, <1>6, ServerMoves, JournalMoves DEF AckSave
<1>7. CASE Recover
  BY <1>0, <1>7, LoadMoves, OwnedSteps, OwnedStepFinds DEF FilesInv, Recover, Release
<1>8. CASE Confirm
  BY <1>0, <1>8, ServerMoves, JournalMoves DEF Confirm
<1>9. CASE RecoverCleans
  BY <1>0, <1>9, ServerMoves, DiskMoves DEF RecoverCleans
<1>10. CASE RecoverClears
  BY <1>0, <1>10, ServerMoves, JournalMoves DEF RecoverClears, Release
<1>11. CASE Suppress
  BY <1>0, <1>11, ServerMoves, JournalMoves DEF Suppress, Release
<1>12. CASE RecoverRestores
  BY <1>0, <1>12, RestoreMoves, DiskMoves
<1>13. CASE RecoverSavesRollback
  BY <1>0, <1>13, ServerMoves DEF RecoverSavesRollback, Release
<1>14. CASE RecoverFails
  BY <1>0, <1>14, ServerMoves DEF RecoverFails, Release
<1>15. CASE StartupApply
  BY <1>0, <1>15, ServerMoves DEF StartupApply
<1>16. CASE Apply
  BY <1>0, <1>16, ServerMoves DEF Apply
<1>17. CASE StopServing
  BY <1>0, <1>17, ServerMoves DEF StopServing
<1>18. CASE Download
  BY <1>0, <1>18, ServerMoves DEF Download
<1>19. CASE Prepare
  BY <1>0, <1>19, PrepareWrites, DiskMoves DEF Prepare
<1>20. CASE Backup
  BY <1>0, <1>20, ServerMoves, DiskMoves DEF Backup
<1>21. CASE Swap
  BY <1>0, <1>21, ServerMoves, DiskMoves DEF Swap
<1>22. CASE SaveActivated
  BY <1>0, <1>22, ActivationMoves DEF SelectionInv
<1>23. CASE Handoff
  BY <1>0, <1>23, ServerMoves, OpeningMoves DEF Handoff
<1>24. CASE Exit
  BY <1>0, <1>24, ServerMoves DEF Exit, Release
<1>25. CASE InstallFails
  BY <1>0, <1>25, ServerMoves DEF InstallFails, Release, InstallSteps
<1>26. CASE HaltedExits
  BY <1>0, <1>26, ServerMoves DEF HaltedExits
<1>27. CASE Start
  BY <1>0, <1>27, Launches DEF Start
<1>28. CASE HelperOpens
  BY <1>0, <1>28, OpeningMoves DEF HelperOpens
<1>29. CASE HelperWaits
  BY <1>0, <1>29, HelperMoves DEF HelperWaits
<1>30. CASE HelperBacksUp
  BY <1>0, <1>30, HelperMoves, DiskMoves DEF HelperBacksUp
<1>31. CASE HelperSwaps
  BY <1>0, <1>31, HelperMoves, DiskMoves DEF FilesInv, HelperSwaps
<1>32. CASE HelperGivesUp
  BY <1>0, <1>32, HelperMoves DEF HelperGivesUp, Release
<1>33. CASE HelperSpawns
  BY <1>0, <1>33, HelperMoves, Launches DEF HelperSpawns
<1>34. CASE HelperSpawnFails
  BY <1>0, <1>34, HelperMoves DEF HelperSpawnFails
<1>35. CASE HelperSeesConfirmed
  BY <1>0, <1>35, HelperMoves DEF HelperSeesConfirmed
<1>36. CASE HelperLosesPatience
  BY <1>0, <1>36, HelperMoves DEF HelperLosesPatience
<1>37. CASE HelperKills
  BY <1>0, <1>37, HelperMoves, ServerMoves DEF HelperKills
<1>38. CASE HelperRestores
  BY <1>0, <1>38, HelperRestoreMoves, DiskMoves
<1>39. CASE HelperSavesRollback
  BY <1>0, <1>39, HelperMoves DEF HelperSavesRollback, Release
<1>40. CASE HelperSaveFails
  BY <1>0, <1>40, HelperMoves DEF HelperSaveFails, Release
<1>41. CASE HelperRestoresBare
  BY <1>0, <1>41, HelperMoves, DiskMoves DEF HelperRestoresBare, Release
<1>42. CASE HelperRelaunches
  BY <1>0, <1>42, HelperMoves, Launches DEF HelperRelaunches, Release
<1>43. CASE HelperCleans
  BY <1>0, <1>43, HelperMoves, DiskMoves DEF HelperCleans
<1>44. CASE HelperClears
  BY <1>0, <1>44, HelperMoves, JournalMoves DEF HelperClears, Release
<1>45. CASE Publish
  BY <1>0, <1>45 DEF Publish
<1>46. CASE DeadlinePasses
  BY <1>0, <1>46, JournalMoves DEF DeadlinePasses
<1>47. CASE Crash
  BY <1>0, <1>47, ServerMoves, HelperMoves DEF FilesInv, Crash
<1>48. CASE UNCHANGED vars
  BY <1>0, <1>48 DEF vars
<1> QED BY <1>1, <1>2, <1>3, <1>4, <1>5, <1>6, <1>7, <1>8, <1>9, <1>10, <1>11, <1>12,
           <1>13, <1>14, <1>15, <1>16, <1>17, <1>18, <1>19, <1>20, <1>21, <1>22, <1>23,
           <1>24, <1>25, <1>26, <1>27, <1>28, <1>29, <1>30, <1>31, <1>32, <1>33, <1>34,
           <1>35, <1>36, <1>37, <1>38, <1>39, <1>40, <1>41, <1>42, <1>43, <1>44, <1>45,
           <1>46, <1>47, <1>48
   DEF Next, ServerStep, HelperStep

\* Only the automatic check leads from there to an installation.
LEMMA StepsToStop ==
  ASSUME Basics, srv.pc = "check", srv'.pc = "stop", [Next]_vars
  PROVE  srv'.sel = latest /\ latest > srv.ver
<1>0. TypeOK
  BY DEF Basics
<1> USE DEF Goes, Gone, Boots, Alive
<1>1. CASE StartupApply
  BY <1>0, <1>1, ServerMoves DEF StartupApply
<1>2. CASE srv' = srv
  BY <1>2
<1>3. CASE srv' = NoServer
  BY <1>0, <1>3, ServerMoves
<1>4. ~(SaveActivated \/ RecoverRestores \/ Start)
  BY <1>0, ActivationMoves, RestoreMoves, Launches
<1>5. srv' = srv \/ srv' = NoServer \/ StartupApply
  BY <1>4
     DEF Next, ServerStep, HelperStep, vars, BootFails, Ready, LoadPending, OwnJournal, AckLoad,
         AckSave, Recover, Confirm, RecoverCleans, RecoverClears, Suppress,
         RecoverSavesRollback, RecoverFails, Apply, StopServing, Download, Prepare, Backup,
         Swap, Handoff, Exit, InstallFails, InstallSteps, HaltedExits, HelperOpens,
         HelperWaits, HelperBacksUp, HelperSwaps, HelperGivesUp, HelperSpawns,
         HelperSpawnFails, HelperSeesConfirmed, HelperLosesPatience, HelperKills,
         HelperRestores, HelperSavesRollback, HelperSaveFails, HelperRestoresBare,
         HelperRelaunches, HelperCleans, HelperClears, Publish, DeadlinePasses, Crash
<1> QED BY <1>1, <1>2, <1>3, <1>5
\* No start installs by itself the release whose rollback it was to sit out:
\* the record of a rollback reaches the next start unless one of the named gaps
\* loses it, and a start that goes on without it runs a version no older.
THEOREM NoLoopTheorem == Spec => NoInstallLoop
<1>1. Init => DebtInv
  <2> SUFFICES ASSUME Init PROVE DebtInv
    OBVIOUS
  <2>1. owed = 0 /\ journal.phase = "none" /\ srv.pc = "idle" /\ helper.pc = "off"
    BY DEF Init, NoOp, NoServer, NoHelper
  <2> QED BY <2>1 DEF DebtInv, Kept, Paid, Met, Acknowledging, Chosen, Rewrites, Past, HelperTrial
<1>2. ASSUME IInv, Excused \/ DebtInv, [Next]_vars, ~Excused'
      PROVE  Basics /\ Settled /\ DebtInv
  <2>1. Basics
    BY <1>2 DEF IInv
  <2>2. ~Twice /\ ~Excused
    BY <1>2, <2>1, Unexcused
  <2> QED BY <1>2, <2>1, <2>2 DEF IInv
<1>3. IInv /\ (Excused \/ DebtInv) /\ [Next]_vars => (Excused \/ DebtInv)'
  BY <1>2, PastStep, RewritesStep, ChosenStep, MetStep, KeptStep DEF DebtInv
<1>4. ASSUME IInv, Excused \/ DebtInv, [Next]_vars, srv.pc = "check", srv'.pc = "stop"
      PROVE  \/ srv'.sel # owed
             \/ gaps \cap {"unsaved", "launch", "acked", "raced", "repair"} # {}
  <2>1. srv'.sel = latest /\ latest > srv.ver
    BY <1>4, StepsToStop DEF IInv
  <2>2. CASE DebtInv
    <3>1. Paid \/ owed <= srv.ver
      BY <1>4, <2>2 DEF DebtInv, Met, Acknowledging
    <3>2. latest \in Nat \ {0} /\ owed \in Nat /\ srv.ver \in Nat
      BY <1>4, Fields, Typing, Limits DEF IInv, Basics, Versions
    <3> QED BY <2>1, <3>1, <3>2 DEF Paid
  <2> QED BY <1>4, <2>2 DEF Excused
<1>5. Spec => [](IInv /\ (Excused \/ DebtInv))
  BY <1>1, <1>3, InvInit, InvStep, PTL DEF Spec
<1> QED BY <1>4, <1>5, PTL DEF Spec, NoInstallLoop
================================================================================
