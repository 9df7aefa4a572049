------------------------------ MODULE Updates ------------------------------
(***************************************************************************)
(* Self-update: the installation transaction of internal/application/      *)
(* updates (manager.go, recovery.go, install_unix.go, install_windows.go,  *)
(* install_darwin.go), run by two processes that share a directory.        *)
(*                                                                         *)
(* The server process serves, checks the published release, stages it,     *)
(* swaps it in and exits.  The helper process (or systemd) launches the    *)
(* new version, waits for its acknowledgement and rolls back otherwise.    *)
(* What they share survives both: the live file, its backup, the journal   *)
(* and the journal's lock.  Either process may be killed between any two   *)
(* steps; every file operation may fail.                                   *)
(*                                                                         *)
(* A version is a number; a file is the version of its content, so that    *)
(* equal digests are equal numbers.  0 is a missing file.  Time is         *)
(* abstracted to two events: the deadline of the journal passes, and the   *)
(* helper loses patience.                                                  *)
(***************************************************************************)
EXTENDS Naturals

CONSTANTS
    MaxVersion,     \* releases published in a behaviour, the first included
    Broken,         \* the versions that never become ready
    Modes,          \* <<platform, supervision>> pairs of this instance
    MaxOps,         \* bound on accepted installations
    MaxCrashes,     \* bound on kills of a process (or of the machine)
    MaxFaults       \* bound on failed file operations, downloads and spawns

Versions == 1..MaxVersion
AllModes == {<<"posix", "plain">>, <<"posix", "systemd">>,
             <<"windows", "plain">>, <<"bundle", "plain">>}

ASSUME UpdatesAssumption ==
    /\ MaxVersion \in Nat \ {0}
    /\ Broken \subseteq 2..MaxVersion
    /\ Modes \subseteq AllModes
    /\ MaxOps \in Nat /\ MaxCrashes \in Nat /\ MaxFaults \in Nat

VARIABLES
    mode,      \* the platform and the supervision of this installation
    disk,      \* the live path, the backup path of the operation, the staged file
    journal,   \* the operation record, or NoOp
    lock,      \* the owner of the journal's lock
    srv,       \* the server process
    helper,    \* the update helper process
    latest,    \* the published release
    spent,     \* the bounds: operations, kills and faults so far
    proven,    \* history: versions that acknowledged their health
    owed,      \* history: the version whose rollback is owed a quiet start
    gaps       \* history: the known gaps of the code this behaviour went through

vars == <<mode, disk, journal, lock, srv, helper, latest, spent, proven, owed, gaps>>

platform == mode[1]
systemd == mode[2] = "systemd"

NoOp == [id |-> 0, phase |-> "none", version |-> 0, prior |-> 0,
         late |-> FALSE, failed |-> FALSE]
NoServer == [pc |-> "dead", ver |-> 0, sel |-> 0, child |-> FALSE, op |-> NoOp]
NoHelper == [pc |-> "off", op |-> NoOp]

Phases == {"none", "staged", "activated", "confirmed", "rolled-back"}
Operations == [id : 0..MaxOps, phase : Phases, version : 0..MaxVersion,
               prior : 0..MaxVersion, late : BOOLEAN, failed : BOOLEAN]

\* The steps of the server during which it answers requests ...
RecoverSteps == {"pending", "own", "ackLoad", "ackSave", "confirm", "undo", "undoSave",
                 "clean", "clear", "suppress"}
ServingSteps == RecoverSteps \cup {"ready", "check", "idle", "stop"}
\* ... and those of an accepted installation after StopServing
InstallSteps == {"download", "prepare", "backup", "swap", "save", "handoff"}
ServerSteps == ServingSteps \cup InstallSteps
                 \cup {"dead", "booting", "halted", "exiting"}
HelperSteps == {"off", "lock", "wait", "backup", "swap", "spawn", "await", "kill", "undo",
                "undoSave", "bareUndo", "relaunch", "clean", "clear"}

\* "unsaved": killed or failed between the restore and its record; "repair": a
\* restore failed; "launch": the bare restore of Windows; "acked": a late
\* acknowledgement overwrote a rollback; "raced": a start read the record while
\* the helper was rolling back; "undone": the helper rolled an acknowledged
\* version back; "locked": the helper found the lock taken.
GapNames == {"unsaved", "repair", "launch", "acked", "raced", "undone", "locked"}

TypeOK ==
    /\ mode \in Modes
    /\ disk \in [live : Versions, backup : 0..MaxVersion, staged : 0..MaxVersion]
    /\ journal \in Operations
    /\ lock \in {"free", "server", "helper"}
    /\ srv \in [pc : ServerSteps, ver : 0..MaxVersion, sel : 0..MaxVersion,
                child : BOOLEAN, op : Operations]
    /\ helper \in [pc : HelperSteps, op : Operations]
    /\ latest \in Versions
    /\ spent \in [ops : 0..MaxOps, crashes : 0..MaxCrashes, faults : 0..MaxFaults,
                  disturbed : BOOLEAN]
    /\ proven \subseteq Versions
    /\ owed \in 0..MaxVersion
    /\ gaps \subseteq GapNames

\* An installed release that is running, nothing pending.
Init ==
    /\ mode \in Modes
    /\ disk = [live |-> 1, backup |-> 0, staged |-> 0]
    /\ journal = NoOp
    /\ lock = "free"
    /\ srv = [NoServer EXCEPT !.pc = "idle", !.ver = 1]
    /\ helper = NoHelper
    /\ latest = 1
    /\ spent = [ops |-> 0, crashes |-> 0, faults |-> 0, disturbed |-> FALSE]
    /\ proven = {1}
    /\ owed = 0
    /\ gaps = {}

Serving == srv.pc \in ServingSteps
Alive == srv.pc # "dead"

-----------------------------------------------------------------------------
(* What recovery sees and does (recovery.go).                              *)

\* liveState: does the live path carry the new content, and does it provably
\* still carry the content recorded before any mutation?  A bundle only
\* compares versions and never claims the second.
Activated(op) ==
    IF platform = "bundle" THEN disk.live = op.version
    ELSE IF disk.backup # 0 THEN disk.live # disk.backup
    ELSE disk.live # op.prior

Pristine(op) ==
    /\ platform # "bundle"
    /\ IF disk.backup # 0 THEN disk.live = disk.backup ELSE disk.live = op.prior

\* Mutant: an operation that was not acknowledged is debris.
EvaluateRecoveryDebris(op, ver) ==
    IF op.failed THEN "manual"
    ELSE CASE op.phase = "staged" -> IF Activated(op) THEN "rollback" ELSE "cleanup"
           [] op.phase = "activated" ->
                IF Activated(op) /\ ver = op.version /\ ~op.late THEN "acknowledge"
                ELSE "cleanup"
           [] op.phase = "confirmed" -> "cleanup"
           [] op.phase = "rolled-back" -> "suppress"
           [] OTHER -> "manual"

\* EvaluateRecovery: the action of a start of version ver that finds op.
EvaluateRecovery(op, ver) ==
    IF op.failed THEN "manual"
    ELSE CASE op.phase = "staged" -> IF Activated(op) THEN "rollback" ELSE "cleanup"
           [] op.phase = "activated" ->
                IF Activated(op) /\ ver = op.version /\ ~op.late THEN "acknowledge"
                ELSE IF Activated(op) \/ ~Pristine(op) THEN "rollback" ELSE "cleanup"
           [] op.phase = "confirmed" -> "cleanup"
           [] op.phase = "rolled-back" -> "suppress"
           [] OTHER -> "manual"

Exchanged == [disk EXCEPT !.live = disk.backup, !.backup = disk.live]

\* restoreFile renames the backup over the live path; a bundle is exchanged
\* back.  The rename needs a backup, and Windows refuses to replace the image
\* of a running process.
Restorable == disk.backup # 0 /\ (platform = "windows" => ~Alive)
Restored ==
    IF platform = "bundle" THEN Exchanged
    ELSE [disk EXCEPT !.live = disk.backup, !.backup = 0]

\* Cleanup removes the backup and every staged file of the operation.
Cleaned == [disk EXCEPT !.backup = 0, !.staged = 0]

\* Mutant: a restore that failed is not recorded.
RolledBackSilently(op, ok) == [op EXCEPT !.phase = "rolled-back"]

RolledBack(op, ok) == [op EXCEPT !.phase = "rolled-back", !.failed = ~ok]

MayFail == spent.faults < MaxFaults
Fault == spent' = [spent EXCEPT !.faults = @ + 1, !.disturbed = TRUE]

-----------------------------------------------------------------------------
(* The server process: start, recovery of a pending operation.             *)

SetPc(pc) == srv' = [srv EXCEPT !.pc = pc]
Release(p) == lock' = IF lock = p THEN "free" ELSE lock

\* A process for the live file: the user's, systemd's, or a spawned one.
Launched(child) == [NoServer EXCEPT !.pc = "booting", !.ver = disk.live, !.child = child]

\* systemd restarts always, a user may start the program at any time; a
\* second instance finds the port or the instance lock taken and is gone.
Start ==
    /\ ~Alive
    /\ srv' = Launched(FALSE)
    /\ spent' = [spent EXCEPT !.disturbed = @ \/ helper.pc # "off"]
    /\ UNCHANGED <<mode, disk, journal, lock, helper, latest, proven, owed, gaps>>

\* A broken release ends before it listens.
BootFails ==
    /\ srv.pc = "booting" /\ srv.ver \in Broken
    /\ srv' = NoServer
    /\ UNCHANGED <<mode, disk, journal, lock, helper, latest, spent, proven, owed, gaps>>

\* The listener is up: the server's BaseContext hook calls StartupApply.
Ready ==
    /\ srv.pc = "booting" /\ srv.ver \notin Broken
    /\ SetPc("ready")
    /\ UNCHANGED <<mode, disk, journal, lock, helper, latest, spent, proven, owed, gaps>>

\* recoverPending reads the record before it owns the journal.
LoadPending ==
    /\ srv.pc = "ready"
    /\ srv' = [srv EXCEPT !.pc = IF journal = NoOp THEN "check" ELSE "pending",
                          !.op = journal]
    /\ UNCHANGED <<mode, disk, journal, lock, helper, latest, spent, proven, owed, gaps>>

\* Mutant: the record of a rollback is not honoured while the helper has the lock.
OwnJournalForgets ==
    /\ srv.pc = "pending"
    /\ \/ /\ lock = "free" /\ lock' = "server"
          /\ SetPc("own")
       \/ /\ lock # "free" /\ lock' = lock
          /\ SetPc(IF srv.op.phase = "activated" /\ srv.op.version = srv.ver
                   THEN "ackLoad" ELSE "check")
    /\ UNCHANGED <<mode, disk, journal, helper, latest, spent, proven, owed, gaps>>

\* It then takes the lock; while the helper holds it, the new version only
\* acknowledges, and the version the helper relaunched stays quiet.
OwnJournal ==
    /\ srv.pc = "pending"
    /\ \/ /\ lock = "free" /\ lock' = "server"
          /\ SetPc("own")
          /\ owed' = owed
       \/ /\ lock # "free" /\ lock' = lock
          /\ SetPc(CASE srv.op.phase = "activated" /\ srv.op.version = srv.ver -> "ackLoad"
                     [] srv.op.phase = "rolled-back" -> "idle"
                     [] OTHER -> "check")
          /\ owed' = IF srv.op.phase = "rolled-back" THEN 0 ELSE owed
    /\ gaps' = IF srv'.pc = "check" THEN gaps \cup {"raced"} ELSE gaps
    /\ UNCHANGED <<mode, disk, journal, helper, latest, spent, proven>>

\* Journal.Acknowledge without ownership: load and compare ...
AckLoad ==
    /\ srv.pc = "ackLoad"
    /\ srv' = IF journal.phase = "activated" /\ journal.id = srv.op.id
              THEN [srv EXCEPT !.pc = "ackSave", !.op = journal]
              ELSE [srv EXCEPT !.pc = "check"]
    /\ UNCHANGED <<mode, disk, journal, lock, helper, latest, spent, proven, owed, gaps>>

\* ... then save the copy it read: a rollback the helper saved in between is
\* overwritten.
AckSave ==
    /\ srv.pc = "ackSave"
    /\ journal' = [srv.op EXCEPT !.phase = "confirmed"]
    /\ proven' = proven \cup {srv.ver}
    /\ gaps' = IF journal.phase = "activated" THEN gaps ELSE gaps \cup {"acked"}
    /\ SetPc("check")
    /\ UNCHANGED <<mode, disk, lock, helper, latest, spent, owed>>

\* Recover under the lock: load again, evaluate.
OwnedStep(op) ==
    IF op = NoOp THEN "check"
    ELSE LET action == EvaluateRecovery(op, srv.ver)
         IN  CASE action = "manual"      -> "check"
               [] action = "acknowledge" -> "confirm"
               [] action = "rollback"    -> "undo"
               [] action = "cleanup"     -> "clean"
               [] action = "suppress"    -> "suppress"

Recover ==
    /\ srv.pc = "own"
    /\ LET pc == OwnedStep(journal)
       IN  /\ srv' = [srv EXCEPT !.pc = pc, !.op = journal]
           /\ IF pc = "check" THEN Release("server") ELSE lock' = lock
    /\ UNCHANGED <<mode, disk, journal, helper, latest, spent, proven, owed, gaps>>

\* The healthy new version confirms, then cleans up.
Confirm ==
    /\ srv.pc = "confirm"
    /\ journal' = [srv.op EXCEPT !.phase = "confirmed"]
    /\ proven' = proven \cup {srv.ver}
    /\ SetPc("clean")
    /\ UNCHANGED <<mode, disk, lock, helper, latest, spent, owed, gaps>>

RecoverCleans ==
    /\ srv.pc = "clean"
    /\ disk' = Cleaned
    /\ SetPc("clear")
    /\ UNCHANGED <<mode, journal, lock, helper, latest, spent, proven, owed, gaps>>

RecoverClears ==
    /\ srv.pc = "clear"
    /\ journal' = NoOp
    /\ Release("server")
    /\ SetPc("check")
    /\ UNCHANGED <<mode, disk, helper, latest, spent, proven, owed, gaps>>

\* ConsumeSuppression: this start applies nothing.
Suppress ==
    /\ srv.pc = "suppress"
    /\ journal' = NoOp
    /\ Release("server")
    /\ SetPc("idle")
    /\ owed' = 0
    /\ UNCHANGED <<mode, disk, helper, latest, spent, proven, gaps>>

\* Rollback, first half: the previous installation goes back to the live path.
RecoverRestores ==
    /\ srv.pc = "undo"
    /\ \/ /\ Restorable
          /\ disk' = Restored
          /\ srv' = [srv EXCEPT !.pc = "undoSave", !.op = RolledBack(@, TRUE)]
          /\ owed' = srv.op.version
          /\ UNCHANGED <<spent, gaps>>
       \/ /\ ~Restorable \/ MayFail
          /\ srv' = [srv EXCEPT !.pc = "undoSave", !.op = RolledBack(@, FALSE)]
          /\ IF Restorable THEN Fault ELSE UNCHANGED spent
          /\ gaps' = gaps \cup {"repair"}
          /\ UNCHANGED <<disk, owed>>
    /\ UNCHANGED <<mode, journal, lock, helper, latest, proven>>

\* Rollback, second half: the record with the suppression of the next start.
\* This start goes on to its own check.
RecoverSavesRollback ==
    /\ srv.pc = "undoSave"
    /\ journal' = srv.op
    /\ Release("server")
    /\ SetPc("check")
    /\ UNCHANGED <<mode, disk, helper, latest, spent, proven, owed, gaps>>

\* Any of these writes may fail: recoverPending gives the lock back and the
\* start continues as if nothing had been pending.
RecoverFails ==
    /\ MayFail /\ srv.pc \in {"ackSave", "confirm", "clean", "clear", "suppress", "undoSave"}
    /\ SetPc(IF srv.pc = "suppress" THEN "idle" ELSE "check")
    /\ Release("server")
    /\ Fault
    /\ gaps' = IF srv.pc = "undoSave" THEN gaps \cup {"unsaved"} ELSE gaps
    /\ UNCHANGED <<mode, disk, journal, helper, latest, proven, owed>>

-----------------------------------------------------------------------------
(* The server process: an accepted installation (Manager.install).         *)

Accept == [srv EXCEPT !.pc = "stop", !.sel = latest]

\* StartupApply's one automatic apply; an upstream failure is only journaled.
StartupApply ==
    /\ srv.pc = "check"
    /\ \/ /\ latest > srv.ver /\ spent.ops < MaxOps
          /\ srv' = Accept
       \/ SetPc("idle")
    /\ UNCHANGED <<mode, disk, journal, lock, helper, latest, spent, proven, owed, gaps>>

\* Apply, at the user's request.
Apply ==
    /\ srv.pc = "idle" /\ latest > srv.ver /\ spent.ops < MaxOps
    /\ srv' = Accept
    /\ owed' = 0
    /\ UNCHANGED <<mode, disk, journal, lock, helper, latest, spent, proven, gaps>>

\* HTTP drains before the first byte is fetched.
StopServing ==
    /\ srv.pc = "stop"
    /\ SetPc("download")
    /\ UNCHANGED <<mode, disk, journal, lock, helper, latest, spent, proven, owed, gaps>>

\* Download, digest and extraction, retried up to three times, into files of
\* this process's own until Prepare records them.
Download ==
    /\ srv.pc = "download"
    /\ SetPc("prepare")
    /\ UNCHANGED <<mode, disk, journal, lock, helper, latest, spent, proven, owed, gaps>>

FirstMutation ==
    CASE platform = "posix" -> "backup" [] platform = "windows" -> "save"
      [] platform = "bundle" -> "swap"

\* OpenJournal and Prepare.  A staged or activated record, and a lock another
\* process holds, refuse; every other record is overwritten and with it the
\* path of its backup.  A bundle's backup path is the staged bundle.
PreparedDisk ==
    IF platform = "bundle" THEN [disk EXCEPT !.backup = srv.sel, !.staged = 0]
    ELSE [disk EXCEPT !.backup = 0, !.staged = srv.sel]

Refused == lock # "free" \/ journal.phase \in {"staged", "activated"}

Prepare ==
    /\ srv.pc = "prepare"
    /\ \/ /\ ~Refused /\ spent.ops < MaxOps
          /\ journal' = [NoOp EXCEPT !.id = spent.ops + 1, !.phase = "staged",
                                     !.version = srv.sel,
                                     !.prior = IF platform = "bundle" THEN 0 ELSE disk.live]
          /\ srv' = [srv EXCEPT !.pc = FirstMutation, !.op = journal']
          /\ disk' = PreparedDisk
          /\ lock' = "server"
          /\ spent' = [spent EXCEPT !.ops = @ + 1, !.disturbed = FALSE]
       \/ /\ Refused
          /\ SetPc("halted")
          /\ UNCHANGED <<disk, journal, lock, spent>>
    /\ UNCHANGED <<mode, helper, latest, proven, owed, gaps>>

\* backupFile: a second name for the live content.
Backup ==
    /\ srv.pc = "backup"
    /\ disk' = [disk EXCEPT !.backup = disk.live]
    /\ SetPc("swap")
    /\ UNCHANGED <<mode, journal, lock, helper, latest, spent, proven, owed, gaps>>

\* The rename over the live path, or the exchange of the two bundles.
Swapped ==
    IF platform = "bundle" THEN Exchanged
    ELSE [disk EXCEPT !.live = disk.staged, !.staged = 0]

Swap ==
    /\ srv.pc = "swap"
    /\ disk' = Swapped
    /\ SetPc("save")
    /\ UNCHANGED <<mode, journal, lock, helper, latest, spent, proven, owed, gaps>>

\* The activated phase with its deadline: after the swap, except on Windows.
SaveActivated ==
    /\ srv.pc = "save"
    /\ journal' = [srv.op EXCEPT !.phase = "activated"]
    /\ srv' = [srv EXCEPT !.pc = "handoff", !.op = journal']
    /\ UNCHANGED <<mode, disk, lock, helper, latest, spent, proven, owed, gaps>>

\* systemd gets a clean exit; otherwise the helper is spawned, detached.
Handoff ==
    /\ srv.pc = "handoff"
    /\ SetPc("exiting")
    /\ helper' = IF systemd THEN helper ELSE [NoHelper EXCEPT !.pc = "lock"]
    /\ UNCHANGED <<mode, disk, journal, lock, latest, spent, proven, owed, gaps>>

\* os.Exit: the process and its lock are gone.
Exit ==
    /\ srv.pc = "exiting"
    /\ srv' = NoServer
    /\ Release("server")
    /\ UNCHANGED <<mode, disk, journal, helper, latest, spent, proven, owed, gaps>>

\* A step of the pipeline fails: the journal is closed, the operation is
\* reported, nothing is undone and nothing serves.
InstallFails ==
    /\ MayFail /\ srv.pc \in InstallSteps \cup {"stop"}
    /\ SetPc("halted")
    /\ Release("server")
    /\ Fault
    /\ UNCHANGED <<mode, disk, journal, helper, latest, proven, owed, gaps>>

\* The headless server returns from runServe; a desktop user quits.
HaltedExits ==
    /\ srv.pc = "halted"
    /\ srv' = NoServer
    /\ UNCHANGED <<mode, disk, journal, lock, helper, latest, spent, proven, owed, gaps>>

-----------------------------------------------------------------------------
(* The helper process (RunUpdateHelper and the platform's runHelper).      *)

SetHelper(pc) == helper' = [helper EXCEPT !.pc = pc]
ChildAlive == Alive /\ srv.child

\* The journal is opened before the parent is waited for, without blocking:
\* a parent that still holds the lock makes the helper give up.
HelperOpens ==
    /\ helper.pc = "lock"
    /\ IF lock = "free" /\ journal.phase = "activated"
       THEN /\ lock' = "helper"
            /\ helper' = [pc |-> "wait", op |-> journal]
            /\ gaps' = gaps
       ELSE /\ lock' = lock
            /\ helper' = NoHelper
            /\ gaps' = IF lock = "free" THEN gaps ELSE gaps \cup {"locked"}
    /\ UNCHANGED <<mode, disk, journal, srv, latest, spent, proven, owed>>

HelperWaits ==
    /\ helper.pc = "wait" /\ srv.pc # "exiting"
    /\ SetHelper(IF platform = "windows" THEN "backup" ELSE "spawn")
    /\ UNCHANGED <<mode, disk, journal, lock, srv, latest, spent, proven, owed, gaps>>

\* Windows swaps here, once the old image is unlocked.
HelperBacksUp ==
    /\ helper.pc = "backup"
    /\ disk' = [disk EXCEPT !.backup = disk.live]
    /\ SetHelper("swap")
    /\ UNCHANGED <<mode, journal, lock, srv, latest, spent, proven, owed, gaps>>

\* Mutant: the staged file is not looked at.
HelperSwapsBlindly ==
    /\ helper.pc = "swap" /\ ~Alive
    /\ disk' = Swapped
    /\ SetHelper("spawn")
    /\ UNCHANGED <<mode, journal, lock, srv, latest, spent, proven, owed, gaps>>

HelperSwaps ==
    /\ helper.pc = "swap" /\ ~Alive /\ disk.staged # 0
    /\ disk' = Swapped
    /\ SetHelper("spawn")
    /\ UNCHANGED <<mode, journal, lock, srv, latest, spent, proven, owed, gaps>>

\* The swap fails, the image is in use again, or a start has cleaned the staged
\* file away: the helper gives up and leaves the rest to the next start.
HelperGivesUp ==
    /\ \/ helper.pc = "swap" /\ (Alive \/ disk.staged = 0) /\ UNCHANGED spent
       \/ helper.pc \in {"backup", "swap"} /\ MayFail /\ Fault
    /\ helper' = NoHelper
    /\ Release("helper")
    /\ UNCHANGED <<mode, disk, journal, srv, latest, proven, owed, gaps>>

\* The child of the helper ends at once beside a running instance.
HelperSpawns ==
    /\ helper.pc = "spawn"
    /\ srv' = IF Alive THEN srv ELSE Launched(TRUE)
    /\ SetHelper("await")
    /\ UNCHANGED <<mode, disk, journal, lock, latest, spent, proven, owed, gaps>>

\* The spawn itself fails: a rollback, but on Windows a bare restore.
HelperSpawnFails ==
    /\ helper.pc = "spawn" /\ MayFail
    /\ SetHelper(IF platform = "windows" THEN "bareUndo" ELSE "undo")
    /\ Fault
    /\ UNCHANGED <<mode, disk, journal, lock, srv, latest, proven, owed, gaps>>

HelperSeesConfirmed ==
    /\ helper.pc = "await" /\ journal.phase = "confirmed"
    /\ SetHelper("clean")
    /\ UNCHANGED <<mode, disk, journal, lock, srv, latest, spent, proven, owed, gaps>>

\* No acknowledgement in time, or the child is gone.
HelperLosesPatience ==
    /\ helper.pc = "await" /\ journal.phase # "confirmed"
    /\ SetHelper("kill")
    /\ UNCHANGED <<mode, disk, journal, lock, srv, latest, spent, proven, owed, gaps>>

\* Mutant: the unacknowledged child is left running.
HelperKillsNobody ==
    /\ helper.pc = "kill"
    /\ SetHelper("undo")
    /\ UNCHANGED <<mode, disk, journal, lock, srv, latest, spent, proven, owed, gaps>>

\* detachedProcess.stop: the child is killed and reaped.  An acknowledgement
\* that arrived since the last look at the journal is not noticed.
HelperKills ==
    /\ helper.pc = "kill"
    /\ srv' = IF ChildAlive THEN NoServer ELSE srv
    /\ SetHelper("undo")
    /\ UNCHANGED <<mode, disk, journal, lock, latest, spent, proven, owed, gaps>>

HelperRestores ==
    /\ helper.pc = "undo"
    /\ \/ /\ Restorable
          /\ disk' = Restored
          /\ helper' = [pc |-> "undoSave", op |-> RolledBack(helper.op, TRUE)]
          /\ owed' = helper.op.version
          /\ gaps' = IF journal.phase = "confirmed" THEN gaps \cup {"undone"} ELSE gaps
          /\ UNCHANGED spent
       \/ /\ ~Restorable \/ MayFail
          /\ helper' = [pc |-> "undoSave", op |-> RolledBack(helper.op, FALSE)]
          /\ IF Restorable THEN Fault ELSE UNCHANGED spent
          /\ gaps' = gaps \cup {"repair"}
          /\ UNCHANGED <<disk, owed>>
    /\ UNCHANGED <<mode, journal, lock, srv, latest, proven>>

\* Mutant: the previous version is restored but not started.
HelperForgetsRelaunch ==
    /\ helper.pc = "undoSave"
    /\ journal' = helper.op
    /\ helper' = NoHelper
    /\ Release("helper")
    /\ UNCHANGED <<mode, disk, srv, latest, spent, proven, owed, gaps>>

HelperSavesRollback ==
    /\ helper.pc = "undoSave"
    /\ journal' = helper.op
    /\ IF helper.op.failed THEN helper' = NoHelper /\ Release("helper")
       ELSE SetHelper("relaunch") /\ lock' = lock
    /\ gaps' = IF journal.phase = "confirmed" THEN gaps \cup {"undone"} ELSE gaps
    /\ UNCHANGED <<mode, disk, srv, latest, spent, proven, owed>>

\* A record that cannot be written ends the helper before its relaunch.
HelperSaveFails ==
    /\ helper.pc = "undoSave" /\ MayFail
    /\ helper' = NoHelper
    /\ Release("helper")
    /\ Fault
    /\ gaps' = gaps \cup {"unsaved"}
    /\ UNCHANGED <<mode, disk, journal, srv, latest, proven, owed>>

\* Windows, launch failed: the file goes back, the journal is not told.
HelperRestoresBare ==
    /\ helper.pc = "bareUndo"
    /\ IF Restorable
       THEN /\ disk' = Restored
            /\ SetHelper("relaunch")
            /\ owed' = helper.op.version
            /\ gaps' = gaps \cup {"launch"}
            /\ lock' = lock
       ELSE /\ helper' = NoHelper
            /\ Release("helper")
            /\ UNCHANGED <<disk, owed, gaps>>
    /\ UNCHANGED <<mode, journal, srv, latest, spent, proven>>

\* relaunchPrevious, the lock still held, then the helper ends.
HelperRelaunches ==
    /\ helper.pc = "relaunch"
    /\ srv' = IF Alive THEN srv ELSE Launched(FALSE)
    /\ helper' = NoHelper
    /\ Release("helper")
    /\ UNCHANGED <<mode, disk, journal, latest, spent, proven, owed, gaps>>

HelperCleans ==
    /\ helper.pc = "clean"
    /\ disk' = Cleaned
    /\ SetHelper("clear")
    /\ UNCHANGED <<mode, journal, lock, srv, latest, spent, proven, owed, gaps>>

HelperClears ==
    /\ helper.pc = "clear"
    /\ journal' = NoOp
    /\ helper' = NoHelper
    /\ Release("helper")
    /\ UNCHANGED <<mode, disk, srv, latest, spent, proven, owed, gaps>>

-----------------------------------------------------------------------------
(* The environment.                                                        *)

Publish ==
    /\ latest < MaxVersion
    /\ latest' = latest + 1
    /\ UNCHANGED <<mode, disk, journal, lock, srv, helper, spent, proven, owed, gaps>>

DeadlinePasses ==
    /\ journal.phase = "activated" /\ ~journal.late
    /\ journal' = [journal EXCEPT !.late = TRUE]
    /\ UNCHANGED <<mode, disk, lock, srv, helper, latest, spent, proven, owed, gaps>>

\* A kill of either process, or of the machine.
Crash ==
    /\ spent.crashes < MaxCrashes
    /\ \E who \in {{"server"}, {"helper"}, {"server", "helper"}} :
         /\ "server" \in who => Alive
         /\ "helper" \in who => helper.pc # "off"
         /\ srv' = IF "server" \in who THEN NoServer ELSE srv
         /\ helper' = IF "helper" \in who THEN NoHelper ELSE helper
         /\ lock' = IF lock \in who THEN "free" ELSE lock
         /\ gaps' = IF \/ "server" \in who /\ srv.pc = "undoSave" /\ ~srv.op.failed
                       \/ "helper" \in who /\ helper.pc = "undoSave" /\ ~helper.op.failed
                    THEN gaps \cup {"unsaved"} ELSE gaps
    /\ spent' = [spent EXCEPT !.crashes = @ + 1, !.disturbed = TRUE]
    /\ UNCHANGED <<mode, disk, journal, latest, proven, owed>>

ServerStep ==
    \/ BootFails \/ Ready \/ LoadPending \/ OwnJournal \/ AckLoad \/ AckSave
    \/ Recover \/ Confirm \/ RecoverCleans \/ RecoverClears \/ Suppress
    \/ RecoverRestores \/ RecoverSavesRollback \/ StartupApply \/ StopServing
    \/ Download \/ Prepare \/ Backup \/ Swap \/ SaveActivated \/ Handoff \/ Exit
    \/ HaltedExits

HelperStep ==
    \/ HelperOpens \/ HelperWaits \/ HelperBacksUp \/ HelperSwaps \/ HelperGivesUp
    \/ HelperSpawns \/ HelperSeesConfirmed \/ HelperLosesPatience \/ HelperKills
    \/ HelperRestores \/ HelperSavesRollback \/ HelperRestoresBare \/ HelperRelaunches
    \/ HelperCleans \/ HelperClears

Next ==
    \/ ServerStep \/ HelperStep
    \/ Start \/ Apply \/ RecoverFails \/ InstallFails \/ HelperSpawnFails \/ HelperSaveFails
    \/ Publish \/ DeadlinePasses \/ Crash

\* Processes run; a user need not start anything, systemd always does.
Fairness ==
    /\ WF_vars(ServerStep)
    /\ WF_vars(HelperStep)
    /\ WF_vars(systemd /\ Start)

Spec == Init /\ [][Next]_vars /\ Fairness

-----------------------------------------------------------------------------
(* Properties.                                                             *)

\* A version that has proved healthy is never lost: it is at the live path, or
\* it is the backup of a record a start still acts on.  Only a restore that
\* failed and the lost record of a restore (bundles then swap twice) may
\* break it.
Recoverable ==
    \/ disk.live \in proven
    \/ disk.backup \in proven /\ journal.phase \in {"staged", "activated"}
    \/ "repair" \in gaps
    \/ "unsaved" \in gaps /\ platform = "bundle"

\* When the record says the update was rolled back without a failure, the version
\* of the update is not live and a proven one is: exactly what the next start
\* relies on when it only consumes the suppression.  After a restore that failed
\* an unproven version can install the next one, and be what that returns to.
RolledBackIsRestored ==
    journal.phase = "rolled-back" /\ ~journal.failed =>
        \/ /\ disk.live # journal.version
           /\ disk.live \in proven \/ "repair" \in gaps
        \/ "unsaved" \in gaps /\ platform = "bundle"

\* No start installs by itself the release whose rollback it was to sit out.
\* The ways the record of a rollback is lost are the excuses.
NoInstallLoop ==
    [][srv.pc = "check" /\ srv'.pc = "stop"
         => \/ srv'.sel # owed
            \/ gaps \cap {"unsaved", "launch", "acked", "raced", "repair"} # {}]_vars

\* A rollback of the helper never runs beside the version it gave up on.
RollbackAlone ==
    helper.pc \in {"undo", "undoSave", "bareUndo"} => ~ChildAlive

-----------------------------------------------------------------------------
(* The abstract view: the version one can rely on, and the one on trial.   *)

Trial == IF disk.live \in proven THEN 0 ELSE disk.live
Base == IF disk.live \in proven THEN disk.live ELSE disk.backup

Abstract == INSTANCE Installation WITH installed <- Base, trial <- Trial

\* Once the helper has taken over with a proven version to fall back on, and
\* nothing is killed, fails or is started by hand meanwhile, something serves
\* again: the new version, or the previous one.
HandoffResumes ==
    helper.pc = "wait" /\ Base \in proven ~> (Serving \/ spent.disturbed)

\* Until a gap of the code is met, the transaction is the abstract one: a
\* trial starts from a settled version, and ends confirmed or reverted.
InstallsAtomically ==
    [][gaps' = {} => [Abstract!Next]_<<Base, Trial>>]_vars

\* A proven version survives at every moment, and a rollback restores it alone.
UpdateSafe == TypeOK /\ Recoverable /\ RolledBackIsRestored /\ RollbackAlone
=============================================================================
