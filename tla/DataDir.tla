-------------------------------- MODULE DataDir --------------------------------
(***************************************************************************)
(* Where the household's data lives, and how the desktop application moves *)
(* it: Bindings.ChangeDataDir stops the server, Relocate renames or copies *)
(* the tree and writes the data.location pointer, the settings file's      *)
(* paths are rewritten, the holder swaps, the launch-on-boot entry is      *)
(* registered again and the server restarts.  Each of these is a step that *)
(* may fail, race the user's Start, Stop and SaveSettings, or be the last  *)
(* of its process; the next launch resolves the location anew.             *)
(***************************************************************************)
EXTENDS Naturals, FiniteSets

CONSTANTS
    Locations,      \* directories the data may be in
    Home,           \* the platform default, where the data is at first
    Dialogs,        \* callers of ChangeDataDir
    MaxChanges,     \* bound: changes of the location
    MaxLaunches     \* bound: launches of the application

ASSUME DataDirAssumption ==
    /\ IsFiniteSet(Locations) /\ Home \in Locations
    /\ {"relative", "none"} \cap Locations = {}
    /\ MaxChanges \in Nat /\ MaxLaunches \in Nat

VARIABLES
    trees,       \* per location: what of the data it holds, where its settings point
    pointer,    \* the data.location file
    autostart,  \* the location that the launch-on-boot entry pins
    app,        \* the application: up, dir (the holder), relocating, broken
    server,     \* the supervisor: its state and the location its database is in
    change,     \* the calls of ChangeDataDir
    moveGaps,   \* steps that went wrong, and overlaps
    changes,    \* calls so far
    launches    \* launches so far

dataDirVars == <<trees, pointer, autostart, app, server, change, moveGaps, changes,
                 launches>>

NoChange == [at |-> "idle", from |-> "none", to |-> "none", wasRunning |-> FALSE]
Absent == [holds |-> "none", paths |-> "relative"]

DataDirInit ==
    /\ trees = [l \in Locations |->
                 IF l = Home THEN [holds |-> "full", paths |-> "relative"] ELSE Absent]
    /\ pointer = "none" /\ autostart = "none"
    /\ app = [up |-> FALSE, dir |-> Home, relocating |-> FALSE, broken |-> FALSE]
    /\ server = [state |-> "stopped", on |-> Home]
    /\ change = [d \in Dialogs |-> NoChange]
    /\ moveGaps = {} /\ changes = 0 /\ launches = 0

(* MkdirAll: a location that was not there is, without the data.           *)
Made(k, l) == IF k[l].holds = "none" THEN [k EXCEPT ![l].holds = "fresh"] ELSE k

(* Where a store loaded from dir has its database.  Relative paths anchor  *)
(* to dir (anchorNativePaths); a settings file that is not there, as may   *)
(* be in a tree that is incomplete, is the defaults.                       *)
Anchors(k, dir) ==
    IF k[dir].paths = "relative" THEN {dir}
    ELSE {k[dir].paths} \cup (IF k[dir].holds = "part" THEN {dir} ELSE {})

(***************************** the supervisor ******************************)

CanStart == app.up /\ ~app.relocating /\ ~app.broken
Startable == server.state \in {"stopped", "failed"}

(* The user's Start, and the one a launch ends with.  The probe of the     *)
(* native paths creates their directories.                                 *)
StartServer ==
    /\ CanStart /\ Startable
    /\ server' = [server EXCEPT !.state = "starting"]
    /\ \E l \in Anchors(trees, app.dir) : trees' = Made(trees, l)
    /\ UNCHANGED <<pointer, autostart, app, change, moveGaps, changes, launches>>

(* run: the factory composes against the holder as it is now, and opens or *)
(* creates the database.                                                   *)
ServerRuns ==
    /\ server.state = "starting"
    /\ \/ \E l \in Anchors(trees, app.dir) :
             server' = [state |-> "running", on |-> l] /\ trees' = Made(trees, l)
       \/ server' = [server EXCEPT !.state = "failed"] /\ trees' = trees
    /\ UNCHANGED <<pointer, autostart, app, change, moveGaps, changes, launches>>

StopByUser ==
    /\ app.up /\ server.state = "running"
    /\ server' = [server EXCEPT !.state = "stopping"]
    /\ UNCHANGED <<trees, pointer, autostart, app, change, moveGaps, changes, launches>>

StopFinishes ==
    /\ server.state = "stopping" /\ server' = [server EXCEPT !.state = "stopped"]
    /\ UNCHANGED <<trees, pointer, autostart, app, change, moveGaps, changes, launches>>

(* SaveSettings writes the settings file of the holder, making its         *)
(* directory, with the effective, that is absolute, paths.  It looks at    *)
(* broken and not at relocating.                                           *)
MoveSteps == {"copy", "remove", "pointer", "remap", "load", "swap"}
Moving == {d \in Dialogs : change[d].at \in MoveSteps}

SaveSettings ==
    /\ app.up /\ ~app.broken
    /\ \E l \in Anchors(trees, app.dir) :
          trees' = [Made(trees, app.dir) EXCEPT ![app.dir].paths = l]
    /\ moveGaps' = moveGaps \cup (IF Moving = {} THEN {} ELSE {"saved"})
    /\ UNCHANGED <<pointer, autostart, app, server, change, changes, launches>>

(* EnableAutostart pins the holder's location in the entry;                *)
(* DisableAutostart removes it.                                            *)
SetAutostart ==
    /\ app.up /\ autostart' \in {"none", app.dir}
    /\ UNCHANGED <<trees, pointer, app, server, change, moveGaps, changes, launches>>

(***************************** ChangeDataDir *******************************)

At(d, step) == app.up /\ change[d].at = step
Goes(d, step) == change' = [change EXCEPT ![d].at = step]
MoveGap(g) == moveGaps' = moveGaps \cup {g}
NoMoveGap == moveGaps' = moveGaps

(* The guard is one flag, set by every call and dropped when any ends.     *)
BeginChange(d) ==
    /\ change[d].at \in {"idle", "ended", "stranded"} /\ app.up /\ changes < MaxChanges
    /\ changes' = changes + 1
    /\ \E to \in Locations :
          change' = [change EXCEPT ![d] = [at |-> "state", from |-> app.dir, to |-> to,
                                           wasRunning |-> FALSE]]
    /\ app' = [app EXCEPT !.relocating = TRUE]
    /\ IF \E e \in Dialogs \ {d} : change[e].at \notin {"idle", "ended", "stranded"}
       THEN MoveGap("overlapped") ELSE NoMoveGap
    /\ UNCHANGED <<trees, pointer, autostart, server, launches>>

Ends(d) == Goes(d, "ended") /\ app' = [app EXCEPT !.relocating = FALSE]

(* markBroken: the move happened and cannot be finished.                   *)
Breaks(d) ==
    /\ app' = [app EXCEPT !.relocating = FALSE, !.broken = TRUE]
    /\ Goes(d, "ended") /\ UNCHANGED server

(* resume, on a failure of Relocate: with the source gone the move is      *)
(* broken, otherwise the server that was running is started again, if      *)
(* CanStart lets it: the guard of this very call is dropped only after.    *)
ResumeServer(d, k) ==
    IF k[change[d].from].holds = "none"
    THEN Breaks(d)
    ELSE /\ server' = IF change[d].wasRunning /\ Startable /\ CanStart
                      THEN [server EXCEPT !.state = "starting"] ELSE server
         /\ Goes(d, IF change[d].wasRunning /\ server' = server
                    THEN "stranded" ELSE "ended")
         /\ app' = [app EXCEPT !.relocating = FALSE]

(* The state decides: a running server is stopped, a transition refuses.   *)
CheckState(d) ==
    /\ At(d, "state")
    /\ \/ /\ server.state = "running" /\ Goes(d, "stop") /\ UNCHANGED app
       \/ /\ server.state \in {"starting", "stopping"} /\ Ends(d)
       \/ /\ Startable /\ Goes(d, "move") /\ UNCHANGED app
    /\ UNCHANGED <<trees, pointer, autostart, server, moveGaps, changes, launches>>

(* Supervisor.Stop: somebody else may have stopped it first.               *)
StopServer(d) ==
    /\ At(d, "stop")
    /\ IF server.state = "running"
       THEN /\ server' = [server EXCEPT !.state = "stopping"]
            /\ change' = [change EXCEPT ![d].at = "stopped", ![d].wasRunning = TRUE]
            /\ UNCHANGED app
       ELSE Ends(d) /\ UNCHANGED server
    /\ UNCHANGED <<trees, pointer, autostart, moveGaps, changes, launches>>

ServerStopped(d) ==
    /\ At(d, "stopped") /\ server.state # "stopping" /\ Goes(d, "move")
    /\ UNCHANGED <<trees, pointer, autostart, app, server, moveGaps, changes, launches>>

(* Relocate's refusals: the same location, one that is not empty, or one   *)
(* that cannot be read.                                                    *)
RefuseTarget(d) ==
    /\ At(d, "move") /\ ResumeServer(d, trees)
    /\ UNCHANGED <<trees, pointer, autostart, moveGaps, changes, launches>>

Acceptable(d) == change[d].to # change[d].from /\ trees[change[d].to].holds = "none"

(* moveTree: a rename where the volume allows it.                          *)
Rename(d) ==
    /\ At(d, "move") /\ Acceptable(d) /\ trees[change[d].from].holds # "none"
    /\ trees' = [trees EXCEPT ![change[d].to] = trees[change[d].from],
                            ![change[d].from] = Absent]
    /\ Goes(d, "pointer")
    /\ UNCHANGED <<pointer, autostart, app, server, moveGaps, changes, launches>>

BeginCopy(d) ==
    /\ At(d, "move") /\ Acceptable(d) /\ trees[change[d].from].holds # "none"
    /\ trees' = [trees EXCEPT ![change[d].to] = [holds |-> "part", paths |-> "relative"]]
    /\ Goes(d, "copy")
    /\ UNCHANGED <<pointer, autostart, app, server, moveGaps, changes, launches>>

\* Mutant: the source is removed as it is copied.
CopyEndsMoving(d) ==
    /\ At(d, "copy")
    /\ \/ /\ trees[change[d].from].holds # "none"
          /\ trees' = [trees EXCEPT ![change[d].to] = trees[change[d].from]]
          /\ Goes(d, "remove") /\ UNCHANGED <<app, server>>
       \/ /\ trees' = [trees EXCEPT ![change[d].from].holds = "part"]
          /\ ResumeServer(d, trees')
    /\ UNCHANGED <<pointer, autostart, moveGaps, changes, launches>>

(* copyTree: every file verified, or the first error leaves a part behind. *)
CopyEnds(d) ==
    /\ At(d, "copy")
    /\ \/ /\ trees[change[d].from].holds # "none"
          /\ trees' = [trees EXCEPT ![change[d].to] = trees[change[d].from]]
          /\ Goes(d, "remove") /\ UNCHANGED <<app, server>>
       \/ trees' = trees /\ ResumeServer(d, trees)
    /\ UNCHANGED <<pointer, autostart, moveGaps, changes, launches>>

(* RemoveAll of the source, which may fail with some of it gone.           *)
RemoveSource(d) ==
    /\ At(d, "remove")
    /\ \/ /\ trees' = [trees EXCEPT ![change[d].from] = Absent]
          /\ Goes(d, "pointer") /\ NoMoveGap /\ UNCHANGED <<app, server>>
       \/ /\ trees' = [trees EXCEPT ![change[d].from].holds = "part"]
          /\ ResumeServer(d, trees') /\ MoveGap("removal")
    /\ UNCHANGED <<pointer, autostart, changes, launches>>

SetPointer(d) ==
    /\ At(d, "pointer")
    /\ \/ /\ pointer' = change[d].to /\ Goes(d, "remap") /\ NoMoveGap
          /\ UNCHANGED <<app, server>>
       \/ pointer' = pointer /\ ResumeServer(d, trees) /\ MoveGap("pointer")
    /\ UNCHANGED <<trees, autostart, changes, launches>>

\* Mutant: the settings file keeps naming the old location.
RemapPathsNothing(d) ==
    /\ At(d, "remap") /\ Goes(d, "load")
    /\ UNCHANGED <<trees, pointer, autostart, app, server, moveGaps, changes, launches>>

(* remapDataDirPaths: paths under the old location move to the new one.    *)
RemapPaths(d) ==
    /\ At(d, "remap")
    /\ \/ /\ trees' = IF trees[change[d].to].paths = change[d].from
                     THEN [trees EXCEPT ![change[d].to].paths = change[d].to] ELSE trees
          /\ Goes(d, "load") /\ NoMoveGap /\ UNCHANGED <<app, server>>
       \/ trees' = trees /\ Breaks(d) /\ MoveGap("remap")
    /\ UNCHANGED <<pointer, autostart, changes, launches>>

(* LoadAt of the moved settings file.                                      *)
LoadStore(d) ==
    /\ At(d, "load")
    /\ \/ Goes(d, "swap") /\ NoMoveGap /\ UNCHANGED <<app, server>>
       \/ Breaks(d) /\ MoveGap("load")
    /\ UNCHANGED <<trees, pointer, autostart, changes, launches>>

Swap(d) ==
    /\ At(d, "swap") /\ Goes(d, "autostart")
    /\ app' = [app EXCEPT !.dir = change[d].to]
    /\ UNCHANGED <<trees, pointer, autostart, server, moveGaps, changes, launches>>

\* Mutant: the launch-on-boot entry is left as it is.
ReregisterNothing(d) ==
    /\ At(d, "autostart") /\ Goes(d, "restart")
    /\ app' = [app EXCEPT !.relocating = FALSE]
    /\ UNCHANGED <<trees, pointer, autostart, server, moveGaps, changes, launches>>

(* The entry pins its location and beats the pointer: it is written again. *)
(* Then the guard drops, before the restart.                               *)
Reregister(d) ==
    /\ At(d, "autostart")
    /\ \/ /\ autostart' = IF autostart = "none" THEN autostart ELSE change[d].to
          /\ app' = [app EXCEPT !.relocating = FALSE]
          /\ Goes(d, "restart") /\ NoMoveGap /\ UNCHANGED server
       \/ autostart' = autostart /\ Breaks(d) /\ MoveGap("autostart")
    /\ UNCHANGED <<trees, pointer, changes, launches>>

RestartServer(d) ==
    /\ At(d, "restart") /\ Ends(d)
    /\ IF change[d].wasRunning /\ Startable /\ CanStart
       THEN /\ server' = [server EXCEPT !.state = "starting"]
            /\ \E l \in Anchors(trees, app.dir) : trees' = Made(trees, l)
       ELSE UNCHANGED <<server, trees>>
    /\ UNCHANGED <<pointer, autostart, moveGaps, changes, launches>>

(*************************** launches and exits ****************************)

(* ResolveFor: the flag of the launch-on-boot entry, then the pointer,     *)
(* then the default.                                                       *)
Resolved(byEntry) ==
    IF byEntry /\ autostart # "none" THEN autostart
    ELSE IF pointer # "none" THEN pointer ELSE Home

(* Run: makes the directory, loads the settings, starts the server.        *)
AppLaunches ==
    /\ ~app.up /\ launches < MaxLaunches
    /\ launches' = launches + 1
    /\ \E byEntry \in BOOLEAN :
          app' = [up |-> TRUE, dir |-> Resolved(byEntry), relocating |-> FALSE,
                  broken |-> FALSE]
    /\ trees' = Made(trees, app'.dir)
    /\ server' = [server EXCEPT !.state = "starting"]
    /\ UNCHANGED <<pointer, autostart, change, moveGaps, changes>>

(* The user quits, or the process dies, wherever the calls have got to.    *)
AppExits ==
    /\ app.up /\ app' = [app EXCEPT !.up = FALSE]
    /\ server' = [server EXCEPT !.state = "stopped"]
    /\ change' = [d \in Dialogs |-> NoChange]
    /\ moveGaps' = moveGaps \cup (IF \E d \in Dialogs : change[d].at \in MoveSteps \cup {"autostart"}
                                  THEN {"crashed"} ELSE {})
                            \cup (IF app.broken THEN {"unfinished"} ELSE {})
    /\ UNCHANGED <<trees, pointer, autostart, changes, launches>>

ChangeDataDir(d) ==
    \/ BeginChange(d) \/ CheckState(d) \/ StopServer(d) \/ ServerStopped(d)
    \/ RefuseTarget(d) \/ Rename(d) \/ BeginCopy(d) \/ CopyEnds(d) \/ RemoveSource(d)
    \/ SetPointer(d) \/ RemapPaths(d) \/ LoadStore(d) \/ Swap(d) \/ Reregister(d)
    \/ RestartServer(d)

DataDirNext ==
    \/ StartServer \/ ServerRuns \/ StopByUser \/ StopFinishes \/ SaveSettings \/ SetAutostart
    \/ \E d \in Dialogs : ChangeDataDir(d)
    \/ AppLaunches \/ AppExits

(* The types of the variables.                                             *)
DataDirTypeOK ==
    /\ trees \in [Locations -> [holds: {"none", "fresh", "part", "full"},
                                paths: Locations \cup {"relative"}]]
    /\ {pointer, autostart} \subseteq Locations \cup {"none"}
    /\ app \in [up: BOOLEAN, dir: Locations, relocating: BOOLEAN, broken: BOOLEAN]
    /\ server \in [state: {"stopped", "starting", "running", "stopping", "failed"},
                   on: Locations]
    /\ change \in [Dialogs -> [at: MoveSteps \cup {"idle", "state", "stop", "stopped", "move",
                                  "autostart", "restart", "ended", "stranded"},
                               from: Locations \cup {"none"}, to: Locations \cup {"none"},
                               wasRunning: BOOLEAN]]
    /\ changes \in 0..MaxChanges /\ launches \in 0..MaxLaunches

(* The household's data is whole in one place at every moment, whichever   *)
(* step fails or is interrupted.  Calls that overlap escape it: one may    *)
(* copy a tree that another is still filling, and both remove what they    *)
(* copied.                                                                 *)
DataIsKept == "overlapped" \notin moveGaps => \E l \in Locations : trees[l].holds = "full"

(* A server that runs, runs on the household's data and not on an empty    *)
(* directory it has just made or on what is left of a tree: in the process *)
(* that moved it even when the move could not be finished, and after every *)
(* launch once moves finished.  A removal that stopped half-way, a save    *)
(* into the move and two overlapping calls escape it, and so do launches   *)
(* after a move that was left unfinished.                                  *)
ServesTheData ==
    server.state = "running" =>
       \/ trees[server.on].holds = "full"
       \/ moveGaps \cap {"removal", "saved", "overlapped", "crashed", "unfinished"} # {}

(* Moving the data directory loses nothing and serves nothing else.        *)
DataDirSafe == DataDirTypeOK /\ DataIsKept /\ ServesTheData
================================================================================
