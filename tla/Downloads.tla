------------------------------- MODULE Downloads -------------------------------
(***************************************************************************)
(* Ownership of torrents: the download rows, the torrents of the engine,   *)
(* the stream leases and the Allocation, under concurrent requests         *)
(* (internal/application/service.go and retention.go).                     *)
(*                                                                         *)
(* A torrent (an Engine route) holds one or more playable files; a row of  *)
(* the downloads table manages one file of it.  Every request is a         *)
(* goroutine that reads and writes the table, the engine and the shared    *)
(* counters one call at a time, so one action is one such call together    *)
(* with the computation around it.  req[p].at names the call that request  *)
(* p makes next, the other fields are the local variables it carries       *)
(* there.  The count and the column of a lease move together here: module  *)
(* Leases takes that protocol apart.  The free-space Reserve is switched   *)
(* off (ReserveGB = 0), module Retention has it.                           *)
(***************************************************************************)
EXTENDS Naturals, FiniteSets

CONSTANTS Requests,    \* the concurrent requests (goroutines)
          Routes,      \* the torrents, one release each
          Files,       \* the playable files
          RouteOf,     \* the torrent a file is part of
          Size,        \* bytes of a file
          Declared,    \* bytes of a release as its tracker reports them
          Cap,         \* AllocationGB in bytes, 0 switches the check off
          None,        \* no request, no torrent
          Ops,         \* the operations requests may ask for
          MayFail      \* whether calls may fail and the process may crash

ASSUME CountsAssumption == /\ Size \in [Files -> Nat]
                           /\ Declared \in [Routes -> Nat]
                           /\ Cap \in Nat
ASSUME NamesAssumption == /\ IsFiniteSet(Requests)
                          /\ IsFiniteSet(Files)
                          /\ RouteOf \in [Files -> Routes]
                          /\ None \notin Requests \cup Routes
ASSUME ModeAssumption == MayFail \in BOOLEAN

VARIABLES rows,        \* the downloads table
          flagged,     \* its rows with the leased column set
          torrents,    \* the torrents the engine holds
          selected,    \* the files of each torrent PrepareFiles selected
          complete,    \* the files whose bytes are all on disk
          leases,      \* s.leases
          reserved,    \* s.reservedBytes
          held,        \* the bytes of each request's allocationReservation
          admitting,   \* who holds admissionMu
          req          \* what each request is doing

vars == <<rows, flagged, torrents, selected, complete, leases, reserved, held,
          admitting, req>>

--------------------------------------------------------------------------------

OpNames == {"prepare", "season", "stream", "remove", "removeFile", "pause",
            "retry", "retention"}

Preparing == {"prepare", "season", "retry"}

Calls == {"idle", "enter", "find", "list", "reuse", "reuseSave", "managed",
          "indices", "select", "save", "admit", "survey", "weigh", "add",
          "evict", "forgetList", "forget", "deleteRow", "remaining", "touchList",
          "touch", "lease", "persist", "playing", "finish"}

Request == [op: OpNames, at: Calls, want: SUBSET Files, route: Routes \cup {None},
            seen: SUBSET Files, flags: SUBSET Files,
            victim: Routes \cup {None}, need: Nat,
            keyed: BOOLEAN, hashed: BOOLEAN, again: BOOLEAN]

Idle == [op |-> "prepare", at |-> "idle", want |-> {}, route |-> None,
         seen |-> {}, flags |-> {}, victim |-> None, need |-> 0,
         keyed |-> FALSE, hashed |-> FALSE, again |-> FALSE]

TypeOK == /\ rows \subseteq Files
          /\ flagged \subseteq rows
          /\ torrents \subseteq Routes
          /\ selected \in [Routes -> SUBSET Files]
          /\ complete \subseteq Files
          /\ leases \in [Files -> Nat]
          /\ reserved \in Nat
          /\ held \in [Requests -> Nat]
          /\ admitting \in Requests \cup {None}
          /\ req \in [Requests -> Request]

(* The sum of f over S, as the size of the disjoint union of intervals.    *)
Total(f, S) == Cardinality(UNION {{x} \X (1 .. f[x]) : x \in S})

FilesOf(r) == {f \in Files : RouteOf[f] = r}

RoutesOf(S) == {RouteOf[f] : f \in S}

(* The bytes of the parsed torrent manifest.                               *)
Actual(r) == Total(Size, FilesOf(r))

(* What Status describes: the selected files, or the whole torrent while   *)
(* nothing is selected.                                                    *)
Selection(r) == IF selected[r] = {} THEN FilesOf(r) ELSE selected[r]

(* Status.TotalBytes.                                                      *)
TotalBytes(r) == Total(Size, Selection(r))

(* plan.storedBytes over the torrents of a set of rows.                    *)
storedBytes(S) == Total([r \in Routes |-> TotalBytes(r)], RoutesOf(S))

Init == /\ rows = {}
        /\ flagged = {}
        /\ torrents = {}
        /\ selected = [r \in Routes |-> {}]
        /\ complete = {}
        /\ leases = [f \in Files |-> 0]
        /\ reserved = 0
        /\ held = [p \in Requests |-> 0]
        /\ admitting = None
        /\ req = [p \in Requests |-> Idle]

table == <<rows, flagged>>
engine == <<torrents, selected, complete>>
claims == <<reserved, held, admitting>>

(* The engine's calls that change it.  Add of a torrent it holds changes   *)
(* nothing; PrepareFiles queues exactly the files it is given; Remove      *)
(* forgets the torrent, deletes its files and is no error for an unknown   *)
(* one.                                                                    *)
Add(r) == torrents' = torrents \cup {r} /\ UNCHANGED <<selected, complete>>

PrepareFiles(r, S) ==
  /\ selected' = [selected EXCEPT ![r] = S]
  /\ UNCHANGED <<torrents, complete>>

Remove(r) == /\ torrents' = torrents \ {r}
             /\ selected' = [selected EXCEPT ![r] = {}]
             /\ complete' = complete \ FilesOf(r)

(* The table's statements.  SaveDownload inserts the row with the leased   *)
(* value that was read with it, or updates the row and leaves the leased   *)
(* column alone.                                                           *)
SaveDownload(f, flags) ==
  /\ rows' = rows \cup {f}
  /\ flagged' = IF f \in flags \ rows THEN flagged \cup {f} ELSE flagged

DeleteDownload(f) == rows' = rows \ {f} /\ flagged' = flagged \ {f}

Goto(p, call) == req' = [req EXCEPT ![p].at = call]

(* rowLeased for a row whose column was read into flags.                   *)
rowLeased(f, flags) == leases[f] > 0 \/ f \in flags

(* The request returns: reservation.release(), which never counts twice,   *)
(* and the deferred Unlocks.                                               *)
Return(p) ==
  /\ reserved' = reserved - held[p]
  /\ held' = [held EXCEPT ![p] = 0]
  /\ admitting' = IF admitting = p THEN None ELSE admitting
  /\ req' = [req EXCEPT ![p] = Idle]

--------------------------------------------------------------------------------

(* Starting a request.  A request that waits for the mutex of its key is   *)
(* one that has not started.                                               *)
Begin(p, op, call, want) ==
  /\ op \in Ops /\ req[p].at = "idle"
  /\ req' = [req EXCEPT ![p] =
       [Idle EXCEPT !.op = op, !.at = call, !.want = want,
                    !.route = RouteOf[CHOOSE f \in want : TRUE],
                    !.flags = IF op = "stream" THEN flagged \cap want ELSE {},
                    !.keyed = op \in {"prepare", "season"}]]
  /\ UNCHANGED <<table, engine, leases, claims>>

(* s.locks: Prepare locks "release:file", PrepareSeason "release:season",  *)
(* so the two exclude their own kind only.                                 *)
KeyFree(p, season, want) ==
  \A q \in Requests \ {p} :
     ~(/\ req[q].keyed
       /\ req[q].want = want
       /\ (req[q].op = "season") = season)

Prepare(p, f) ==
  /\ KeyFree(p, FALSE, {f})
  /\ Begin(p, "prepare", "find", {f})

(* PrepareSeason on a pack whose files are all of one season.              *)
PrepareSeason(p, r) ==
  /\ Cardinality(FilesOf(r)) > 1
  /\ KeyFree(p, TRUE, FilesOf(r))
  /\ Begin(p, "season", "list", FilesOf(r))

(* Acquire: GetDownload.                                                   *)
Acquire(p, f) == f \in rows /\ Begin(p, "stream", "managed", {f})

(* Manage(remove): the row names the torrent; no row of the torrent may be *)
(* leased.                                                                 *)
ManageRemove(p, f) ==
  /\ f \in rows
  /\ \A g \in rows \cap FilesOf(RouteOf[f]) : ~rowLeased(g, flagged)
  /\ Begin(p, "remove", "evict", {f})

(* Manage(remove-file): only the row itself may not be leased.             *)
ManageRemoveFile(p, f) ==
  /\ f \in rows
  /\ ~rowLeased(f, flagged)
  /\ Begin(p, "removeFile", "deleteRow", {f})

(* Manage(pause) and Manage(resume): the engine call first.                *)
ManagePause(p, f) ==
  /\ f \in rows
  /\ RouteOf[f] \in torrents
  /\ Begin(p, "pause", "touchList", {f})

(* Manage(retry): Resume, or, when the engine lost the torrent, forget its *)
(* rows and prepare again.                                                 *)
ManageRetry(p, f) ==
  /\ f \in rows
  /\ Begin(p, "retry",
           IF RouteOf[f] \in torrents THEN "touchList" ELSE "forgetList", {f})

(* RunRetention.  Looking for a queued or running retention job and saving *)
(* a new one are two statements, so two passes may overlap.                *)
RunRetention(p) ==
  /\ "retention" \in Ops /\ req[p].at = "idle"
  /\ req' = [req EXCEPT ![p] = [Idle EXCEPT !.op = "retention", !.at = "survey"]]
  /\ UNCHANGED <<table, engine, leases, claims>>

Start(p) ==
  \/ \E f \in Files : \/ Prepare(p, f) \/ Acquire(p, f) \/ ManageRemove(p, f)
                      \/ ManageRemoveFile(p, f) \/ ManagePause(p, f)
                      \/ ManageRetry(p, f)
  \/ \E r \in Routes : PrepareSeason(p, r)
  \/ RunRetention(p)

--------------------------------------------------------------------------------

(* Prepare and PrepareSeason up to the admission.                          *)

(* The Prepare a retry ends with takes the key's mutex like any other.     *)
Enter(p) ==
  /\ req[p].at = "enter"
  /\ KeyFree(p, FALSE, req[p].want)
  /\ req' = [req EXCEPT ![p].at = "find", ![p].keyed = TRUE]
  /\ UNCHANGED <<table, engine, leases, claims>>

(* FindDownload: a managed file only has to be prepared for streaming.     *)
Find(p) ==
  /\ req[p].at = "find"
  /\ req' = [req EXCEPT ![p].at = IF req[p].want \subseteq rows THEN "managed"
                                                                 ELSE "list",
                        ![p].flags = flagged \cap req[p].want]
  /\ UNCHANGED <<table, engine, leases, claims>>

(* ListDownloads: a release that is already managed brings its torrent,    *)
(* any other needs room first.  Prepare goes on in                         *)
(* prepareExistingTorrentFile, PrepareSeason with the files of the route;  *)
(* when the list cannot be read PrepareSeason takes it for empty.          *)
List(p) ==
  /\ req[p].at = "list"
  /\ \/ Goto(p, IF rows \cap FilesOf(req[p].route) = {} THEN "admit"
                ELSE IF req[p].op = "season" THEN "indices" ELSE "reuse")
     \/ MayFail /\ req[p].op = "season" /\ Goto(p, "admit")
  /\ UNCHANGED <<table, engine, leases, claims>>

(* prepareExistingTorrentFile: Files and Status of the managed torrent ... *)
Reuse(p) ==
  /\ req[p].at = "reuse" /\ req[p].route \in torrents
  /\ Goto(p, "reuseSave")
  /\ UNCHANGED <<table, engine, leases, claims>>

(* ... then a row for the sibling, which is prepared like a managed one.   *)
ReuseSave(p) ==
  /\ req[p].at = "reuseSave"
  /\ \E f \in req[p].want : SaveDownload(f, {})
  /\ req' = [req EXCEPT ![p].at = "managed", ![p].flags = {}]
  /\ UNCHANGED <<engine, leases, claims>>

(* What follows prepareManagedDownload and the saved rows.                 *)
AfterSave(p) == IF req[p].op = "stream" THEN "lease" ELSE "finish"

(* prepareManagedDownload: a completed local file needs no engine.         *)
ManagedLocal(p) ==
  /\ req[p].at = "managed" /\ req[p].want \subseteq complete
  /\ req' = [req EXCEPT ![p].at = AfterSave(p), ![p].flags = {}]
  /\ UNCHANGED <<table, engine, leases, claims>>

(* prepareManagedDownload: any other file, and one whose row is behind the *)
(* engine, takes the mutex "stream:hash"; Status answers and Resume is     *)
(* called if the torrent is paused.                                        *)
ManagedStatus(p) ==
  /\ req[p].at = "managed"
  /\ \A q \in Requests \ {p} : ~(req[q].hashed /\ req[q].route = req[p].route)
  /\ req[p].route \in torrents
  /\ req' = [req EXCEPT ![p].at = "indices", ![p].hashed = TRUE]
  /\ UNCHANGED <<table, engine, leases, claims>>

(* Files, and managedTorrentIndices: the wanted files and every file of    *)
(* the torrent that has a row; when the rows cannot be read, only the      *)
(* wanted files.                                                           *)
managedTorrentIndices(p) ==
  /\ req[p].at = "indices" /\ req[p].route \in torrents
  /\ \E known \in IF MayFail THEN {rows, {}} ELSE {rows} :
       req' = [req EXCEPT ![p].at = "select",
                          ![p].seen = (req[p].want \cup known) \cap FilesOf(req[p].route)]
  /\ UNCHANGED <<table, engine, leases, claims>>

(* PrepareFiles deselects every other file; Status follows at once.        *)
SelectFiles(p) ==
  /\ req[p].at = "select" /\ req[p].route \in torrents
  /\ PrepareFiles(req[p].route, req[p].seen)
  /\ req' = [req EXCEPT ![p].at = "save", ![p].seen = req[p].want]
  /\ UNCHANGED <<table, leases, claims>>

(* One row per selected file; the mutex of the hash is released after the  *)
(* last.                                                                   *)
SaveRow(p) ==
  /\ req[p].at = "save"
  /\ \E f \in req[p].seen :
       /\ SaveDownload(f, req[p].flags)
       /\ req' = [req EXCEPT ![p].seen = @ \ {f}, ![p].flags = @ \ {f},
                             ![p].at = IF req[p].seen = {f} THEN AfterSave(p) ELSE @,
                             ![p].hashed = IF req[p].seen = {f} THEN FALSE ELSE @]
  /\ UNCHANGED <<engine, leases, claims>>

(* The handler returns; the reservation is released only now.              *)
Finish(p) ==
  /\ req[p].at = "finish"
  /\ Return(p)
  /\ UNCHANGED <<table, engine, leases>>

--------------------------------------------------------------------------------

(* ensureAllocationRoom and the retention pass.                            *)

(* Room is there: releaseMetainfo and parseTorrentManifest follow, and if  *)
(* the torrent is larger than the tracker said, room is asked for again    *)
(* with its own size.                                                      *)
GrowsTo(p) == ~req[p].again /\ Actual(req[p].route) > Declared[req[p].route]

Admitted(p) == [req EXCEPT ![p].at = IF GrowsTo(p) THEN "admit" ELSE "add",
                           ![p].again = GrowsTo(p),
                           ![p].seen = {}, ![p].flags = {}, ![p].need = 0]

(* Mutant: the earlier claim is not dropped.                              *)
EnterAdmissionKeepsClaim(p) ==
  /\ req[p].at = "admit" /\ admitting = None /\ Cap > 0
  /\ admitting' = p
  /\ \E n \in IF req[p].again THEN {Actual(req[p].route)}
              ELSE {Actual(req[p].route), Declared[req[p].route]} :
       req' = [req EXCEPT ![p].at = "survey", ![p].need = n]
  /\ UNCHANGED <<reserved, held, table, engine, leases>>

(* admissionMu is taken and this request's earlier claim dropped.  The     *)
(* bytes to come are the cached manifest's or the tracker's the first      *)
(* time, the parsed manifest's when Prepare asks again.                    *)
EnterAdmission(p) ==
  /\ req[p].at = "admit" /\ admitting = None
  /\ reserved' = reserved - held[p]
  /\ held' = [held EXCEPT ![p] = 0]
  /\ IF Cap = 0
     THEN /\ req' = Admitted(p)
          /\ UNCHANGED admitting
     ELSE /\ admitting' = p
          /\ \E n \in IF req[p].again THEN {Actual(req[p].route)}
                      ELSE {Actual(req[p].route), Declared[req[p].route]} :
               req' = [req EXCEPT ![p].at = "survey", ![p].need = n]
  /\ UNCHANGED <<table, engine, leases>>

(* retentionSurvey: ListDownloads.                                         *)
Survey(p) ==
  /\ req[p].at = "survey"
  /\ req' = [req EXCEPT ![p].at = "weigh", ![p].seen = rows, ![p].flags = flagged]
  /\ UNCHANGED <<table, engine, leases, claims>>

(* The torrents of the surveyed rows that the engine can describe.         *)
Surveyed(p) == {f \in req[p].seen : RouteOf[f] \in torrents}

(* Mutant: leases do not protect.                                         *)
retentionProtectedLeaseless(p, r, late) ==
  \/ ~(Selection(r) \subseteq complete)
  \/ \E f \in req[p].seen \cap FilesOf(r) : f \notin complete \ late

(* retentionProtected under the default toggles: incomplete and leased     *)
(* torrents are kept.  late is the set of rows whose progress is behind    *)
(* the engine.                                                             *)
retentionProtected(p, r, late) ==
  \/ ~(Selection(r) \subseteq complete)
  \/ \E f \in req[p].seen \cap FilesOf(r) :
       f \notin complete \ late \/ rowLeased(f, req[p].flags)

Evictable(p, late) == {r \in RoutesOf(Surveyed(p)) : ~retentionProtected(p, r, late)}

(* Mutant: the claims of other requests are not counted.                  *)
WeightUnclaimed(p) == storedBytes(Surveyed(p))
                      + IF req[p].op = "retention" THEN 0 ELSE req[p].need

(* The bytes the decision is about: an admission adds its own and every    *)
(* claim to what the survey found.                                         *)
Weight(p) == storedBytes(Surveyed(p))
             + IF req[p].op = "retention" THEN 0 ELSE req[p].need + reserved

Deficit(p) == Cap > 0 /\ Weight(p) > Cap

(* An admission is refused while some torrent cannot be described.         *)
Uncertain(p) == req[p].op # "retention" /\ Surveyed(p) # req[p].seen

(* The statuses are in and the request fits: held.reserve(s, incoming).    *)
Admit(p) ==
  /\ req[p].at = "weigh" /\ req[p].op # "retention"
  /\ ~Uncertain(p) /\ ~Deficit(p)
  /\ reserved' = reserved + req[p].need
  /\ held' = [held EXCEPT ![p] = req[p].need]
  /\ admitting' = None
  /\ req' = Admitted(p)
  /\ UNCHANGED <<table, engine, leases>>

(* evictNext: a torrent that is not protected; the order among several is  *)
(* module Retention's.                                                     *)
ChooseVictim(p) ==
  /\ req[p].at = "weigh" /\ ~Uncertain(p) /\ Deficit(p)
  /\ \E r \in Evictable(p, {}) :
          req' = [req EXCEPT ![p].at = "evict", ![p].victim = r,
                             ![p].seen = {}, ![p].flags = {}]
  /\ UNCHANGED <<table, engine, leases, claims>>

(* Mutant: a refused admission does not unlock.                           *)
EndWeighLocked(p) ==
  /\ req[p].at = "weigh"
  /\ \/ Uncertain(p)
     \/ Deficit(p) /\ \E late \in SUBSET complete : Evictable(p, late) = {}
     \/ req[p].op = "retention" /\ ~Deficit(p)
  /\ reserved' = reserved - held[p]
  /\ held' = [held EXCEPT ![p] = 0]
  /\ req' = [req EXCEPT ![p] = Idle]
  /\ UNCHANGED <<table, engine, leases, admitting>>

(* Nothing to evict, or nothing to do: the AllocationError, the refusal    *)
(* for an uncertain owner, or the end of the retention pass.               *)
EndWeigh(p) ==
  /\ req[p].at = "weigh"
  /\ \/ Uncertain(p)
     \/ Deficit(p) /\ \E late \in SUBSET complete : Evictable(p, late) = {}
     \/ req[p].op = "retention" /\ ~Deficit(p)
  /\ Return(p)
  /\ UNCHANGED <<table, engine, leases>>

(* engine.Add; adding what the engine holds already changes nothing.       *)
EngineAdd(p) ==
  /\ req[p].at = "add"
  /\ Add(req[p].route)
  /\ Goto(p, "indices")
  /\ UNCHANGED <<table, leases, claims>>

--------------------------------------------------------------------------------

(* The torrent a removal is about: the victim of an eviction, or the one   *)
(* the request names.                                                      *)
Doomed(p) == IF req[p].victim = None THEN req[p].route ELSE req[p].victim

(* removeTorrent: the engine deletes the torrent and its files.            *)
EngineRemove(p) ==
  /\ req[p].at = "evict"
  /\ Remove(Doomed(p))
  /\ Goto(p, "forgetList")
  /\ UNCHANGED <<table, leases, claims>>

(* After its last row an admission or a retention pass surveys again, a    *)
(* retry prepares, a removal returns.                                      *)
AfterForget(p) == IF admitting = p \/ req[p].op = "retention" THEN "survey"
                  ELSE IF req[p].op = "retry" THEN "enter" ELSE "finish"

(* forgetEngineRows lists the rows of the torrent ...                      *)
ForgetList(p) ==
  /\ req[p].at = "forgetList"
  /\ LET S == rows \cap FilesOf(Doomed(p))
     IN  req' = [req EXCEPT ![p].at = IF S = {} THEN AfterForget(p) ELSE "forget",
                            ![p].seen = S, ![p].victim = None]
  /\ UNCHANGED <<table, engine, leases, claims>>

(* ... and deletes one after the other.                                    *)
ForgetRow(p) ==
  /\ req[p].at = "forget"
  /\ \E f \in req[p].seen \cap rows :
       /\ DeleteDownload(f)
       /\ req' = [req EXCEPT ![p].seen = @ \ {f},
                             ![p].at = IF req[p].seen = {f} THEN AfterForget(p) ELSE @]
  /\ UNCHANGED <<engine, leases, claims>>

(* Manage(remove-file) deletes its row ...                                 *)
DeleteRow(p) ==
  /\ req[p].at = "deleteRow"
  /\ \E f \in req[p].want \cap rows : DeleteDownload(f)
  /\ Goto(p, "remaining")
  /\ UNCHANGED <<engine, leases, claims>>

(* Mutant: only a torrent of one file goes with its row.                  *)
RemainingSingle(p) ==
  /\ req[p].at = "remaining"
  /\ Goto(p, IF FilesOf(req[p].route) = req[p].want THEN "evict" ELSE "finish")
  /\ UNCHANGED <<table, engine, leases, claims>>

(* ... and takes the torrent with it when no other row is left.            *)
Remaining(p) ==
  /\ req[p].at = "remaining"
  /\ Goto(p, IF rows \cap FilesOf(req[p].route) = {} THEN "evict" ELSE "finish")
  /\ UNCHANGED <<table, engine, leases, claims>>

(* A row the request is about to delete is gone already: sql.ErrNoRows     *)
(* ends the request.                                                       *)
RowGone(p) ==
  /\ \/ req[p].at = "forget" /\ req[p].seen \ rows # {}
     \/ req[p].at = "deleteRow" /\ ~(req[p].want \subseteq rows)
  /\ Return(p)
  /\ UNCHANGED <<table, engine, leases>>

(* Pause, resume and a successful retry list the rows of the torrent ...   *)
TouchList(p) ==
  /\ req[p].at = "touchList"
  /\ LET S == rows \cap FilesOf(req[p].route)
     IN  req' = [req EXCEPT ![p].at = IF S = {} THEN "finish" ELSE "touch",
                            ![p].seen = S, ![p].flags = flagged \cap S]
  /\ UNCHANGED <<table, engine, leases, claims>>

(* ... and save each of them with its new state.                           *)
Touch(p) ==
  /\ req[p].at = "touch"
  /\ \E f \in req[p].seen :
       /\ SaveDownload(f, req[p].flags)
       /\ req' = [req EXCEPT ![p].seen = @ \ {f}, ![p].flags = @ \ {f},
                             ![p].at = IF req[p].seen = {f} THEN "finish" ELSE @]
  /\ UNCHANGED <<engine, leases, claims>>

--------------------------------------------------------------------------------

(* Acquire counts the lease, then writes it to the row.                    *)
Lease(p) ==
  /\ req[p].at = "lease"
  /\ leases' = [f \in Files |-> leases[f] + IF f \in req[p].want THEN 1 ELSE 0]
  /\ Goto(p, "persist")
  /\ UNCHANGED <<table, engine, claims>>

Drop(p) == leases' = [f \in Files |-> IF f \in req[p].want /\ leases[f] > 0
                                      THEN leases[f] - 1 ELSE leases[f]]

(* Mutant: SetLease writes a row that is gone.                            *)
PersistBlind(p) ==
  /\ req[p].at = "persist"
  /\ flagged' = flagged \cup req[p].want
  /\ Goto(p, "playing")
  /\ UNCHANGED <<rows, engine, leases, claims>>

Persist(p) ==
  /\ req[p].at = "persist" /\ req[p].want \subseteq rows
  /\ flagged' = flagged \cup req[p].want
  /\ Goto(p, "playing")
  /\ UNCHANGED <<rows, engine, leases, claims>>

(* SetLease found no row, or failed: the lease is dropped again.           *)
PersistFails(p) ==
  /\ req[p].at = "persist" /\ (MayFail \/ ~(req[p].want \subseteq rows))
  /\ Drop(p)
  /\ flagged' = {f \in flagged : f \in req[p].want => leases'[f] > 0}
  /\ Return(p)
  /\ UNCHANGED <<rows, engine>>

(* Release, deferred by the stream handler.                                *)
Release(p) ==
  /\ req[p].at = "playing"
  /\ Drop(p)
  /\ flagged' = {f \in flagged : f \in req[p].want => leases'[f] > 0}
  /\ Return(p)
  /\ UNCHANGED <<rows, engine>>

--------------------------------------------------------------------------------

(* The engine does not know the torrent any more.                          *)
TorrentGone(p) ==
  /\ \/ req[p].at \in {"reuse", "indices", "select"}
     \/ req[p].at = "managed"
  /\ req[p].route \notin torrents
  /\ Return(p)
  /\ UNCHANGED <<table, engine, leases>>

(* A call fails: the database, the tracker, the engine, a cancelled        *)
(* context, the 30-second wait for the file list.                          *)
Fail(p) ==
  /\ MayFail
  /\ req[p].at \notin {"idle", "finish", "persist", "playing", "lease"}
  /\ Return(p)
  /\ UNCHANGED <<table, engine, leases>>

(* The engine finishes a selected file.                                    *)
Complete(f) ==
  /\ RouteOf[f] \in torrents /\ f \in selected[RouteOf[f]] /\ f \notin complete
  /\ complete' = complete \cup {f}
  /\ UNCHANGED <<table, torrents, selected, leases, claims, req>>

(* The process stops and starts again: the table and the engine's session  *)
(* stay, requests, counts and claims are lost, ResetLeases clears the      *)
(* column.                                                                 *)
Restart ==
  /\ MayFail
  /\ flagged' = {}
  /\ leases' = [f \in Files |-> 0]
  /\ reserved' = 0
  /\ held' = [p \in Requests |-> 0]
  /\ admitting' = None
  /\ req' = [p \in Requests |-> Idle]
  /\ UNCHANGED <<rows, engine>>

(* The calls of a request that will be made whatever the environment does. *)
Proceed(p) ==
  \/ Enter(p) \/ Find(p) \/ List(p) \/ Reuse(p) \/ ReuseSave(p)
  \/ ManagedLocal(p) \/ ManagedStatus(p) \/ managedTorrentIndices(p)
  \/ SelectFiles(p) \/ SaveRow(p) \/ Finish(p)
  \/ EnterAdmission(p) \/ Survey(p) \/ Admit(p) \/ ChooseVictim(p) \/ EndWeigh(p)
  \/ EngineAdd(p)
  \/ EngineRemove(p) \/ ForgetList(p) \/ ForgetRow(p)
  \/ DeleteRow(p) \/ Remaining(p) \/ RowGone(p) \/ TouchList(p) \/ Touch(p)
  \/ Lease(p) \/ Persist(p) \/ PersistFails(p) \/ TorrentGone(p)

Next == \/ \E p \in Requests : Start(p) \/ Proceed(p) \/ Release(p) \/ Fail(p)
        \/ \E f \in Files : Complete(f)
        \/ Restart

Spec == Init /\ [][Next]_vars

--------------------------------------------------------------------------------

(* Every admission that succeeds, fails or is abandoned gives back exactly *)
(* what it claimed: the counter is the sum of the claims requests hold, so *)
(* no path through Prepare or PrepareSeason leaks room of the Allocation.  *)
ReservedIsHeld == reserved = Total(held, Requests)

(* No claim leaks, and the tables are what their columns hold.             *)
DownloadsSafe == TypeOK /\ ReservedIsHeld

(* A request that is about to save a row of torrent r or to remove r.      *)
Minds(p, r) ==
  \/ req[p].op \in Preparing /\ req[p].route = r /\ req[p].at \in {"indices", "select", "save"}
  \/ req[p].at = "remaining" /\ req[p].route = r
  \/ req[p].at = "evict" /\ Doomed(p) = r

(* A torrent that no row and no request will ever name again.              *)
Orphaned(r) == /\ r \in torrents /\ rows \cap FilesOf(r) = {}
               /\ \A p \in Requests : ~Minds(p, r)

(* The comment in Manage: a route with zero rows is invisible to retention *)
(* "so the last removal must take the torrent with it".  Only a request    *)
(* that ends in an error, and forgetEngineRows of a torrent that came back *)
(* meanwhile, orphan a torrent; removals that race for the last row do     *)
(* not.                                                                    *)
LastRemovalTakesTorrent ==
  [][\A r \in Routes : Orphaned(r)' =>
       \/ Orphaned(r)
       \/ \E p \in Requests : Minds(p, r) /\ req[p].at # "finish" /\ req'[p].at = "idle"
       \/ \E p \in Requests : req[p].at = "forget" /\ req'[p] # req[p]]_vars

(* What the table manages, in bytes.                                       *)
OwnedBytes == storedBytes({f \in rows : RouteOf[f] \in torrents})

(* ADR-0004: a download that does not fit is rejected "rather than         *)
(* overflowing the cap".                                                   *)
NoOvershoot == Cap > 0 => OwnedBytes <= Cap

(* No request waits for ever: on admissionMu, on the mutex of a key or a   *)
(* hash, or in the eviction loop.                                          *)
RequestsReturn ==
  \A p \in Requests : (req[p].at # "idle") ~> (req[p].at \in {"idle", "playing"})
================================================================================
