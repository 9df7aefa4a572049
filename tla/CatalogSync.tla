------------------------------- MODULE CatalogSync -----------------------------
(***************************************************************************)
(* Catalog synchronizations and tracker searches (internal/application:    *)
(* SyncCatalog, runCatalogSync, Search; trackers.go), which ask every      *)
(* eligible tracker in a goroutine of its own, within the job slots of the *)
(* service and one slot per tracker, and the settings saves that change    *)
(* which trackers are eligible and cancel what is under way.               *)
(*                                                                         *)
(* A context is the number of the settings save it was made after.  Work   *)
(* saves its rows under its context, so a cancelled one saves nothing      *)
(* more.  The calls of the trackers are external: they may fail, and they  *)
(* may end well although they were cancelled.  The row of a search is left *)
(* to module Jobs; attempts, progress, labels and events are left out.     *)
(***************************************************************************)
EXTENDS Naturals, FiniteSets

CONSTANTS
    Trackers,   \* the registered trackers
    SyncRuns,   \* goroutines of catalog synchronizations
    SearchRun,  \* the tracker-search worker
    SyncModes,  \* the modes asked for, of "latest" and "rebuild"
    JobSlots,   \* capacity of jobSlots
    MaxSyncs,   \* bound: synchronizations and searches asked for
    MaxSaves    \* bound: saves of the settings

ASSUME CatalogSyncAssumption ==
    /\ SyncModes \subseteq {"latest", "rebuild"} /\ SearchRun \notin SyncRuns
    /\ IsFiniteSet(Trackers) /\ IsFiniteSet(SyncRuns)
    /\ JobSlots \in Nat \ {0} /\ {MaxSyncs, MaxSaves} \subseteq Nat

VARIABLES
    enabled,       \* trackers that are enabled and configured in the live settings
    providerCtx,   \* the provider context: how often it was renewed
    settingsSaved, \* a save changed the settings and has not renewed the context
    saves,         \* how many saves there were
    syncRows,      \* mode -> its row in the jobs table
    childRows,     \* mode or search, tracker -> state of the child's row
    syncRun,       \* run -> what it is doing, see IdleRun
    parts,         \* run -> tracker -> its goroutine, see IdlePart
    jobSlots,      \* slots of jobSlots that are taken
    providerSlots, \* trackers whose slot is taken
    asked,         \* how many runs were asked for
    cutOff         \* history: modes whose final save came after a cancellation

syncVars == <<enabled, providerCtx, settingsSaved, saves, syncRows, childRows, syncRun,
              parts, jobSlots, providerSlots, asked, cutOff>>

AllRuns == SyncRuns \cup {SearchRun}

ActiveStates == {"queued", "running"}

RowStates == ActiveStates \cup {"absent", "completed", "failed"}

RunType == [at: {"idle", "asked", "queued", "begin", "join"},
            mode: SyncModes \cup {"search"}, ctx: Nat]

(* A goroutine waits for a job slot, then for that of its tracker.         *)
HasTracker == {"check", "call", "store", "stored"}
HasJob == HasTracker \cup {"slot"}

PartType == [at: HasJob \cup {"none", "job", "done"},
             result: {"none", "ok", "error", "skipped"}]

IdleRun == [at |-> "idle", mode |-> "search", ctx |-> 0]

IdlePart == [at |-> "none", result |-> "none"]

(* The context of a run: a settings save has cancelled it.                 *)
Cancelled(r) == syncRun[r].ctx < providerCtx

EligibleIDs == enabled

Eligible(t) == t \in enabled

CatalogSyncInit ==
    /\ enabled = Trackers /\ providerCtx = 0 /\ settingsSaved = FALSE /\ saves = 0
    /\ syncRows = [m \in SyncModes |-> "absent"]
    /\ childRows = [m \in SyncModes \cup {"search"} |-> [t \in Trackers |-> "absent"]]
    /\ syncRun = [r \in AllRuns |-> IdleRun]
    /\ parts = [r \in AllRuns |-> [t \in Trackers |-> IdlePart]]
    /\ jobSlots = 0 /\ providerSlots = {} /\ asked = 0 /\ cutOff = {}

settingsState == <<enabled, providerCtx, settingsSaved, saves>>

(********************************* the runs ********************************)

(* SyncCatalog looks for an active row of the mode ...                     *)
SyncCatalogLists(r, m) ==
    /\ syncRun[r].at = "idle" /\ asked < MaxSyncs /\ asked' = asked + 1
    /\ syncRows[m] \notin ActiveStates
    /\ syncRun' = [syncRun EXCEPT ![r] = [IdleRun EXCEPT !.at = "asked", !.mode = m]]
    /\ UNCHANGED <<settingsState, syncRows, childRows, parts, jobSlots, providerSlots, cutOff>>

(* ... saves one, and starts the run.                                      *)
SyncCatalogSaves(r) ==
    /\ syncRun[r].at = "asked"
    /\ syncRows' = [syncRows EXCEPT ![syncRun[r].mode] = "queued"]
    /\ cutOff' = cutOff \ {syncRun[r].mode}
    /\ syncRun' = [syncRun EXCEPT ![r].at = "queued"]
    /\ UNCHANGED <<settingsState, childRows, parts, jobSlots, providerSlots, asked>>

(* runCatalogSync, under syncMu, takes its context, ...                    *)
TakeContext(r) ==
    /\ syncRun[r].at = "queued"
    /\ \A q \in SyncRuns : syncRun[q].at \in {"idle", "asked", "queued"}
    /\ syncRun' = [syncRun EXCEPT ![r].at = "begin", ![r].ctx = providerCtx]
    /\ UNCHANGED <<settingsState, syncRows, childRows, parts, jobSlots, providerSlots,
                   asked, cutOff>>

(* ... as does runTrackerSearch.                                           *)
SearchBegins ==
    /\ syncRun[SearchRun].at = "idle" /\ asked < MaxSyncs /\ asked' = asked + 1
    /\ syncRun' = [syncRun EXCEPT ![SearchRun] =
                     [IdleRun EXCEPT !.at = "begin", !.ctx = providerCtx]]
    /\ UNCHANGED <<settingsState, syncRows, childRows, parts, jobSlots, providerSlots, cutOff>>

(* The row says running, and a goroutine starts for every tracker that is  *)
(* eligible now.                                                           *)
FanOut(r) ==
    /\ syncRun[r].at = "begin"
    /\ syncRows' = [m \in SyncModes |-> IF m = syncRun[r].mode /\ ~Cancelled(r)
                                        THEN "running" ELSE syncRows[m]]
    /\ parts' = [parts EXCEPT ![r] =
                   [t \in Trackers |-> IF t \in EligibleIDs
                                       THEN [IdlePart EXCEPT !.at = "job"] ELSE IdlePart]]
    /\ syncRun' = [syncRun EXCEPT ![r].at = "join"]
    /\ UNCHANGED <<settingsState, childRows, jobSlots, providerSlots, asked, cutOff>>

\* Mutant: a run of which every tracker failed returns without saving its row.
JoinedReturning(r) ==
    /\ syncRun[r].at = "join" /\ \A t \in Trackers : parts[r][t].at \in {"none", "done"}
    /\ syncRows' = [m \in SyncModes |->
                      IF /\ m = syncRun[r].mode /\ ~Cancelled(r)
                         /\ \E t \in Trackers : parts[r][t].result # "error"
                      THEN "completed" ELSE syncRows[m]]
    /\ cutOff' = IF Cancelled(r) THEN cutOff \cup {syncRun[r].mode} ELSE cutOff
    /\ syncRun' = [syncRun EXCEPT ![r] = IdleRun]
    /\ parts' = [parts EXCEPT ![r] = [t \in Trackers |-> IdlePart]]
    /\ UNCHANGED <<settingsState, childRows, jobSlots, providerSlots, asked>>

(* After wg.Wait the row is completed, unless every tracker failed (one    *)
(* that was disabled meanwhile did not fail), and saved with the context   *)
(* of the run; a search goes on to module Jobs.                            *)
Joined(r) ==
    /\ syncRun[r].at = "join" /\ \A t \in Trackers : parts[r][t].at \in {"none", "done"}
    /\ LET all == {t \in Trackers : parts[r][t].at = "done"}
           failed == {t \in all : parts[r][t].result = "error"}
           outcome == IF failed # {} /\ failed = all THEN "failed" ELSE "completed"
       IN  syncRows' = [m \in SyncModes |-> IF m = syncRun[r].mode /\ ~Cancelled(r)
                                            THEN outcome ELSE syncRows[m]]
    /\ cutOff' = IF Cancelled(r) THEN cutOff \cup {syncRun[r].mode} ELSE cutOff
    /\ syncRun' = [syncRun EXCEPT ![r] = IdleRun]
    /\ parts' = [parts EXCEPT ![r] = [t \in Trackers |-> IdlePart]]
    /\ UNCHANGED <<settingsState, childRows, jobSlots, providerSlots, asked>>

(**************************** a tracker's goroutine ************************)

PartDone(r, t, result) ==
    parts' = [parts EXCEPT ![r][t] = [at |-> "done", result |-> result]]

PartAt(r, t, at) == parts' = [parts EXCEPT ![r][t].at = at]

SaveChild(r, t, state) ==
    childRows' = IF Cancelled(r) THEN childRows
                 ELSE [childRows EXCEPT ![syncRun[r].mode][t] = state]

(* The deferred releases, of the slots that the goroutine has by then.     *)
ReleaseBoth(t) == jobSlots' = jobSlots - 1 /\ providerSlots' = providerSlots \ {t}

(* acquireJob: a free slot, or the end of the context.                     *)
acquireJob(r, t) ==
    /\ parts[r][t].at = "job"
    /\ \/ jobSlots < JobSlots /\ jobSlots' = jobSlots + 1 /\ PartAt(r, t, "slot")
       \/ Cancelled(r) /\ PartDone(r, t, "error") /\ UNCHANGED jobSlots
    /\ UNCHANGED <<childRows, providerSlots>>

(* The slot of the tracker, likewise.                                      *)
providerSlot(r, t) ==
    /\ parts[r][t].at = "slot"
    /\ \/ /\ t \notin providerSlots /\ providerSlots' = providerSlots \cup {t}
          /\ PartAt(r, t, "check") /\ UNCHANGED jobSlots
       \/ /\ Cancelled(r) /\ PartDone(r, t, "error")
          /\ jobSlots' = jobSlots - 1 /\ UNCHANGED providerSlots
    /\ UNCHANGED childRows

\* Mutant: the tracker's slot is not given back when the tracker is skipped.
CheckEligibleLeaking(r, t) ==
    /\ parts[r][t].at = "check"
    /\ IF Eligible(t)
       THEN PartAt(r, t, "call") /\ SaveChild(r, t, "running")
            /\ UNCHANGED <<jobSlots, providerSlots>>
       ELSE PartDone(r, t, "skipped") /\ jobSlots' = jobSlots - 1
            /\ UNCHANGED <<childRows, providerSlots>>

(* A tracker that was disabled while the goroutine waited is not called.   *)
CheckEligible(r, t) ==
    /\ parts[r][t].at = "check"
    /\ IF Eligible(t)
       THEN PartAt(r, t, "call") /\ SaveChild(r, t, "running")
            /\ UNCHANGED <<jobSlots, providerSlots>>
       ELSE PartDone(r, t, "skipped") /\ ReleaseBoth(t) /\ UNCHANGED childRows

(* Latest, Category after Category, or Search of the tracker returns, and  *)
(* its eligibility is checked again: nothing of a tracker that was         *)
(* disabled is kept, and its failure is none.                              *)
TrackerAnswers(r, t, ok) ==
    /\ parts[r][t].at = "call"
    /\ IF ~Eligible(t)
       THEN PartDone(r, t, "skipped") /\ SaveChild(r, t, "completed") /\ ReleaseBoth(t)
       ELSE IF ok
       THEN PartAt(r, t, "store") /\ UNCHANGED <<childRows, jobSlots, providerSlots>>
       ELSE PartDone(r, t, "error") /\ SaveChild(r, t, "failed") /\ ReleaseBoth(t)

(* upsertTrackerReleases is one transaction under the run's context.       *)
StoreReleases(r, t) ==
    /\ parts[r][t].at = "store"
    /\ IF Cancelled(r)
       THEN PartDone(r, t, "error") /\ ReleaseBoth(t) /\ UNCHANGED childRows
       ELSE PartAt(r, t, "stored") /\ UNCHANGED <<childRows, jobSlots, providerSlots>>

(* The child's row and its RecordSync; a search queues refreshes of the    *)
(* titles it found before that (module Jobs).                              *)
PartSucceeds(r, t) ==
    /\ parts[r][t].at = "stored"
    /\ PartDone(r, t, "ok") /\ SaveChild(r, t, "completed") /\ ReleaseBoth(t)

PartStep(r, t) ==
    /\ \/ acquireJob(r, t) \/ providerSlot(r, t) \/ CheckEligible(r, t)
       \/ \E ok \in BOOLEAN : TrackerAnswers(r, t, ok)
       \/ StoreReleases(r, t) \/ PartSucceeds(r, t)
    /\ UNCHANGED <<settingsState, syncRows, syncRun, asked, cutOff>>

(******************************** settings *********************************)

(* A settings save: the settings change, ...                               *)
SaveTrackers(ids) ==
    /\ saves < MaxSaves /\ saves' = saves + 1 /\ ~settingsSaved
    /\ enabled' = ids /\ settingsSaved' = TRUE /\ UNCHANGED providerCtx
    /\ UNCHANGED <<syncRows, childRows, syncRun, parts, jobSlots, providerSlots, asked, cutOff>>

\* Mutant: what is under way goes on under its old settings.
RefreshTrackersLater ==
    /\ settingsSaved /\ settingsSaved' = FALSE
    /\ UNCHANGED <<enabled, providerCtx, saves, syncRows, childRows, syncRun, parts, jobSlots,
                   providerSlots, asked, cutOff>>

(* ... then the handler, or the desktop's binding, calls RefreshTrackers.  *)
RefreshTrackers ==
    /\ settingsSaved /\ settingsSaved' = FALSE
    /\ providerCtx' = providerCtx + 1
    /\ UNCHANGED <<enabled, saves, syncRows, childRows, syncRun, parts, jobSlots,
                   providerSlots, asked, cutOff>>

CatalogSyncNext ==
    \/ \E r \in SyncRuns, m \in SyncModes : SyncCatalogLists(r, m)
    \/ \E r \in SyncRuns : SyncCatalogSaves(r) \/ TakeContext(r)
    \/ SearchBegins
    \/ \E r \in AllRuns : FanOut(r) \/ Joined(r) \/ \E t \in Trackers : PartStep(r, t)
    \/ \E ids \in SUBSET Trackers : SaveTrackers(ids)
    \/ RefreshTrackers

CatalogSyncSpec == CatalogSyncInit /\ [][CatalogSyncNext]_syncVars

(******************************** properties *******************************)

CatalogSyncTypeOK ==
    /\ enabled \subseteq Trackers /\ settingsSaved \in BOOLEAN
    /\ providerCtx \in Nat /\ saves \in 0..MaxSaves /\ asked \in 0..MaxSyncs
    /\ syncRows \in [SyncModes -> RowStates]
    /\ childRows \in [SyncModes \cup {"search"} -> [Trackers -> RowStates]]
    /\ syncRun \in [AllRuns -> RunType] /\ parts \in [AllRuns -> [Trackers -> PartType]]
    /\ jobSlots \in Nat /\ providerSlots \subseteq Trackers
    /\ cutOff \subseteq SyncModes \cup {"search"}

(* The goroutines that have a job slot, and the runs whose goroutine has   *)
(* the slot of a tracker.                                                  *)
Holding == {p \in AllRuns \X Trackers : parts[p[1]][p[2]].at \in HasJob}
Working(t) == {r \in AllRuns : parts[r][t].at \in HasTracker}

(* Slots come back on every way out of a goroutine, cancellation at either *)
(* wait and each early return included: what is taken is what goroutines   *)
(* still hold, no two of them ask one tracker, and so nobody waits for a   *)
(* slot that nobody will give back.                                        *)
SlotsAreReturned ==
    /\ jobSlots = Cardinality(Holding) /\ jobSlots <= JobSlots
    /\ \A t \in Trackers : Cardinality(Working(t)) = IF t \in providerSlots THEN 1 ELSE 0

(* Once a settings save is done, a tracker that it disabled is left alone: *)
(* it is not asked anything and nothing of it is stored any more, except   *)
(* under a context that is cancelled, whenever the goroutine had taken its *)
(* context, its list of trackers and its slots.                            *)
DisabledIsLeftAlone ==
    \A r \in AllRuns, t \in Trackers :
        parts[r][t].at \in {"call", "store"} /\ ~Eligible(t) /\ ~settingsSaved => Cancelled(r)

(* A synchronization that says it is queued or running is in somebody's    *)
(* hands: otherwise SyncCatalog would answer with it for ever.  The final  *)
(* save of a run that a settings save cancelled fails, and leaves its row. *)
ActiveSyncRuns ==
    \A m \in SyncModes :
        syncRows[m] \in ActiveStates /\ m \notin cutOff =>
            \E r \in SyncRuns : syncRun[r].mode = m /\ syncRun[r].at # "idle"

(* Synchronizations respect the slots, the settings and their rows.        *)
SyncSafe ==
    CatalogSyncTypeOK /\ SlotsAreReturned /\ DisabledIsLeftAlone /\ ActiveSyncRuns
================================================================================
