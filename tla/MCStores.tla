-------------------------------- MODULE MCStores -------------------------------
(***************************************************************************)
(* What the service keeps outside its own process memory, one store at a   *)
(* time: the torrent engine's bookkeeping, the qBittorrent daemon, the     *)
(* files that are streamed, the files of an update and the data directory. *)
(* The one in focus runs, the others stay as they started.                 *)
(***************************************************************************)
EXTENDS Engine, Staging, DataDir, QBittorrent, QBSession, Streaming, Infos, Catalog,
        CatalogSync, Settings

CONSTANT Foci       \* the stores this instance runs

VARIABLE focus      \* the store that this behaviour is about

storesVars == <<focus, engineVars, stagingVars, dataDirVars, qbVars, qbSessionVars,
                streamingVars, infosVars, catalogVars, syncVars, settingsVars>>

(* A suffix longer than the file, a range that runs past its end, and one  *)
(* that is not a range.                                                    *)
SomeRanges == {[first |-> -1, last |-> 4], [first |-> 1, last |-> 3],
               [first |-> 2, last |-> 1]}

(* Reports of releases of two names, with two IMDb ids for the first one.  *)
SomeReports == {x \in Report : /\ x.imdb = "b" => x.sort = "x" /\ x.year = 1
                               /\ x.sort = "y" => x.year = 0 /\ x.imdb = "a"}

(* Two releases, of which only one need have its IMDb id and year.         *)
SomeOld == {[r \in {o, p} |-> IF r = o THEN [sort |-> "x", year |-> 0, imdb |-> "none"] ELSE x] :
               o \in Threads, p \in Releases \ Threads, x \in Reports}

(* Nothing tells one of the goroutines, dialogs or streams of a store from *)
(* another.                                                                *)
Processes == Permutations(Threads)

(* Everything but the store in focus stays.                                *)
Only(which) ==
    /\ focus = which /\ UNCHANGED focus
    /\ which # "engine" => UNCHANGED engineVars
    /\ which # "staging" => UNCHANGED stagingVars
    /\ which # "datadir" => UNCHANGED dataDirVars
    /\ which # "qbittorrent" => UNCHANGED qbVars
    /\ which # "qbsession" => UNCHANGED qbSessionVars
    /\ which # "streaming" => UNCHANGED streamingVars
    /\ which # "infos" => UNCHANGED infosVars
    /\ which # "catalog" => UNCHANGED catalogVars
    /\ which # "catalogsync" => UNCHANGED syncVars
    /\ which # "settings" => UNCHANGED settingsVars

StoresInit ==
    /\ focus \in Foci
    /\ EngineInit /\ StagingInit /\ DataDirInit /\ QBInit /\ QBSessionInit
    /\ StreamingInit /\ (focus = "streaming" \/ swarm.temp)
    /\ InfosInit /\ CatalogSyncInit
    /\ CatalogInit /\ (focus = "catalog" \/ catalog = [r \in Releases |-> Unknown])
    /\ SettingsInit /\ (focus = "settings" \/ (file = Defaults /\ ~toolFound))

StoresNext ==
    \/ Only("engine") /\ EngineNext
    \/ Only("staging") /\ StagingNext
    \/ Only("datadir") /\ DataDirNext
    \/ Only("qbittorrent") /\ QBNext
    \/ Only("qbsession") /\ QBSessionNext
    \/ Only("streaming") /\ StreamingNext
    \/ Only("infos") /\ InfosNext
    \/ Only("catalog") /\ CatalogNext
    \/ Only("catalogsync") /\ CatalogSyncNext
    \/ Only("settings") /\ SettingsNext

StoresSpec == StoresInit /\ [][StoresNext]_storesVars
================================================================================
