# torrent-tv in TLA+

torrent-tv is a home server that turns torrent releases into a catalog of
titles, downloads what the household plays, streams it while it downloads and
deletes what no longer fits. This directory holds TLA+ specifications of the
parts of that server whose correctness depends on the order in which concurrent
requests, background passes, failing calls and restarts interleave, with the
TLC runs that check them and the TLAPS proofs of what is true for every size of
the system.

All paths below are relative to the repository; `service.go` and
`retention.go` are those of `internal/application`.

## The system

| part | state it keeps | operations | who it talks to |
|---|---|---|---|
| Stream leases | `s.leases[id]` in memory, the `leased` column | `Acquire`, `Release`, `ResetLeases` | the stream handler, eviction and removal ask `rowLeased` |
| Downloads | rows of `downloads`, per-key mutexes `s.locks` | `Prepare`, `PrepareSeason`, `Manage` | the engine, the table, admission |
| Admission | `admissionMu`, `reservedBytes`, one `allocationReservation` per request | `ensureAllocationRoom` | surveys rows and engine, evicts |
| Retention | the retention job, the user's rules and toggles | `RunRetention`, `evictNext`, `removeTorrent` | rows, engine, household state, settings, free space |
| Native engine | live torrents, selections, pauses, the session file, the completion database, hash gates | `Add`, `PrepareFiles`, `Pause`, `Resume`, `Remove`, `ResolveMagnet`, `PrepareRange` | the anacrolix client, the download root |
| qBittorrent adapter | the login, a gate and a lock per hash | `Add`, `PrepareFiles`, `Remove`, `ResolveMagnet` | the daemon's HTTP API |
| Streaming | requests with a range and a lease | `API.stream`, `ReadableRangePath`, `WaitRange` | the engine, the file |
| Household | playback rows, watched flags, favourites | `UpdatePlayback`, `SetWatched`, `SetTitleFavorite`, `HouseholdState` | the catalog, the retention survey |
| Library state | none, it is computed | `applyCatalogState`, `sourcesState`, `packSourceState` | downloads and playback rows |
| Catalog | releases, their titles, favourites | `Open`, `UpsertReleases`, `RemoveRelease`, `SetFavorite`, reconciliation | synchronizations, job keys |
| Synchronization | rows of `jobs`, job slots, tracker slots, the provider context | `SyncCatalog`, searches, `RefreshTrackers` | trackers, the catalog |
| Jobs | rows of `jobs`, bounded queues, `pendingMetadata` | `QueueTitleRefresh`, `EnsureMetadata`, `RetryJob`, `recoverInterruptedJobs` | workers, the scheduler's tickers, trackers |
| Details | cached rows, flights | `TitleInfo`, `SeasonInfo`, `expireTitleInfo` | metadata providers |
| Families | cached tiles, a generation, a flight | `CatalogFamilies`, `RefreshFamilies`, `WarmFamilies` | the catalog |
| Events | the journal, the subscribers' channels | `publish`, `SubscribeEvents`, the SSE handler | every component publishes |
| Process | App, host, update token, response barrier, `stopping`, `wg` | start, drain, `Close`, `Apply`, hand-off | everything |
| Self-update | the live file, its backup, the journal and its lock | check, download, swap, acknowledge, roll back | the helper process, systemd, the next start |
| Staging | the part file, the unpacked tree, the record | `Resolve`, `StageArchive`, `Extract`, `Prepare` | the release CDN |
| Portal hub | `hubState`, a generation, the donor's timer | `Run`, `refresh`, account operations | the portal, the event sink |
| Subtitles | `subtitle_assets`, the VTT cache, the probe cache | `SearchSubtitles`, `PrepareSubtitle` | media files, subtitle providers |
| Settings | the file, its values, the values in force | `LoadAt`, `Save`, `ResolveMediaTools` | the environment, HTTP clients, the desktop |
| Data directory | two trees, the pointer, the launch-on-boot entry | `ChangeDataDir`, `ResolveFor` | the supervisor, settings |

The hard behaviours are at the borders between these parts. A request is a
goroutine that makes one call after the other, to a table, an engine and a few
shared counters, and almost nothing spans two calls: `admissionMu` covers an
admission but not the row that ends it, removal checks a lease and then removes,
a cycle of the portal hub works on a copy. Every call may fail, a request may be
cancelled anywhere, an answer may be lost after its command took effect, and the
process may stop between any two calls, keeping tables and files and losing every
counter. `hazards` in `PROJECT.json` lists the places, each with its line and
with the properties that watch it.

What makes each part correct is said once, in the comments of the properties
that the runs check; the table of runs below names them.

## Modules

| module | contents |
|---|---|
| `StreamLease` | abstract: the stream lease as `GLOSSARY.md` words it |
| `Leases` | the lease protocol of one download, call by call |
| `Downloads`, `DownloadsHistory`, `DownloadsProofs` | ownership of torrents under concurrent requests; two history variables for the properties that compare a state with an earlier one; proofs of exact reservations, of admissions that fit the Allocation when torrents have one file, of streams that keep their torrent and of last removals that take it |
| `EvictionRules` | pure: the rules, their composition and tie-breaks |
| `Retention`, `RetentionProofs` | the eviction loop, extends `EvictionRules`; proofs about the order and about every pass |
| `Jobs`, `JobsProofs` | persistent jobs: requests, queues, workers, scheduler, merges of titles; proofs about rows, marks, runners and landings |
| `Installation` | abstract: what an update promises of an installation |
| `Updates`, `UpdatesProofs` | the transaction of a self-update, two processes and a directory; proofs that it keeps a proven version, implements `Installation` and does not loop |
| `Staging` | how an update gets its payload |
| `Host` | the server process, its hosts and its update coordinator |
| `Events` | the journal, its fan-out, clients that reconnect |
| `Families` | the cache of family tiles |
| `Portal`, `Household`, `Subtitles`, `LibraryState` | what viewers see |
| `ServicesProofs` | proofs about `Host`, `Events`, `Families` and `Portal` |
| `ViewersProofs` | proofs about `Leases` (it implements `StreamLease`), `Household`, `Subtitles` and `LibraryState` |
| `Engine`, `QBittorrent`, `QBSession`, `Streaming` | the two engines, the session with the daemon, and streams |
| `Catalog`, `CatalogSync`, `Infos`, `Settings`, `DataDir` | what is stored |
| `StoresProofs` | proofs about `Engine`, `QBSession`, `Infos`, `Streaming`, `CatalogSync` and `Catalog` |
| `FilesProofs` | proofs about `QBittorrent`, `DataDir`, `Settings` and `Staging` |
| `MC...` | the instances that the `.cfg` files check |

`MCServices`, `MCViewers` and `MCStores` put several modules into one instance: a
constant variable `focus` picks the module that runs, and the others stay as they
started. Their state spaces add instead of multiplying, and each property speaks
of the module it is defined in. Every other variable has one initial value
outside its focus.

Each definition that models code is in `map` of `PROJECT.json`, with its lines.
Operators whose comment starts with `Mutant:` are defined just before the one
they are a wrong version of; `mutants` lists one per property, and the others
document what else the same property notices.

### Leases

One download and its streams. `pc[s]` says where stream `s` is: `persist`,
`undo`, `clear`, `clearRetry` are the four writes of the column (`Acquire`'s,
its error path's, `Release`'s and its retry). A write has two steps, as in
`persistLease`: `BeginWrite` takes `leaseWriteMu` and reads the count into
`held`; `EndWrite` or `FailWrite` is the SQL statement. `Crash` loses the count,
and a statement in flight may or may not have committed; `Boot` is
`ResetLeases`, which may fail and is then only logged. `Faults` says which
writes may fail. `gaveUp` records that the last write of the column was
abandoned; no step depends on it. The row itself exists throughout: a row that is deleted
under its streams is in `Downloads`.

### Downloads

`req[p]` is a request: `at` is the call it makes next, the other fields are its
local variables (`want` the files it is about, `seen` and `flags` the rows and
leased columns it read, `need` the bytes it asks room for, `keyed` and `hashed`
the mutexes it holds). One action is one call to the table, the engine or a
shared counter together with the computation around it.

| actions | code |
|---|---|
| `Prepare`, `Find`, `List`, `Reuse`, `ReuseSave`, `EngineAdd` | `Service.Prepare`, `prepareExistingTorrentFile` |
| `PrepareSeason` | `Service.PrepareSeason` |
| `ManagedLocal`, `ManagedStatus`, `managedTorrentIndices`, `SelectFiles`, `SaveRow` | `prepareManagedDownload`, and the same calls at the end of `Prepare` and `PrepareSeason` |
| `EnterAdmission`, `Survey`, `Admit`, `ChooseVictim`, `EndWeigh` | `ensureAllocationRoom`, `retentionSurvey`, `evictNext` |
| `ManageRemove`, `EngineRemove`, `ForgetList`, `ForgetRow`, `RowGone` | `Manage(remove)`, `removeTorrent`, `forgetEngineRows` |
| `ManageRemoveFile`, `DeleteRow`, `Remaining` | `Manage(remove-file)` |
| `ManagePause`, `ManageRetry`, `TouchList`, `Touch`, `Enter` | `Manage(pause, resume, retry)` |
| `Acquire`, `Lease`, `Persist`, `PersistFails`, `Release` | `Service.Acquire`, `Service.Release` |
| `RunRetention` | a pass of `runRetention` |
| `TorrentGone`, `Fail`, `Return`, `Restart`, `Complete` | errors, the deferred releases, a restart, the engine's progress |

Abstractions, all of data: a release is its torrent; bytes are small numbers;
a tracker may report a size different from the torrent's own, so the second
admission of `Prepare` is there; hashing, names, labels, job logs and events are
left out; a call of the engine that only reads and the computation after it are
one step with the next call. Count and column of a lease move together (module
`Leases` takes them apart), and any unprotected torrent may be the victim
(module `Retention` has the order). The free-space Reserve is off here.

### Retention and EvictionRules

`EvictionRules` is the comparison of `applyEvictionRules`: `precedes` is the
function given to `sort.Slice`. `Retention` runs passes: `Begin` reads the
settings once, `Survey` the rows and the household, then `Fits`, `Choose` or
`Stuck` evaluate the statuses and the free space, `EngineRemove` and
`ForgetRows` remove one torrent, and the pass surveys again. A pass of the job
and one of an admission differ where the code differs: in what they weigh
(`Incoming`), in refusing while a torrent cannot be described (`Uncertain`) and in
what they do when nothing is left to evict (`StuckOutcome`). Events change the
world between calls: streams come and go (and touch `UpdatedAt`, as `SetLease`
does), torrents return and complete, titles are liked and watched, settings are
saved, the volume fills. Rows of one torrent come and go together, and the
admission does not go on to download: `Downloads` has both.

A torrent's rows name releases, a release has a title, and `playback` is kept by
release. As in `retentionHousehold`, a survey knows the playback of releases that
have a row (`LatestByTitle`) and no other, so that forgetting the rows of one
torrent may change what is known of another one of the same title. `shifted`
remembers that this happened between the survey and the end of another pass.

### Jobs

`rows` is the jobs table by id; a row has the title its dedupe key names, its
state, and whether it is retryable and has a next attempt. `queues` are
`metaQueue`, `refreshQueue` and `searchQueue`, `pending` is `pendingMetadata`.
`ask[a]` is the enqueueing a handler, the refresh worker or the scheduler is in:
between the row and the send others run. `work[w]` is the run of a worker:
`title` the title of its request, `id` and `key` those of its row.

| actions | code |
|---|---|
| `CallerAsks`, `AskSave`, `AskSaveFails`, `AskSend`, `AskFull`, `AskGiveUp` | `ensureMetadata`, `QueueTitleRefresh`, `QueueTrackerSearch`, `RetryJob`, called by handlers |
| `Take`, `Start`, `Answer`, `Drop`, `Resolve`, `Land`, `Finish`, `Done` | `runMetadataRequest`; without `Resolve` and `Land`, `runTrackerSearch` |
| `ChildStart`, `ChildFails`, `ChildEnds`, `AskMetadata` with the above | `runTitleRefresh` and the goroutine of its tracker |
| `Recover`, `RecoverRow`, `Recovered` | `recoverInterruptedJobs`, while handlers already run |
| `ListDue`, `RetryRow`, `RetryDue` | `retryDueJobs` |
| `moveExtinctGroupDependents`, `Expire`, `Restart` | a merge of two titles, time, a restart |

`SaveJob` is the upsert as SQLite runs it: the row with the key, else the row with
the id. `GetJob` knows the id only. Left out: attempts, progress, labels, job logs,
events, the hourly throttle of refreshes (it only refuses), job and provider slots
and synchronizations (`CatalogSync` has them). Every title has
an IMDb id.

### Updates, Installation and Staging

`disk` is the live file and its backup, a file being the version of its content;
`journal` is the operation's record; `srv` is the server process with its program
counter, `helper` the helper process of Windows and of bundles, or systemd.
Every file operation is an action that may fail, and `Crash` ends either process
between any two. `mode` is the platform, one of `Modes`: a file that is swapped by one rename
(Linux, under systemd or not), by two (Windows) or a directory that is exchanged
(macOS). Time is two events: the journal's deadline passes, the helper loses
patience. `proven` are the versions that have acknowledged. `gaps` names what the
code does not provide for (a restore that failed, a record that could not be
saved, a launch that failed, an acknowledgement that raced the rollback), and
the properties excuse these by name.

`Installation` knows the version to rely on and the version on trial. The
refinement `InstallsAtomically` maps them to `Base` and `Trial`.

`Staging` is the way to the payload that `Updates` takes as given: release
metadata, the body in chunks over connections that end early, the digest, the
archive's members as they are read, and the record.

### Host, Events, Families

`Host`: `app[a]` is one composition (listener, service, requests in flight,
background work), `mgr[a]` its update manager (token, operation, barrier), `chk[a]` a check beside it,
`host` the headless or desktop host. The desktop builds a new App per start, so
an operation of the earlier one may still run. `Events`: `conn[c]` is a client's
connection with its bounded channel, `client[c]` what it has seen; `publishing` is
a publisher between the look at `stopping` and `eventMu`. `Families`: a flight
reads the generation, builds and stores; a change commits first and is announced
later.

### Portal, Household, Subtitles, LibraryState

`Portal`: a cycle copies the state, takes one answer per step and commits it
whole, while the expiry timer and an account operation act on `hub`; `emits`
holds snapshots not yet published. `Household`: `call[h]` is a handler between its
read and its save, `Listings` are the orders in which the rows may come, ties
included. `Subtitles`: `prep[p]` is a player's request, the cache is a sequence by
age; an asset has the time of its row (`created`, which the upsert keeps) and the
time it was last made (`at`, history). `LibraryState` translates the fold over downloads, files, packs, releases and
episodes; its steps are the downloads and reports that change what it folds.

### Engine, QBittorrent, QBSession, Streaming

`Engine`: `live`, `prio`, `allowed` are the library's torrent, `selected` and
`paused` the client's maps, `entry` and `disk` the session in memory and on disk,
`data` and `completion` the bytes and what is known of them. A `Restart` restores
from the session. `QBittorrent`: the daemon acts by itself (`DaemonWorks`), a
command may take effect with its answer lost (`Commanded`), another client may
select other files. `QBSession` is the login. `Streaming`: pieces arrive, are
hashed, dropped and rechecked, the file grows and moves, streams ask for chunks
that double up to the read-ahead. That the first chunk is cut to the read-ahead is
left out: `validate` keeps the read-ahead at least as large.

### Catalog, CatalogSync, Infos, Settings, DataDir

`Catalog`: a release is what trackers report of it (sort title, year, perhaps an
IMDb id); a title id is what is hashed for it; `opening` is how far `sqlite.Open`
has got with its database, which may be one from before there were titles.
`CatalogSync`: `parts[r][t]` is the
goroutine of tracker `t` in run `r`, with the slots it holds. `Infos`: one row
stands for the three caches, with the flight that fetches it. `Settings`: one
field per way a field is treated; `language` stands for the audio language and the
two metadata languages, which `validate` accepts blank and `LoadAt` fills. `DataDir`: two locations, each with a tree and
what it holds; `change[d]` is a call of `ChangeDataDir`.


## Runs

| run | instance | shows |
|---|---|---|
| `downloads_pack` | 2 requests of all eight operations on a torrent of 2 files, failing calls and restarts | `DownloadsSafe`: claims are counted exactly. `LastRemovalTakesTorrent`: racing removals leave no torrent without a row |
| `downloads_films` | 2 requests, 2 films of 2 bytes and an Allocation of 3, streams, removals, retention, no failures, fair | `StreamsKeepTheirTorrent`, `AdmissionsFit`: a stream keeps its torrent, and admissions overshoot only through two named gaps. `RequestsReturn`: every request returns |
| `downloads_race` | 2 admissions | violation of `NoOvershoot`: a claim released between survey and decision overshoots the Allocation |
| `retention` | 3 torrents of 2 titles, 3 settings, a job and an admission, one event | `RetentionSafe`: the order is total and protection holds. `RetentionSteps`: no needless eviction, refusals only for the Allocation. `PassesEnd` |
| `jobs_lookups` | 2 titles, 2 metadata workers, 2 requests, queues of one place, one merge, restart, expiry or retry pass | `JobsSafe`: unique keys, one lookup per title, marks exact. `LandsOnLiving`, `MarksClear` |
| `jobs_refreshes` | 2 titles and a query, refreshes and searches, one merge, restart or retry pass | `ActiveHasRunner`: an active row is in somebody's hands |
| `jobs_dropped` | the lookups with one worker | violation of `DroppedIsOwned`: a result is dropped and its row stays running |
| `updates` | 4 platforms, 3 versions of which one is broken, 2 operations, 2 crashes, 1 fault | `UpdateSafe`: a proven version survives and a rollback restores it alone. `NoInstallLoop`. `InstallsAtomically`: refinement of `Installation`. `HandoffResumes` |
| `services` | host, events, families and leases in turn | `HostSafe`: nothing closes under a goroutine, a handed-off process is drained, the announced state is true. `EventsSafe`: no silent gap. `FamiliesSafe`: fresh tiles are current. `LeasesSafe`, `LeaseSpec`: the column follows the count and implements `StreamLease`. `ChangesReachTiles`, `OperationsEnd`, `StreamsDrain`, `FlagEventuallyClears`: what must come to pass |
| `viewers` | portal, household, subtitles (every kind of track, then one track asked for once more) and library state in turn | `PortalSafe`, `PortalProgress`: donors see no promotions, clients are told, a changed key and an expiry take effect. `HouseholdSafe`: lists are complete, favourites play, marks stay. `SubtitlesSafe`: answers are current, a file is read again only when no current asset was made or its row is out of date for good, the cache is bounded. `LibraryStateSafe`: nothing is hidden, packs agree with their files, steps do not make a title look new |
| `subtitles_reread` | one embedded track, three preparations by two players, two changes of the file | violation of `SecondPlayerFindsIt`: after a change of the file every player reads it again |
| `stores` | ten stores in turn | `EngineSafe`, `QBittorrentSafe`: the parts agree when nothing is under way. `RejectedForCause`. `StreamingSafe`: verified bytes, the asked range, urgent pieces. `StagingSafe`: the published payload within bounds, no leftovers. `DataDirSafe`. `SyncSafe`: slots return, disabled trackers are left alone, active rows run. `CatalogSafe`: titles do not depend on order, favourites stay. `InfosKept`, `SettingsKept` |

The three violations are disagreements between the code and what its comments say;
`findings` quotes both sides. A passing property that excuses something excuses it
by name, and the mutants show that it excuses nothing else:

- `AdmissionsFit` excuses exactly two gaps. `Slips`: a claim given back between
  another admission's `Survey` and its decision. `Adopts`: a torrent that enters
  the table by a request without a claim, for instance a row that a
  request saves again because it listed it before it was removed. A sibling file of
  a torrent already in the table has no admission either; the run has none.
- `StreamsKeepTheirTorrent` speaks of streams that held their lease at the last
  check of the removal. A stream admitted after that check loses its torrent.
- `LastRemovalTakesTorrent` excuses a request that ends in an error while it is
  the one that minds the torrent (a `Prepare` that fails after `engine.Add`
  leaves the torrent behind), and `forgetEngineRows` of a torrent that was added
  again after its removal.
- `LeasesSafe` excuses a column whose last write was abandoned (`gaveUp`): a
  cancelled request fails both writes of `Acquire` with its context.
- `RetentionSteps` speaks of passes that nothing stirs. A job and an admission
  still interleave with each other freely. While they know the same facts they
  agree on the victim, by the tie-breaks, as the mutant that drops them shows. They
  need not know the same: when one forgets the rows of a torrent between the other's
  survey and its choice, the playback of these rows' releases is lost to the titles of
  other torrents, the next survey sees other facts, and the two may delete one torrent
  each where one would have done. That case (`shifted`) is excused for deletions,
  not for refusals.
- `RetentionSafe` means by "watched" what a survey would find at that moment,
  not what the screens show. `retentionHousehold` skips the playback of a release
  that has no row (retention.go:257-260), so when the release that was played last is
  removed, another torrent of its title counts as watched by an older playback, or as
  never watched. Its comment promises "the same aggregation the household screens use"
  (retention.go:221-222), which resolve the releases of the playback, too
  (service.go:2715-2726).
- `ActiveHasRunner` speaks of the time before a merge and excuses the rows that
  four steps leave behind (`Strands`, remembered in `lost`): a dropped result, a
  child job whose context ended before it could be saved, a handler whose context
  was cancelled between the full queue and the save of the failure, and a
  recovery that skips a child job or finds the queue full.
- `LandsOnLiving` excuses lookups whose row was overwritten, while they ran, with
  what somebody had read before the merge (`stray`): `Start` after `Take`, and the
  scheduler's recovery and retries.
- The count of `JobsSafe` (`PendingIsExact`) speaks of the time before a merge:
  after it, `Done` clears the mark of the surviving title too, which may have a
  request of its own.
- `jobs_dropped` shows that a merge during a lookup makes every later lookup of the
  surviving title drop its result, since the row has the other title's id.
- `UpdateSafe`, `NoInstallLoop` and `InstallsAtomically` name `gaps`: a restore that
  failed (`repair`), the record of a rollback that could not be saved (`unsaved`,
  after which a bundle is exchanged twice), a relaunch that failed (`launch`), an
  acknowledgement that overwrote a rollback (`acked`), a start that met the
  helper's lock (`raced`).
- `HostSafe` excuses an App whose drain timed out, whose handler may still start
  work, and a check that read the status before an operation began or ended.
- `EventsSafe` lets a replay miss what the journal pruned, what lies past its
  limit and what could not be read: the `lost` events of a client.
- `PortalSafe` does not say which of two snapshots that are published at once
  arrives last (`overlapped`); the next event settles it.
- `HouseholdSafe`: a report that read the row before a mark was saved undoes it.
- `SubtitlesSafe`: an asset made within a second of a change of the media file, or
  while it changed, may be served, since `created_at` has seconds. A row that was
  first saved before the file last changed keeps that time when its asset is made
  anew, so it is never current again (`RowOutdated`), and each player reads the whole
  file for it; `subtitles_reread` shows it.
- `EngineSafe` names `engineGaps`: removals or selections of one hash that overlap,
  a session that could not be saved, a piece verified while its torrent went.
  `QBittorrentSafe` names `qbGaps`: lost answers, late listings, a cleanup that
  failed or timed out, a removal that met another operation, a preparation that
  stopped half-way.
- `StreamingSafe`: a request that outlives its torrent goes on with the pieces of
  the next one (`upset`); a request whose window was moved by another one waits
  for pieces that are not urgent (`moved`).
- `SyncSafe`: the row of a synchronization that a settings save cancelled stays
  running (`cutOff`).
- `CatalogSafe`: a family from which a release was removed is put right with the
  next release of it; favourites of a title whose releases have several names may
  leave with one of them; the favourite of a release that itself gains an IMDb id
  stays behind with a title that may have no release any more; a database with two
  favourites of releases of one title is refused, now and at every later start.
- `InfosKept`: a fetch or a request under way across a forced refresh writes the
  old row back (`crossed`).
- `SettingsKept`: a save neither anchors a relative path nor fills a blank language,
  which are in force as they are until the next start anchors and fills them
  (`NextStartChanges`); the later of two clients that save at once wins; a password
  without a user is dropped, also when the user is cleared that the environment sets
  in its stead.
- `DataDirSafe` excuses the loss of data only when calls of `ChangeDataDir` have
  overlapped. What it excuses besides (`moveGaps`) is a server that sees an empty
  tree after a half-failed removal, a save into the move, or a launch after a move
  that was cut short. A server that a move leaves stopped is in the model; no property
  asks that it be started again.
- `StagingSafe`: files of an operation that no record names yet, because the
  process stopped or another operation was in the way, stay behind.

### Bounds

- Two requests, callers or handlers are enough for every race between a check and
  its use: no protocol here counts to three parties, except the sums of claims and
  of leases, for which the proofs hold for any number. Leases have three streams,
  for one acquiring, one releasing and one whose write is in flight.
- In `Downloads`, two files per torrent distinguish "a row" from "the last row";
  two films that do not fit together make every admission evict or be refused; the
  declared size differs from the real one, so that the second admission happens.
  The films run without failing calls and restarts, which its liveness would make too
  large: the pack runs with them, and the theorems about `StreamsKeepTheirTorrent`
  and `AdmissionsFit` hold with and without them.
- In `Retention`, `MaxEvents = 1` bounds what happens outside the passes: one
  event at any point of two concurrent passes, or one failing `Status`, or one
  failed probe of the free space. Two torrents, each of its own release, share a
  title and tie on every rule but the EngineID: one of them streamed and watched at
  the start gives the title a playback that leaves with its rows.
  The three settings exercise the empty rule list, a composed list, the
  Allocation and the Reserve, and each toggle on and off.
- In `Jobs`, two titles are one merge; queues of one place are full as soon as one
  request waits. `jobs_refreshes` has no metadata worker, so that the lookups that
  refreshes ask for fill their queue. Between them the runs try the outcomes that
  end in different rows: success and a rate limit of a lookup, success, deadline
  and transient failure of a refresh.
- `Updates`: a broken version between two good ones gives an update that is rolled
  back and a newer one that replaces it; two operations are one after another that
  failed; two crashes are one in each process, or two of one; one fault is enough
  for every error path, alone or with the crashes.
- `Host`: two Apps are a desktop restart; one request to apply, one check and one
  handler meet every step. `Events`: a channel of one place is full at once, a
  replay of two and a journal of one event make both limits bite in four events.
  `Families`: two changes put one before and one during a flight.
- `Portal`: two keys, one change, one tick. `Household`: two episodes of one title
  and a film, one place per list, three reports. `Subtitles`: one track of each
  kind and a cache of one file, so every second preparation prunes; three preparations
  of one track are one before a change of the file, one after it and one that finds
  the row out of date.
  `LibraryState`: a pack of three files of which two are on the page, a release that
  replaces one of them, a film of two releases, three steps from any catalog page.
- `Engine` and `QBittorrent`: four operations on one hash by two callers, with one
  failed save and one restart, or one lost answer. `Streaming`: a file of three
  bytes that starts inside a piece and ends in another, chunks of one and two.
  `Staging`: sizes below, at and above the bounds. `DataDir`: two moves, there and
  back, and two launches.
- `CatalogSync`: two trackers, two runs and a search over two job slots, one
  settings save. `Catalog`: three releases of two names and two IMDb ids are the
  least in which an id joins names and a change of it splits them; an old database
  has two of them, with any favourites. `Infos`: one
  forced refresh, one failure, one change upstream. `Settings`: two saves, two
  starts, one setting that the environment manages.

`MCStores` declares its callers symmetric: they are the sets of model values of the
stores in which nothing tells one caller from another, and the run has only
safety properties. The safety runs of the downloads do the same with requests and
with the files of the pack.

### Fairness

- `Leases`: a handler that may step does. `BeginWrite` is strongly fair since
  other handlers take `leaseWriteMu` in between and Go's mutex hands itself to a
  waiter that starves. Nothing says that a stream is requested or ends.
- `Downloads`: `Proceed(p)` is strongly fair for the same reason (`admissionMu`,
  `s.locks`). `Release`, `Start`, failures, completions and restarts are not fair:
  a stream may last for ever.
- `Retention`: a pass makes its next call (weak fairness); a pass is never
  started by fairness.
- `Jobs`: handlers, workers and the scheduler make their next step (weak
  fairness): lookups and searches have deadlines, so they end. Requests, merges,
  failing saves, expiries and restarts are not fair.
- `Updates`: the server's next step, the helper's, and systemd's restart. Users
  start nothing by fairness.
- `Host`: steps of an operation and of the host, each of which has a deadline
  (`FlushWait`, the shutdown timeout). Handlers and workers may last.
- `Events`: a handler whose channel was closed, or that has something to send.
- `Families`: the flight's next step, and the announcement that follows a
  synchronization's commit in the same goroutine.
- `Portal`: the refresh loop, the emitters and the end of a call, which has
  `requestDeadline`; neither a key change nor the donor's timer alone.

## Proofs

The proof modules are checked by TLAPS from the named assumptions of the
component modules. These say only that sets are finite where cardinalities are
taken, that bounds are natural numbers, and that names which the code keeps apart
(a nil pointer and a request, a free gate and a thread) differ. Every bound of a
run (capacities, numbers of restarts, failures, versions, merges, clients) is an
arbitrary natural number in the theorems.

All the proofs about a component are laid out alike. What an action does to the
fields it touches is one lemma; that a step keeps a part of the invariant is then
one short step per action, and what speaks of one request, worker or client is
split into the one that moves and those that stay.

### Leases and downloads

- `LeasesTheorem` has two halves. `CountTheorem`: the count is
  inductive only together with where the writer is and what a stopped process has
  lost (`LeaseInv`: `TypeOK`, `CountIsExact`, `WriterWrites`, `DownIsEmpty`).
  `FlagTheorem`: `FlagAgrees` needs the strengthening `RepairPending`: while nobody
  writes and nothing was abandoned, a column that disagrees with the count has a
  handler that is still going to write; `StaleWriteIsFollowed` says the same of a
  write in flight. Neither is inductive alone, since the end of a stale write
  turns the second into the first.
- `LeaseRefinement`. Under `LeaseInv` each step of `Leases` is a step of
  `StreamLease` or leaves `Playing` and `rowLeased` alone.
- `ReservationTheorem`, `AdmissionTheorem` (`DownloadsProofs`). `Inv` is `TypeOK`,
  `ReservedIsHeld`, `ClaimsGuarded` (who holds `admissionMu` holds no claim, and
  only its holder surveys and decides) and `Routed` (every request but a retention
  pass has a torrent). `ClaimsGuarded` is what makes `Admit` add to a claim that is
  zero. The sum of the claims is the cardinality of a disjoint union, and lemmas
  `TotalSplit` and `TotalUpdate` say what changing one claim does to it.
- `AdmissionsFitTheorem`, for torrents of one file (`OneFile`). It is false of packs:
  `prepareExistingTorrentFile` brings a sibling of a torrent that is in the table
  without an admission. `AccountedInv` keeps the account: torrents in the table that
  nobody claims fit beside the whole of `reserved`, and the survey of an admission
  has missed no torrent but claimed ones (`Accounted`), until `Slips` or `Adopts`.
  That the claims cover the others needs that the requests which prepare one file
  exclude each other by its key, and that a claim is no smaller than the torrent
  it stands for (`ClaimsInv`); the engine selects no file of another torrent
  (`SelectsInv`). The theorem follows by paying each claimed torrent out of the claim
  of its only claimant (`AccountedFits`).
- `StreamsTheorem`. `PathInv` says what a request may hold at each call (which
  of its variables are set where), `ShieldInv` that the files a
  removal saw streamed and that still are belong to its survey while it decides,
  and to no torrent it has decided to delete: what it would delete is then
  protected by a leased row.
- `LastRemovalTheorem` is about single steps. A torrent becomes orphaned when its
  last row goes, when it is added, or when the request that minds it turns away;
  each call that does one of these keeps a row, hands the torrent to
  the request that minds it, or is an excuse that the property names. `Inv` and
  `PathInv` say that the row a request saves or the torrent it removes is its own.

### Retention

- `OrderTheorem`. Every rule compares an integer key of
  the two torrents (`RuleComparesKeys`), so the composed comparison is the
  lexicographic order of a sequence of integers ended by age and EngineID
  (`PrecedesIsLexicographic`), for every list of rules, unknown ones included.
- `RetentionTheorem`. The order of the plan is `OrderTheorem` for the routes of a
  survey; that a torrent protected from the survey to the choice is never the
  victim needs that its protection can be read off what the pass remembers of the
  survey (`ProtectInv`).
- `RetentionStepsTheorem`. `QuietInv` says what a pass knows while nothing stirred or
  shifted anything: its survey is the table less what it and the other pass have
  removed, its settings are those in force, and what it knows of the titles of
  torrents that still have rows is what a survey would find now (`Agrees`); which
  torrents there are it knows even after a shift (`SeesInv`), which is what the
  refusals need. Two passes may then choose at once, and they choose the same torrent,
  since the order is total (`OneVictim`).

### Self-update

- `UpdateTheorem`. The journal's lock separates the server's file operations from
  the helper's (`LockInv`). An operation on trial is before its swap, with a proven
  version live (`Pre`), past it, with a proven version as the backup (`Post`), or
  being reverted (`Reverting`), and the place of each process says which
  (`ServerPlace`, `HelperPlace`). All of this holds until a bundle is exchanged
  twice (`Twice`), which the gap `unsaved` names.
- `InstallTheorem`. Until a gap is met, each step maps to a step of `Installation`
  or leaves `Base` and `Trial` alone; the lemmas go through what the steps can do
  to them (`Stays`, `Tries`, `Confirms`, `AcksLate`, `Reverts`).
- `NoLoopTheorem`. A rollback leaves a debt: the version it gave up on has to sit
  out one start. Until a newer release outdates it, the record or the process that
  is about to write it keeps the debt (`Kept`), a start that goes on to its check
  has met it (`Met`), and no recovery rewrites a journal with such a record
  (`Rewrites`).

### Jobs

- `JobsTheorem`. Beside the types: a title that is marked pending has a request
  for its metadata with a handler, in the queue or with a worker
  (`MarkedIsOnItsWay`), with one and the same of them only (`OnlyOnce`), and what
  was not yet reached by a merge is as it was (`Untouched`).
- `RunnerTheorem`. `HasRunner` lists the hands a row may be in: a queue, a
  worker, a handler between row and send, the scheduler's list. Each step hands the
  row over (`HandsOver`), ends it, or is one of the four that put it in `lost`.
- `LandingTheorem`. `Lands`: unless it is `stray`, a lookup has an active row of a
  title of the catalog, whose key a merge rewrites, or has yet to write the row it
  read.

### Host, events, families, portal

- `HostTheorem`. While the process is up, a closed service has no listener and
  no handler unless a drain was forced (`Emptied`), so nothing starts work under a
  closed repository; the token is that of the operation (`TokenIsHeld`); what is
  announced is what the coordinator and a check beside it hold, unless it was torn
  (`Announced`).
- `EventsTheorem`. For each client (`Connected`): the channel is ordered, there is
  no hole in what was sent (`NoHole`), and what the client has not seen and
  will still be told of is in the channel or known lost (`Held`). While a replay is
  under way the channel may repeat it, which `Follows` relates to the id
  delivered last.
- `FamiliesTheorem`. Freshness is not inductive: a flight that
  read the catalog before a change must be known not to count as current.
  `FlightIsCurrent` says it of the flight (if its generation is the cache's, what
  it read covers every announcement), `AnnouncedIsCommitted` that nothing is
  announced that the repository does not hold, and `WaitersAreBounded` that nobody
  waits with a younger announcement than the one the cache knows.
- `PortalTheorem`. The copy a cycle works on is clean at the steps where it may be
  committed (`CycleOK`, `Clean`), and a change no emitter holds was told or
  overlapped (`EmitsOK`, `Quiet`).

### Stores

- `EngineTheorem`. Until a session could not be saved or operations overlapped
  (`Mild`), no two threads are inside operations that clash (`Apart`), so the
  client, the maps and the session agree but for what a
  thread in `record` still has to write (`Agreed`), and a torrent under removal is
  blank from the step that takes it on (`Taken`). `Recorded` ties the answers of `Add`
  to the session on disk.
- `SessionTheorem`. Before the second login the session is
  logged out (`AgainIsLoggedOut`), so that a second request of undisturbed settings
  is sent with a session that admits it (`ResendIsAdmitted`).
- `InfosTheorem`. Unless a refresh was crossed, whoever may still write a row
  back, the fetch or a request that has decided to, read one that is no older than
  the refresh (`Current`).
- `StreamingTheorem`. The bytes of a file lie in an interval of pieces, and those of
  a chunk in the pieces between its first and its last (`PiecesOfBytes`), for every
  piece size and offset. An open request's chunk lies in what is left of the range
  it asked for (`Asked`); while its torrent is the one it began with, the pieces it
  has waited for are verified (`Relies`); and those it waits for are urgent unless
  the window moved (`Steered`).
- `SyncTheorem`. `SyncSafe` is inductive with three more facts:
  a run has goroutines only while it waits for them (`PartsJoin`), no context is
  from the future, so that a renewal cancels every run (`ContextsArePast`), and
  the search worker has no row among the synchronizations (`SearchesHaveNoRow`).
  Slots are counted by cardinalities; a lemma says what one goroutine that takes
  or returns a slot does to them (`ExactMove`).

- `QBittorrentTheorem`. The gate of a hash is held from the first to the last step
  of what `AcquireGate` begins, and its prepare lock likewise (`QBPlace`). While
  nothing happened that the adapter does not provide for, a removal is alone, what
  `Add` answered for stays, a torrent that a resolver brought has the
  resolver at work on it, and a selection without its first and last pieces is known
  to the preparation that still schedules them (`QBOrderly`).
- `DataDirTheorem`. While no two calls overlapped, there is one mover, whose target
  holds as much as it copied when the source goes (`DDAlone`): some location always
  holds everything. With none of the other gaps, the tree, the pointer and the
  launch entry agree on a location, but for the steps between which the mover
  changes them, and then no server runs (`DDMove`, `DDSettled`).
- `SettingsTheorem`. Saves take turns; the base of the store is what a load of the
  file would give, but for a language that was saved blank (`SettingsAgree`,
  `LoadsAs`); what a client is about to save agrees, in the
  fields that it did not change, with what it read (`PutKeeps`).
- `StagingTheorem`. Between attempts nothing is on the disk (`StagingClean`); from the
  digest on, the archive is the published one and whole (`StagingWhole`). The
  running total of what was extracted is a recursive function; that it exists and
  what a member adds to it are proved by the least counterexample (`SomeTotal`).

- `CatalogTheorem`. The inductive invariant (`CatalogInv`): a titled release is known;
  a database that was never opened has no titles, any other has each release of a
  family that lost none under the title that the whole family gives it
  (`CatalogSettled`); favourites are all titles, or none is yet. What the rows of
  a family resolve to is first put as sets, without an order (`FamilyIs`: `IdIn`,
  `FitIds`), from what the first pass has of the first `n` rows (`Anchors0`);
  this is why the order makes no difference, and why a step
  that leaves a family's evidence alone leaves its titles alone. An upsert takes
  the families one after the other, in any order (`FamilyDone`). A title is of one family
  unless it is an IMDb id (`TwoNames`), so only the favourite of one of those can leave
  a title that keeps a release.

### Viewers

- `HouseholdTheorem`. After `n` rows each list has the first titles of the rows that
  belong in it, up to its length (`ListIs`, `ListsAre`), for every order of the rows,
  ties included; that no step loses the next title is a lemma on one row
  (`RowIs`), and the least row at which it fails does not exist.
- `SubtitlesTheorem`. That the cache is bounded is not inductive: somebody is
  still going to prune, the files it listed are all there are but its own, and the
  total it goes by counts what it has yet to look at and what there is
  (`Prunes`, `SubBounded`). That nothing is read needlessly needs the lock of a track
  (`SubLocks`), and that whoever reads has no fresh asset to find (`Needed`): an asset
  that was made since the file changed can only be stale by the time of its row.
- `LibraryTheorem`. What a source, a page, a list and a pack show is put in terms of
  the rows of downloads and playback, each layer on the one below it (`SourceIs`,
  `AggregateIs`, `SourcesShow`, `PageIs`, `ListShows`). That a source has a furthest
  row needs the rows to be finite (`Greatest`); that its watch state is that of any
  row of the same file, whichever download is selected, is why a replacement does
  not make a title look new. A pack's weighed progress is its full total just when
  every file has all of its own (`TotalsAgree`). What is left to an invariant is that
  only rows of the title are ever managed or played (`LibraryInv`); steadiness is
  then a comparison of the rows before and after one step (`SteadyNow`).

### What the proofs corrected

- `UpdateSafe` (`RolledBackIsRestored`): after a restore that failed, an unproven
  version may install the next one and be what its rollback returns to. The
  property now excuses that gap, and says besides that the version which was
  rolled back is not live.
- `LandsOnLiving`: a lookup may also begin with a row that was written back before
  it, which `stray` now remembers (`TakesDead`). `Spec` of `Jobs` now ranges over the
  history too, since a step that changes only `lost` or `stray` would escape it.
- `DataDirSafe`: with three locations, two overlapping calls of `ChangeDataDir` can each
  remove the source that the other has copied to. The instance has two locations,
  where this does not happen. The property now excuses calls that overlapped.
- `SettingsKept`: a client that clears both a user name that the environment sets and
  the blank password beside it loses the stored password: `mergeSecrets` runs before
  the managed field is restored. The property now names that case.
- `Engine` and `QBittorrent` compare the gate's owner with the word for none, and
  `Subtitles` a track with the words for a search or for nothing: the assumptions
  that nobody is called so were missing, as was, in `Household` and `Catalog`, that
  the sources and the releases are finitely many, and in `Catalog` that no IMDb id
  or sort title is the word for none.
- `RetentionSteps`: a first model kept the last playback by title, whether or not its
  release had rows, and with it two passes always agreed on the victim. With the
  code's facts they do not; `shifted` is what is left to excuse.
- `NothingIsHidden`: a season's page sums up the sources on it, so a file of a pack
  that belongs to another season shows in the lists, which take the whole release,
  and not on the page. The property now asks of the page what is `OnPage`, and the
  instance has such a file. The assumption of `LibraryState` now says what it relies
  on: finitely many rows, of releases that are known, and sizes that are not
  negative.

### Only model-checked

- Everything under fairness (`RequestsReturn`, `PassesEnd`, `MarksClear`,
  `HandoffResumes`, `ChangesReachTiles`, `OperationsEnd`, `StreamsDrain`,
  `FlagEventuallyClears`, `PortalProgress`): the prover has neither fairness nor
  `ENABLED`.
- `AdmissionsFit` of torrents with several files, of which it does not hold.

The library's induction theorems take an operator as parameter, which the installed
provers cannot instantiate. An induction on one number is replaced by its least
counterexample, which works where the recursion is a recursive function: hence those
of `Household`, `Staging`, `Retention`, `Catalog` and `LibraryState` are.

## Not modelled

`components` in `PROJECT.json` gives the reason for each part.

- The portal client, the tracker and metadata providers, the platform glue and
  the front ends are I/O, or presentation, without state that outlives a call.
  The models take their outcomes as nondeterministic.
- The naming heuristics of `internal/domain` (titles, episodes, languages and
  qualities out of release names) and the conversion and anchoring of subtitles
  are judged by examples, which the tests hold. `Catalog` and `Subtitles` start
  from their results.
- Of the schema migrations of `sqlite.Open`, the columns and tables that are added:
  every statement may be run again, and `Catalog` has the two that move data.
- Of the parts that are modelled partly, left out are: statistics, rate limits and
  trackers of the native engine; `Status` of the qBittorrent adapter; the pruning
  of old jobs; what a provider's answer contains; season details; crash
  reporting and the wiring of `internal/composition`; the handlers of the HTTP
  API that decode a request and call the service.

## Plan

1. The composition of `Streaming` with `Engine` and `Leases`: a removal of the
   native torrent under an open stream, whose parts are now in three modules.
2. Season details and the grouping of a series' releases into seasons and episodes.
