--------------------------------- MODULE Jobs ----------------------------------
(***************************************************************************)
(* Persistent jobs: metadata lookups, title refreshes with the child job   *)
(* of a tracker, and tracker searches (internal/application/service.go),   *)
(* with the jobs table and the merge of titles that renames its keys       *)
(* (internal/adapters/sqlite).                                             *)
(*                                                                         *)
(* A row is stored under an id and a unique dedupe key.  Both name a title *)
(* (a query, for a search) and are the same until the title is merged into *)
(* another: the key follows the title, the id stays.  The work itself      *)
(* waits in bounded in-memory queues, and a restart loses it.              *)
(*                                                                         *)
(* Attempts, labels, progress, job logs, events and the throttles of       *)
(* repeated refreshes are left out.  There is one tracker, always eligible.*)
(***************************************************************************)
EXTENDS Naturals, Sequences, FiniteSets

CONSTANTS Titles,      \* the titles
          Queries,     \* the queries of tracker searches
          Lookups,     \* the metadata workers
          Refresher,   \* the title-refresh worker
          Searcher,    \* the tracker-search worker
          Scheduler,   \* the scheduler's goroutine
          Callers,     \* HTTP handlers
          Asked,       \* the kinds of titles' jobs that callers ask for
          Forces,      \* the force flags of the refreshes that callers ask for
          Outcomes,    \* how the calls of providers end
          QueueCap,    \* capacity of each queue
          MaxAsks,     \* bound on the requests of callers
          MaxEvents    \* bound on the merges, expiries, restarts and retry passes

Kinds == {"metadata", "refresh", "child", "search"}

Workers == Lookups \cup {Refresher, Searcher}

Askers == Callers \cup {Refresher, Scheduler}

ASSUME ActorsAssumption == /\ Titles # {} /\ Titles \cap Queries = {}
                           /\ Refresher # Searcher
                           /\ {Refresher, Searcher, Scheduler} \cap Lookups = {}
                           /\ {Refresher, Searcher, Scheduler} \cap Callers = {}
                           /\ Refresher # Scheduler
ASSUME BoundsAssumption == /\ QueueCap \in Nat \ {0}
                           /\ {MaxAsks, MaxEvents} \subseteq Nat
                           /\ Asked \subseteq {"metadata", "refresh"}
                           /\ Forces \subseteq BOOLEAN
                           /\ Outcomes \subseteq {"ok", "rate", "transient", "permanent", "timeout"}

VARIABLES rows,        \* the jobs table, by id
          alive,       \* the titles of the catalog
          metadata,    \* the catalog_metadata row of each title
          queues,      \* metaQueue, refreshQueue, searchQueue
          pending,     \* s.pendingMetadata
          work,        \* what each worker is doing
          ask,         \* the enqueueing each handler is in
          sched,       \* what the scheduler is doing
          spent,       \* how much of each bound is used up
          lost,        \* history: active rows whose work is in nobody's hands
          stray        \* history: lookups whose row has, or was given, a dead title's key

vars == <<rows, alive, metadata, queues, pending, work, ask, sched, spent>>
history == <<lost, stray>>

--------------------------------------------------------------------------------

Ids == ({"metadata", "refresh", "child"} \X Titles) \cup ({"search"} \X Queries)

Names == Titles \cup Queries

States == {"absent", "queued", "running", "retry_wait", "failed", "completed"}

Active == {"queued", "running"}

Job(key, state, retryable, next) ==
  [key |-> key, state |-> state, retryable |-> retryable, next |-> next]

Row == [key: Names, state: States, retryable: BOOLEAN, next: BOOLEAN]

Absent(id) == Job(id[2], "absent", FALSE, FALSE)

Request == [title: Names, force: BOOLEAN]

Results == Outcomes \cup {"ok", "timeout"}

Work == [at: {"idle", "start", "work", "child", "resolve", "land", "ask", "finish", "done"},
         title: Names, force: BOOLEAN, id: Ids, key: Names, result: Results]

Ask == [at: {"idle", "save", "send", "full"}, kind: Kinds, title: Names, force: BOOLEAN]

Snapshot == [id: Ids, row: Row]

Someone == CHOOSE t \in Titles : TRUE

Resting == [at |-> "idle", title |-> Someone, force |-> FALSE,
            id |-> <<"metadata", Someone>>, key |-> Someone, result |-> "ok"]

NotAsking == [at |-> "idle", kind |-> "metadata", title |-> Someone, force |-> FALSE]

KeysAreUnique ==
  \A i, j \in Ids : /\ i # j /\ i[1] = j[1]
                    /\ rows[i].state # "absent" /\ rows[j].state # "absent"
                    => rows[i].key # rows[j].key

TypeOK == /\ rows \in [Ids -> Row] /\ KeysAreUnique
          /\ alive \subseteq Titles
          /\ metadata \in [Titles -> {"none", "fresh", "expired"}]
          /\ DOMAIN queues = {"metadata", "refresh", "search"}
          /\ \A k \in DOMAIN queues : /\ queues[k] \in Seq(Request)
                                      /\ Len(queues[k]) <= QueueCap
          /\ pending \subseteq Titles
          /\ work \in [Workers -> Work]
          /\ ask \in [Askers -> Ask]
          /\ sched.at \in {"recover", "recovering", "idle", "retrying", "retry"}
          /\ sched.list \subseteq Snapshot /\ sched.id \in Ids
          /\ spent \in [asks: 0 .. MaxAsks, events: 0 .. MaxEvents]
          /\ lost \subseteq Ids /\ stray \subseteq Lookups

Empty == [k \in {"metadata", "refresh", "search"} |-> << >>]

Init == /\ rows = [id \in Ids |-> Absent(id)]
        /\ alive = Titles
        /\ metadata = [t \in Titles |-> "none"]
        /\ queues = Empty
        /\ pending = {}
        /\ work = [w \in Workers |-> Resting]
        /\ ask = [a \in Askers |-> NotAsking]
        /\ sched = [at |-> "recover", list |-> {}, id |-> <<"metadata", Someone>>]
        /\ spent = [asks |-> 0, events |-> 0]
        /\ lost = {} /\ stray = {}

KindOf(w) == IF w = Refresher THEN "refresh"
             ELSE IF w = Searcher THEN "search" ELSE "metadata"

(* Mutant: the upsert knows the conflict on the id only.                   *)
StoredById(id, key) == id

(* SaveJob inserts a row, or updates the row that has the key, or else the *)
(* one that has the id.                                                    *)
Stored(id, key) ==
  LET keyed == {j \in Ids : j[1] = id[1] /\ rows[j].state # "absent" /\ rows[j].key = key}
  IN  IF keyed = {} THEN id ELSE CHOOSE j \in keyed : TRUE

SaveJob(id, job) == rows' = [rows EXCEPT ![Stored(id, job.key)] = job]

(* GetJob finds a row by its id only.                                      *)
GetJob(id) == rows[id]

Found(id) == GetJob(id).state # "absent"

catalog == <<alive, metadata>>
memory == <<queues, pending>>

--------------------------------------------------------------------------------

(* Asking for a job.                                                       *)

Asking(a, kind, t, force) ==
  ask' = [ask EXCEPT ![a] = [at |-> "save", kind |-> kind, title |-> t,
                             force |-> force /\ kind = "refresh"]]

(* ensureMetadata, for one title: it must be in the catalog and, unless    *)
(* forced, have no fresh metadata row; pendingMetadata deduplicates.       *)
Wanted(t, force) == t \in alive /\ (force \/ metadata[t] # "fresh") /\ t \notin pending

ensureMetadata(a, t, force) ==
  IF Wanted(t, force)
  THEN pending' = pending \cup {t} /\ Asking(a, "metadata", t, force)
  ELSE UNCHANGED <<pending, ask>>

(* QueueTitleRefresh past its hourly throttle, and QueueTrackerSearch: the *)
(* state of the row deduplicates.                                          *)
Blocking(kind) == IF kind = "search" THEN Active \cup {"retry_wait"} ELSE Active

Queue(a, kind, t, force) ==
  /\ IF GetJob(<<kind, t>>).state \in Blocking(kind)
     THEN UNCHANGED ask ELSE Asking(a, kind, t, force)
  /\ UNCHANGED pending

(* RetryJob, of a row that was read.  The key of a child job holds the     *)
(* tracker, too, and is no title of the catalog.                           *)
RetryJob(a, id) ==
  LET key == GetJob(id).key
  IN  IF GetJob(id).state \in Active \cup {"retry_wait", "absent"}
      THEN UNCHANGED <<pending, ask>>
      ELSE CASE id[1] = "metadata" -> ensureMetadata(a, key, TRUE)
             [] id[1] = "search" -> Queue(a, "search", key, TRUE)
             [] id[1] = "refresh" /\ key \in alive -> Queue(a, "refresh", key, TRUE)
             [] OTHER -> UNCHANGED <<pending, ask>>

(* A handler asks: POST metadata, title refresh, search, jobs/{id}/retry.  *)
CallerAsks(c) ==
  /\ ask[c].at = "idle" /\ spent.asks < MaxAsks
  /\ spent' = [spent EXCEPT !.asks = @ + 1]
  /\ \/ \E t \in Titles : "metadata" \in Asked /\ ensureMetadata(c, t, FALSE)
     \/ \E t \in Titles, force \in Forces : "refresh" \in Asked /\ Queue(c, "refresh", t, force)
     \/ \E q \in Queries : Queue(c, "search", q, FALSE)
     \/ \E id \in Ids : RetryJob(c, id)
  /\ ask' # ask
  /\ UNCHANGED <<rows, catalog, queues, work, sched>>

(* The row is queued before the work is.                                   *)
AskSave(a) ==
  /\ ask[a].at = "save"
  /\ SaveJob(<<ask[a].kind, ask[a].title>>, Job(ask[a].title, "queued", FALSE, FALSE))
  /\ ask' = [ask EXCEPT ![a].at = "send"]
  /\ UNCHANGED <<catalog, memory, work, sched, spent>>

Forget(kind, S) == pending' = IF kind = "metadata" THEN pending \ S ELSE pending

(* The handler's context is cancelled before the row is saved.             *)
AskSaveFails(c) ==
  /\ ask[c].at = "save"
  /\ Forget(ask[c].kind, {ask[c].title})
  /\ ask' = [ask EXCEPT ![c] = NotAsking]
  /\ UNCHANGED <<rows, catalog, queues, work, sched, spent>>

(* The non-blocking send, ...                                              *)
AskSend(a) ==
  /\ ask[a].at = "send" /\ Len(queues[ask[a].kind]) < QueueCap
  /\ queues' = [queues EXCEPT ![ask[a].kind] =
                  Append(@, [title |-> ask[a].title, force |-> ask[a].force])]
  /\ ask' = [ask EXCEPT ![a] = NotAsking]
  /\ UNCHANGED <<rows, catalog, pending, work, sched, spent>>

(* Mutant: the pending mark stays when the queue is full.                  *)
AskFullKeepsMark(a) ==
  /\ ask[a].at = "send" /\ Len(queues[ask[a].kind]) = QueueCap
  /\ ask' = [ask EXCEPT ![a].at = "full"]
  /\ UNCHANGED <<rows, catalog, memory, work, sched, spent>>

(* ... and when the queue is full the mark is dropped ...                  *)
AskFull(a) ==
  /\ ask[a].at = "send" /\ Len(queues[ask[a].kind]) = QueueCap
  /\ Forget(ask[a].kind, {ask[a].title})
  /\ ask' = [ask EXCEPT ![a].at = "full"]
  /\ UNCHANGED <<rows, catalog, queues, work, sched, spent>>

(* ... and the row marked failed.  With a cancelled context that fails.    *)
AskGiveUp(a) ==
  /\ ask[a].at = "full"
  /\ \/ SaveJob(<<ask[a].kind, ask[a].title>>, Job(ask[a].title, "failed", FALSE, FALSE))
     \/ a \in Callers /\ UNCHANGED rows
  /\ ask' = [ask EXCEPT ![a] = NotAsking]
  /\ UNCHANGED <<catalog, memory, work, sched, spent>>

--------------------------------------------------------------------------------

(* Running a job.                                                          *)

(* A worker receives a request and reads the row of its title; work under  *)
(* a key whose row has another id goes on with the title's own.            *)
Take(w) ==
  LET kind == KindOf(w)
      id == <<kind, Head(queues[kind]).title>>
  IN  /\ work[w].at = "idle" /\ queues[kind] # << >>
      /\ queues' = [queues EXCEPT ![kind] = Tail(@)]
      /\ work' = [work EXCEPT ![w] =
           [Resting EXCEPT !.at = "start", !.title = id[2], !.id = id,
                           !.force = Head(queues[kind]).force,
                           !.key = IF Found(id) THEN GetJob(id).key ELSE id[2]]]
      /\ UNCHANGED <<rows, catalog, pending, ask, sched, spent>>

Start(w) ==
  /\ work[w].at = "start"
  /\ SaveJob(work[w].id, Job(work[w].key, "running", FALSE, FALSE))
  /\ work' = [work EXCEPT ![w].at = "work"]
  /\ UNCHANGED <<catalog, memory, ask, sched, spent>>

(* The row of a run that ended: failOrWait, or completed.  A cancelled run *)
(* ends like one that ran into its deadline: transient.                    *)
Ended(key, result) ==
  CASE result = "ok" -> Job(key, "completed", FALSE, FALSE)
    [] result = "rate" -> Job(key, "retry_wait", TRUE, TRUE)
    [] result = "permanent" -> Job(key, "failed", FALSE, FALSE)
    [] OTHER -> Job(key, "failed", TRUE, TRUE)

(* The child of a refresh: its row is saved with the context of the whole  *)
(* refresh, which may end while it waits for its slots, ...                *)
ChildStart(w) ==
  /\ w = Refresher /\ work[w].at = "work"
  /\ \/ /\ SaveJob(<<"child", work[w].title>>, Job(work[w].title, "running", FALSE, FALSE))
        /\ work' = [work EXCEPT ![w].at = "child"]
     \/ /\ work' = [work EXCEPT ![w].at = "resolve", ![w].result = "timeout"]
        /\ UNCHANGED rows
  /\ UNCHANGED <<catalog, memory, ask, sched, spent>>

(* ... the search failed, or was cut off and nothing more can be saved ... *)
ChildFails(w) ==
  /\ work[w].at = "child"
  /\ \E result \in Outcomes \ {"ok"} :
       /\ IF result = "timeout" THEN UNCHANGED rows
          ELSE SaveJob(<<"child", work[w].title>>, Ended(work[w].title, result))
       /\ work' = [work EXCEPT ![w].at = "resolve", ![w].result = result]
  /\ UNCHANGED <<catalog, memory, ask, sched, spent>>

(* ... or its releases are stored and its row completed, unless a merge    *)
(* has coalesced it away.                                                  *)
ChildEnds(w) ==
  LET id == <<"child", work[w].title>>
  IN  /\ work[w].at = "child"
      /\ IF Found(id) THEN SaveJob(id, Ended(GetJob(id).key, "ok")) ELSE UNCHANGED rows
      /\ work' = [work EXCEPT ![w].at = "resolve"]
      /\ UNCHANGED <<catalog, memory, ask, sched, spent>>

(* A lookup or a search ends.                                              *)
Answer(w) ==
  /\ w # Refresher /\ work[w].at = "work"
  /\ \E result \in Outcomes :
       work' = [work EXCEPT ![w].result = result,
                            ![w].at = IF w = Searcher THEN "finish" ELSE "resolve"]
  /\ UNCHANGED <<rows, catalog, memory, ask, sched, spent>>

(* The row under the run's id is read again.  Without one "that job owns   *)
(* the work" and the result is dropped.                                    *)
Drop(w) ==
  /\ work[w].at = "resolve" /\ ~Found(work[w].id)
  /\ work' = [work EXCEPT ![w].at = "done", ![w].key = work[w].title]
  /\ UNCHANGED <<rows, catalog, memory, ask, sched, spent>>

(* Mutant: the result stays with the title it was asked for.               *)
ResolveBlind(w) ==
  /\ work[w].at = "resolve"
  /\ work' = [work EXCEPT ![w].at = IF w = Refresher THEN "ask" ELSE "land"]
  /\ UNCHANGED <<rows, catalog, memory, ask, sched, spent>>

(* Otherwise the run adopts the key of the row and the title it names.     *)
Resolve(w) ==
  /\ work[w].at = "resolve" /\ Found(work[w].id)
  /\ work' = [work EXCEPT ![w].at = IF w = Refresher THEN "ask" ELSE "land",
                          ![w].key = GetJob(work[w].id).key]
  /\ UNCHANGED <<rows, catalog, memory, ask, sched, spent>>

(* SaveCatalogMetadata: a match, or the failure as a negative cache; a     *)
(* lookup that ran into its deadline has no context left to save with.     *)
Land(w) ==
  /\ work[w].at = "land"
  /\ metadata' = IF work[w].result = "timeout" THEN metadata
                 ELSE [metadata EXCEPT ![work[w].key] = "fresh"]
  /\ work' = [work EXCEPT ![w].at = "finish"]
  /\ UNCHANGED <<rows, alive, memory, ask, sched, spent>>

(* A refresh that found something asks for the title's metadata.           *)
AskMetadata(w) ==
  /\ work[w].at = "ask" /\ ask[w].at = "idle"
  /\ IF work[w].result = "ok"
     THEN ensureMetadata(w, work[w].key, work[w].force)
     ELSE UNCHANGED <<pending, ask>>
  /\ work' = [work EXCEPT ![w].at = "finish"]
  /\ UNCHANGED <<rows, catalog, queues, sched, spent>>

(* The last SaveJob.  A refresh whose trackers all failed is failed, and   *)
(* never retryable.                                                        *)
Finish(w) ==
  /\ work[w].at = "finish" /\ (w = Refresher => ask[w].at = "idle")
  /\ SaveJob(work[w].id,
             IF w = Refresher /\ work[w].result # "ok" THEN Ended(work[w].key, "permanent")
             ELSE Ended(work[w].key, work[w].result))
  /\ work' = [work EXCEPT ![w].at = "done"]
  /\ UNCHANGED <<catalog, memory, ask, sched, spent>>

(* Mutant: a dropped result keeps its mark.                                *)
DoneKeepsMark(w) ==
  /\ work[w].at = "done"
  /\ Forget(KindOf(w), IF Found(work[w].id) THEN {work[w].title, work[w].key} ELSE {})
  /\ work' = [work EXCEPT ![w] = Resting]
  /\ UNCHANGED <<rows, catalog, queues, ask, sched, spent>>

(* The pending marks of the title asked for and of the one it became.      *)
Done(w) ==
  /\ work[w].at = "done"
  /\ Forget(KindOf(w), {work[w].title, work[w].key})
  /\ work' = [work EXCEPT ![w] = Resting]
  /\ UNCHANGED <<rows, catalog, queues, ask, sched, spent>>

--------------------------------------------------------------------------------

(* The scheduler.                                                          *)

(* Mutant: only the rows that were running are recovered.                  *)
RecoverRunning ==
  /\ sched.at = "recover"
  /\ sched' = [sched EXCEPT !.at = "recovering",
       !.list = {[id |-> id, row |-> rows[id]] : id \in {j \in Ids : rows[j].state = "running"}}]
  /\ UNCHANGED <<rows, catalog, memory, work, ask, spent>>

(* recoverInterruptedJobs lists the rows; requests are served meanwhile.   *)
Recover ==
  /\ sched.at = "recover"
  /\ sched' = [sched EXCEPT !.at = "recovering",
       !.list = {[id |-> id, row |-> rows[id]] : id \in {j \in Ids : rows[j].state \in Active}}]
  /\ UNCHANGED <<rows, catalog, memory, work, ask, spent>>

(* A refresh goes back to the queue, if the queue has room; a child job's  *)
(* label is not one of a refresh; everything else fails for now.           *)
RecoverRow ==
  /\ sched.at = "recovering"
  /\ \E s \in sched.list :
       /\ sched' = [sched EXCEPT !.list = @ \ {s}]
       /\ CASE s.id[1] = "refresh" ->
                  /\ SaveJob(s.id, Job(s.row.key, "queued", FALSE, FALSE))
                  /\ queues' = IF Len(queues["refresh"]) = QueueCap THEN queues
                               ELSE [queues EXCEPT !["refresh"] =
                                       Append(@, [title |-> s.row.key, force |-> FALSE])]
            [] s.id[1] = "child" -> UNCHANGED <<rows, queues>>
            [] OTHER -> /\ SaveJob(s.id, Job(s.row.key, "failed", TRUE, TRUE))
                        /\ UNCHANGED queues
  /\ UNCHANGED <<catalog, pending, work, ask, spent>>

Recovered ==
  /\ sched.at \in {"recovering", "retrying"} /\ sched.list = {} /\ ask[Scheduler].at = "idle"
  /\ sched' = [sched EXCEPT !.at = "idle"]
  /\ UNCHANGED <<rows, catalog, memory, work, ask, spent>>

(* retryDueJobs lists the rows whose next attempt is due: the waiting ones *)
(* every minute, the retryable failures every hour.                        *)
Due(id, waitingOnly) ==
  /\ rows[id].next
  /\ IF waitingOnly THEN rows[id].state = "retry_wait"
     ELSE rows[id].state = "failed" /\ rows[id].retryable

ListDue(waitingOnly) ==
  /\ sched.at = "idle" /\ spent.events < MaxEvents
  /\ \E id \in Ids : Due(id, waitingOnly)
  /\ spent' = [spent EXCEPT !.events = @ + 1]
  /\ sched' = [sched EXCEPT !.at = "retrying",
       !.list = {[id |-> id, row |-> rows[id]] : id \in {j \in Ids : Due(j, waitingOnly)}}]
  /\ UNCHANGED <<rows, catalog, memory, work, ask>>

(* The listed row is written back as failed, no longer due, ...            *)
RetryRow ==
  /\ sched.at = "retrying" /\ ask[Scheduler].at = "idle"
  /\ \E s \in sched.list :
       /\ SaveJob(s.id, Job(s.row.key, "failed", s.row.retryable, FALSE))
       /\ sched' = [at |-> "retry", list |-> sched.list \ {s}, id |-> s.id]
  /\ UNCHANGED <<catalog, memory, work, ask, spent>>

(* ... and its id retried like any other.                                  *)
RetryDue ==
  /\ sched.at = "retry"
  /\ RetryJob(Scheduler, sched.id)
  /\ sched' = [sched EXCEPT !.at = "retrying"]
  /\ UNCHANGED <<rows, catalog, queues, work, spent>>

--------------------------------------------------------------------------------

(* What happens around the jobs.                                           *)

(* A reconciliation empties title old into title new, in one transaction:  *)
(* metadata moves unless new has some, keys of queued and running rows     *)
(* follow, and a row whose new key is taken is deleted.                    *)
Retargeted(id, old, new) ==
  IF rows[id].key # old \/ rows[id].state \notin Active THEN rows[id]
  ELSE IF \E j \in Ids : j[1] = id[1] /\ rows[j].state # "absent" /\ rows[j].key = new
       THEN Absent(id)
       ELSE [rows[id] EXCEPT !.key = new]

moveExtinctGroupDependents(old, new) ==
  /\ {old, new} \subseteq alive /\ old # new /\ spent.events < MaxEvents
  /\ spent' = [spent EXCEPT !.events = @ + 1]
  /\ alive' = alive \ {old}
  /\ metadata' = [metadata EXCEPT ![old] = "none",
                     ![new] = IF @ = "none" THEN metadata[old] ELSE @]
  /\ rows' = [id \in Ids |-> Retargeted(id, old, new)]
  /\ UNCHANGED <<memory, work, ask, sched>>

(* Time passes.                                                            *)
Expire(t) == /\ metadata[t] = "fresh" /\ spent.events < MaxEvents
             /\ metadata' = [metadata EXCEPT ![t] = "expired"]
             /\ spent' = [spent EXCEPT !.events = @ + 1]
             /\ UNCHANGED <<rows, alive, memory, work, ask, sched>>

(* The process stops and starts again.                                     *)
Restart == /\ spent.events < MaxEvents
           /\ spent' = [spent EXCEPT !.events = @ + 1]
           /\ queues' = Empty /\ pending' = {}
           /\ work' = [w \in Workers |-> Resting]
           /\ ask' = [a \in Askers |-> NotAsking]
           /\ sched' = [sched EXCEPT !.at = "recover", !.list = {}]
           /\ UNCHANGED <<rows, catalog>>

--------------------------------------------------------------------------------

(* History: where work is dropped although its row says otherwise.         *)

(* Somebody has the row's work in hand, or will look at the row.           *)
Served(id) ==
  LET names == {id[2], rows[id].key}
      held(w) == IF id[1] = "child" THEN w = Refresher /\ work[w].at = "child"
                 ELSE KindOf(w) = id[1] /\ work[w].at \notin {"idle", "done"}
  IN  \/ /\ id[1] \in DOMAIN queues
         /\ \E i \in DOMAIN queues[id[1]] : queues[id[1]][i].title \in names
      \/ \E w \in Workers : held(w) /\ {work[w].title, work[w].key} \cap names # {}
      \/ \E a \in Askers : /\ ask[a].at \in {"send", "full"}
                            /\ ask[a].kind = id[1] /\ ask[a].title \in names
      \/ sched.at = "recover"
      \/ sched.at = "recovering" /\ \E s \in sched.list : s.id = id

Stranded(id) == rows[id].state \in Active /\ ~Served(id)

(* The steps that are known to strand rows.                                *)
Strands ==
  \/ \E w \in Workers : work[w].at = "resolve" /\ work'[w].at = "done"
  \/ work[Refresher].at = "child" /\ work'[Refresher].result = "timeout"
  \/ \E a \in Callers : ask[a].at = "full" /\ UNCHANGED rows
  \/ sched.at = "recovering" /\ sched'.list # sched.list /\ UNCHANGED queues

(* A save of what was read before a merge, or of a row that the merge had  *)
(* coalesced away, brings the old key back; and a row that the scheduler   *)
(* marked failed is no longer one whose key follows a merge.               *)
Undoes(id) == /\ rows'[id] # rows[id] /\ rows'[id].state # "absent"
              /\ rows'[id].key \notin alive' \/ rows'[id].state \notin Active

(* A lookup may also begin with a row that has been brought back so.       *)
TakesDead(w) == /\ work[w].at = "idle" /\ work'[w].at = "start"
                /\ Found(work'[w].id) /\ GetJob(work'[w].id).key \notin alive

HistoryStep ==
  /\ lost' = {id \in Ids : \/ Strands /\ Stranded(id)'
                           \/ id \in lost /\ rows'[id].state = rows[id].state}
  /\ stray' = {w \in Lookups : /\ work'[w].at \in {"start", "work", "resolve"}
                               /\ w \in stray \/ Undoes(work'[w].id) \/ TakesDead(w)}

(* What handlers, workers and the scheduler do without being asked again.  *)
Enqueue(a) == AskSave(a) \/ AskSend(a) \/ AskFull(a) \/ AskGiveUp(a)

Run(w) == \/ Take(w) \/ Start(w) \/ ChildStart(w) \/ ChildFails(w) \/ ChildEnds(w)
          \/ Answer(w) \/ Drop(w) \/ Resolve(w) \/ Land(w) \/ AskMetadata(w) \/ Finish(w) \/ Done(w)

Schedule == \/ Recover \/ RecoverRow \/ Recovered
            \/ (\E waitingOnly \in BOOLEAN : ListDue(waitingOnly)) \/ RetryRow \/ RetryDue

Happens == \/ \E c \in Callers : CallerAsks(c) \/ AskSaveFails(c)
           \/ \E old, new \in Titles : moveExtinctGroupDependents(old, new)
           \/ \E t \in Titles : Expire(t)
           \/ Restart

Next == /\ \/ \E a \in Askers : Enqueue(a)
           \/ \E w \in Workers : Run(w)
           \/ Schedule
           \/ Happens
        /\ HistoryStep

Fairness == /\ \A a \in Askers : WF_vars(Enqueue(a))
            /\ \A w \in Workers : WF_vars(Run(w))
            /\ WF_vars(Schedule)

Spec == Init /\ [][Next]_<<vars, history>> /\ Fairness

--------------------------------------------------------------------------------

(* Until titles merge, a job that says it is queued or running is in       *)
(* somebody's hands or about to be recovered, whatever is full, fails or   *)
(* restarts, but for the rows the steps of Strands leave behind.           *)
ActiveHasRunner == alive = Titles => \A id \in Ids : Stranded(id) => id \in lost

(* "The row was coalesced into a surviving duplicate (or deleted); that    *)
(* job owns the work": a run that drops its result leaves no row of its    *)
(* kind that says running and is in nobody's hands.                        *)
DroppedIsOwned ==
  [][\A w \in Workers : work[w].at = "resolve" /\ work'[w].at = "done" =>
       \A id \in Ids : id[1] = KindOf(w) /\ rows[id].state = "running" => ~Stranded(id)']_vars

(* Until titles merge, a title is marked pending exactly while one request *)
(* for its metadata is on its way, so no lookup runs twice at a time and   *)
(* none is blocked by a mark that was left behind.                         *)
OnItsWay(t) ==
  {<<"ask", a>> : a \in {b \in Askers : /\ ask[b].at \in {"save", "send"}
                                       /\ ask[b].kind = "metadata" /\ ask[b].title = t}}
  \cup {<<"queue", i>> : i \in {j \in DOMAIN queues["metadata"] : queues["metadata"][j].title = t}}
  \cup {<<"work", w>> : w \in {v \in Lookups : work[v].at # "idle" /\ work[v].title = t}}

PendingIsExact ==
  alive = Titles => \A t \in Titles : Cardinality(OnItsWay(t)) = IF t \in pending THEN 1 ELSE 0

(* The rows are well-formed, under one key each, and the marks exact.      *)
JobsSafe == TypeOK /\ PendingIsExact

(* "The surviving row names the canonical title this result must land on": *)
(* a lookup that read its row again lands on a title of the catalog, or on *)
(* one merged after that; but for the lookups whose row was overwritten    *)
(* with what somebody had read before the merge.                           *)
LandsOnLiving ==
  [][\A w \in Lookups : work[w].at = "resolve" /\ work'[w].at = "land" =>
       work'[w].key \in alive \/ w \in stray]_vars

(* No title stays marked for ever, whatever becomes of its row.            *)
MarksClear == \A t \in Titles : (t \in pending) ~> (t \notin pending)
================================================================================
