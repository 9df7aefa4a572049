------------------------------- MODULE JobsProofs ------------------------------
(***************************************************************************)
(* Proofs about the jobs, for any titles, queries, workers, handlers,      *)
(* capacities and numbers of merges, restarts and retry passes: the rows   *)
(* are well-formed and the pending marks exact, an active row is in        *)
(* somebody's hands, and a lookup that has read its row again lands on a   *)
(* title of the catalog.                                                   *)
(***************************************************************************)
EXTENDS Jobs, FiniteSetTheorems, SequenceTheorems, TLAPS

QueueKinds == {"metadata", "refresh", "search"}
NamesOf(kind) == IF kind = "search" THEN Queries ELSE Titles

(* The types, with what each name names.                                   *)
RowsOK ==
  /\ rows \in [Ids -> Row] /\ KeysAreUnique
  /\ \A id \in Ids : rows[id].key \in NamesOf(id[1])
CatalogOK ==
  alive \subseteq Titles /\ metadata \in [Titles -> {"none", "fresh", "expired"}]
QueuesOK ==
  /\ queues \in [QueueKinds -> Seq(Request)] /\ pending \subseteq Titles
  /\ \A k \in QueueKinds : /\ Len(queues[k]) <= QueueCap
                           /\ \A i \in 1 .. Len(queues[k]) : queues[k][i].title \in NamesOf(k)
WorkOK ==
  /\ work \in [Workers -> Work]
  /\ \A w \in Workers : work[w].at # "idle" =>
       /\ work[w].id = <<KindOf(w), work[w].title>>
       /\ work[w].title \in NamesOf(KindOf(w)) /\ work[w].key \in NamesOf(KindOf(w))
       /\ work[w].at \in {"child", "ask"} => w = Refresher
       /\ work[w].at = "resolve" => w # Searcher
       /\ work[w].at = "land" => w \in Lookups
AskOK ==
  /\ ask \in [Askers -> Ask]
  /\ \A a \in Askers : ask[a].at # "idle" =>
       ask[a].kind \in QueueKinds /\ ask[a].title \in NamesOf(ask[a].kind)
SchedOK ==
  /\ sched \in [at : {"recover", "recovering", "idle", "retrying", "retry"},
                list : SUBSET Snapshot, id : Ids]
  /\ \A s \in sched.list : s.row.key \in NamesOf(s.id[1])
  /\ sched.at = "retry" => ask[Scheduler].at = "idle"
RestOK ==
  /\ spent \in [asks : 0 .. MaxAsks, events : 0 .. MaxEvents]
  /\ lost \subseteq Ids /\ stray \subseteq Lookups

Types == RowsOK /\ CatalogOK /\ QueuesOK /\ WorkOK /\ AskOK /\ SchedOK

(* Until titles merge, a key is the name in the id.                        *)
Untouched ==
  /\ \A id \in Ids : rows[id].key = id[2]
  /\ \A s \in sched.list : s.row.key = s.id[2]
  /\ \A w \in Workers : work[w].at # "idle" => work[w].key = work[w].title

(* A request for the metadata of t on its way: at a handler, in the queue, *)
(* with a worker.                                                          *)
AskHas(a, t) == ask[a].at \in {"save", "send"} /\ ask[a].kind = "metadata" /\ ask[a].title = t
QueueHas(i, t) == queues["metadata"][i].title = t
WorkHas(w, t) == work[w].at # "idle" /\ work[w].title = t
Places == 1 .. Len(queues["metadata"])

MarkedIsOnItsWay(t) ==
  t \in pending <=> \/ \E a \in Askers : AskHas(a, t)
                    \/ \E i \in Places : QueueHas(i, t)
                    \/ \E w \in Lookups : WorkHas(w, t)
OnlyOnce(t) ==
  /\ \A a, b \in Askers : AskHas(a, t) /\ AskHas(b, t) => a = b
  /\ \A i, j \in Places : QueueHas(i, t) /\ QueueHas(j, t) => i = j
  /\ \A v, w \in Lookups : WorkHas(v, t) /\ WorkHas(w, t) => v = w
  /\ \A a \in Askers, i \in Places : ~(AskHas(a, t) /\ QueueHas(i, t))
  /\ \A a \in Askers, w \in Lookups : ~(AskHas(a, t) /\ WorkHas(w, t))
  /\ \A i \in Places, w \in Lookups : ~(QueueHas(i, t) /\ WorkHas(w, t))

(* The inductive invariant of JobsSafe.                                    *)
JobsInv ==
  /\ Types
  /\ alive = Titles => Untouched /\ \A t \in Titles : MarkedIsOnItsWay(t) /\ OnlyOnce(t)

--------------------------------------------------------------------------------

(* Names, ids and actors.                                                  *)

LEMMA IdsAre ==
  /\ \A kind \in Kinds : \A n \in NamesOf(kind) :
       <<kind, n>> \in Ids /\ <<kind, n>>[1] = kind /\ <<kind, n>>[2] = n
  /\ \A id \in Ids : id[1] \in Kinds /\ id[2] \in NamesOf(id[1]) /\ id = <<id[1], id[2]>>
  /\ \A kind : NamesOf(kind) \subseteq Names
  /\ QueueKinds \subseteq Kinds
BY DEF Ids, NamesOf, Kinds, Names, QueueKinds

LEMMA SomeoneIsThere ==
  /\ Someone \in Titles /\ Resting \in Work /\ NotAsking \in Ask
  /\ Resting.at = "idle" /\ NotAsking.at = "idle"
<1>1. Someone \in Titles
  BY ActorsAssumption DEF Someone
<1>2. <<"metadata", Someone>> \in Ids
  BY <1>1 DEF Ids
<1> QED BY <1>1, <1>2 DEF Resting, NotAsking, Work, Ask, Names, Results, Kinds

LEMMA ActorsAre ==
  /\ Workers = Lookups \cup {Refresher, Searcher} /\ Askers = Callers \cup {Refresher, Scheduler}
  /\ \A w \in Workers : KindOf(w) \in QueueKinds
  /\ \A w \in Workers : KindOf(w) = "metadata" <=> w \in Lookups
  /\ KindOf(Refresher) = "refresh" /\ KindOf(Searcher) = "search"
  /\ Refresher \notin Callers \cup {Scheduler} /\ Scheduler \notin Callers
BY ActorsAssumption DEF Workers, Askers, KindOf, QueueKinds

(* What a save does: one row of the kind gets the job, the one that has    *)
(* the key or else the one that has the id.                                *)
Saves(id, key, state) ==
  \E j \in Ids : /\ j[1] = id[1] /\ rows'[j].key = key /\ rows'[j].state = state
                 /\ \A i \in Ids \ {j} : rows'[i] = rows[i]
                 /\ j = id \/ (rows[j].state # "absent" /\ rows[j].key = key)
                 /\ rows[id].state # "absent" /\ rows[id].key = key => j = id

LEMMA SaveDoes ==
  ASSUME RowsOK, NEW id \in Ids, NEW job \in Row, job.state # "absent",
         job.key \in NamesOf(id[1]), SaveJob(id, job)
  PROVE  Saves(id, job.key, job.state) /\ RowsOK'
<1> DEFINE keyed == {j \in Ids : j[1] = id[1] /\ rows[j].state # "absent" /\ rows[j].key = job.key}
           it == Stored(id, job.key)
<1>1. it = IF keyed = {} THEN id ELSE CHOOSE j \in keyed : TRUE
  BY DEF Stored
<1>2. it \in Ids /\ it[1] = id[1] /\ ((it = id /\ keyed = {}) \/ it \in keyed)
  BY <1>1
<1> HIDE DEF it
<1>3. \A i, j \in keyed : i = j
  BY DEF RowsOK, KeysAreUnique
<1>4. rows' = [rows EXCEPT ![it] = job]
  BY DEF SaveJob, it
<1>5. rows'[it] = job /\ \A i \in Ids \ {it} : rows'[i] = rows[i]
  BY <1>2, <1>4 DEF RowsOK
<1>6. rows[id].state # "absent" /\ rows[id].key = job.key => it = id
  BY <1>2, <1>3
<1>7. Saves(id, job.key, job.state)
  <2>1. it \in keyed => rows[it].state # "absent" /\ rows[it].key = job.key
    OBVIOUS
  <2> HIDE DEF keyed
  <2>2. it = id \/ (rows[it].state # "absent" /\ rows[it].key = job.key)
    BY <1>2, <2>1
  <2>3. rows'[it].key = job.key /\ rows'[it].state = job.state
    BY <1>5
  <2> QED BY <1>2, <1>5, <1>6, <2>2, <2>3 DEF Saves
<1>8. rows' \in [Ids -> Row]
  BY <1>4 DEF RowsOK
<1>9. \A i \in Ids : rows'[i].key \in NamesOf(i[1])
  BY <1>2, <1>5 DEF RowsOK
<1>10. KeysAreUnique'
  <2> SUFFICES ASSUME NEW i \in Ids, NEW j \in Ids, i # j, i[1] = j[1],
                      rows'[i].state # "absent", rows'[j].state # "absent",
                      rows'[i].key = rows'[j].key
               PROVE  FALSE
    BY DEF KeysAreUnique
  <2>1. CASE i # it /\ j # it
    BY <1>5, <2>1 DEF RowsOK, KeysAreUnique
  <2>2. CASE i = it
    <3>1. j \in keyed
      BY <1>2, <1>5, <2>2
    <3> QED BY <1>2, <1>3, <2>2, <3>1
  <2>3. CASE j = it
    <3>1. i \in keyed
      BY <1>2, <1>5, <2>3
    <3> QED BY <1>2, <1>3, <2>3, <3>1
  <2> QED BY <2>1, <2>2, <2>3
<1> QED BY <1>7, <1>8, <1>9, <1>10 DEF RowsOK

(* Until titles merge it is the row that has the id.                       *)
LEMMA SavesItsOwn ==
  ASSUME RowsOK, NEW id \in Ids, NEW state, \A i \in Ids : rows[i].key = i[2],
         Saves(id, id[2], state)
  PROVE  /\ rows'[id].key = id[2] /\ rows'[id].state = state
         /\ \A i \in Ids \ {id} : rows'[i] = rows[i]
<1>1. PICK j \in Ids : /\ j[1] = id[1] /\ rows'[j].key = id[2] /\ rows'[j].state = state
                       /\ \A i \in Ids \ {j} : rows'[i] = rows[i]
                       /\ j = id \/ rows[j].key = id[2]
  BY DEF Saves
<1>2. j = id
  BY <1>1, IdsAre
<1> QED BY <1>1, <1>2

LEMMA SavesKeepKeys ==
  ASSUME RowsOK, NEW id \in Ids, NEW state, \A i \in Ids : rows[i].key = i[2],
         Saves(id, id[2], state)
  PROVE  \A i \in Ids : rows'[i].key = i[2]
<1>1. rows'[id].key = id[2] /\ \A i \in Ids \ {id} : rows'[i] = rows[i]
  BY SavesItsOwn
<1> QED BY <1>1

(* What the steps do, one variable at a time.                              *)
AskMoves(a, at) ==
  /\ ask'[a].at = at /\ ask'[a].kind = ask[a].kind /\ ask'[a].title = ask[a].title
  /\ ask'[a] \in Ask /\ \A b \in Askers \ {a} : ask'[b] = ask[b]
  /\ ask' \in [Askers -> Ask]
AskEnds(a) ==
  ask'[a].at = "idle" /\ ask' \in [Askers -> Ask] /\ \A b \in Askers \ {a} : ask'[b] = ask[b]
AskBegins(a, kind, n) ==
  /\ ask'[a].at = "save" /\ ask'[a].kind = kind /\ ask'[a].title = n
  /\ kind \in QueueKinds /\ n \in NamesOf(kind)
  /\ ask' \in [Askers -> Ask] /\ \A b \in Askers \ {a} : ask'[b] = ask[b]
  /\ IF kind = "metadata" THEN n \notin pending /\ pending' = pending \cup {n}
     ELSE pending' = pending
MayAsk(a) == UNCHANGED <<ask, pending>> \/ \E kind, n : AskBegins(a, kind, n)

(* A queue gets a request, or loses its first.                             *)
Receives(kind, n) ==
  /\ queues' \in [QueueKinds -> Seq(Request)]
  /\ \A k \in QueueKinds \ {kind} : queues'[k] = queues[k]
  /\ Len(queues[kind]) < QueueCap /\ Len(queues'[kind]) = Len(queues[kind]) + 1
  /\ \A i \in 1 .. Len(queues[kind]) : queues'[kind][i] = queues[kind][i]
  /\ queues'[kind][Len(queues[kind]) + 1].title = n
Passes(kind) ==
  /\ queues' \in [QueueKinds -> Seq(Request)]
  /\ \A k \in QueueKinds \ {kind} : queues'[k] = queues[k]
  /\ Len(queues[kind]) > 0 /\ Len(queues'[kind]) = Len(queues[kind]) - 1
  /\ \A i \in 1 .. Len(queues'[kind]) : queues'[kind][i] = queues[kind][i + 1]

WorkTakes(w, n) ==
  /\ work'[w] \in Work /\ work'[w].at = "start" /\ work'[w].title = n
  /\ work'[w].id = <<KindOf(w), n>> /\ work'[w].key \in NamesOf(KindOf(w))
  /\ n \in NamesOf(KindOf(w))
  /\ Found(<<KindOf(w), n>>) => work'[w].key = rows[<<KindOf(w), n>>].key
  /\ ~Found(<<KindOf(w), n>>) => work'[w].key = n
  /\ \A v \in Workers \ {w} : work'[v] = work[v]
  /\ work' \in [Workers -> Work]
WorkMoves(w, at) ==
  /\ work'[w].at = at /\ work'[w].title = work[w].title /\ work'[w].id = work[w].id
  /\ work'[w].key = work[w].key /\ work' \in [Workers -> Work]
  /\ \A v \in Workers \ {w} : work'[v] = work[v]
WorkRenamed(w, at, key) ==
  /\ work'[w].at = at /\ work'[w].title = work[w].title /\ work'[w].id = work[w].id
  /\ work'[w].key = key /\ work' \in [Workers -> Work]
  /\ \A v \in Workers \ {w} : work'[v] = work[v]
WorkEnds(w) ==
  work'[w].at = "idle" /\ work' \in [Workers -> Work] /\ \A v \in Workers \ {w} : work'[v] = work[v]

LEMMA SendDoes ==
  ASSUME QueuesOK, NEW kind \in QueueKinds, NEW r \in Request, Len(queues[kind]) < QueueCap,
         queues' = [queues EXCEPT ![kind] = Append(@, r)]
  PROVE  Receives(kind, r.title)
<1>1. queues[kind] \in Seq(Request) /\ queues'[kind] = Append(queues[kind], r)
  BY DEF QueuesOK
<1>2. queues'[kind] \in Seq(Request) /\ \A k \in QueueKinds \ {kind} : queues'[k] = queues[k]
  BY <1>1 DEF QueuesOK
<1>3. queues' \in [QueueKinds -> Seq(Request)]
  BY <1>2 DEF QueuesOK
<1>4. /\ Len(queues'[kind]) = Len(queues[kind]) + 1
      /\ \A i \in 1 .. Len(queues[kind]) : queues'[kind][i] = queues[kind][i]
      /\ queues'[kind][Len(queues[kind]) + 1] = r
  BY <1>1
<1> QED BY <1>2, <1>3, <1>4 DEF Receives

LEMMA AskingBegins ==
  ASSUME AskOK, NEW a \in Askers, NEW kind \in QueueKinds, NEW n \in NamesOf(kind),
         NEW force \in BOOLEAN, Asking(a, kind, n, force),
         IF kind = "metadata" THEN n \notin pending /\ pending' = pending \cup {n}
         ELSE pending' = pending
  PROVE  MayAsk(a)
<1>1. n \in Names /\ kind \in Kinds
  BY IdsAre
<1>2. AskBegins(a, kind, n)
  BY <1>1 DEF AskOK, Asking, Ask, AskBegins
<1> QED BY <1>2 DEF MayAsk

LEMMA EnsureAsks ==
  ASSUME Types, NEW a \in Askers, NEW t \in Titles, NEW force \in BOOLEAN,
         ensureMetadata(a, t, force)
  PROVE  MayAsk(a)
<1>1. CASE Wanted(t, force)
  <2>1. pending' = pending \cup {t} /\ Asking(a, "metadata", t, force) /\ t \notin pending
    BY <1>1 DEF ensureMetadata, Wanted
  <2>2. t \in NamesOf("metadata") /\ "metadata" \in QueueKinds
    BY DEF NamesOf, QueueKinds
  <2> QED BY <2>1, <2>2, AskingBegins DEF Types
<1>2. CASE ~Wanted(t, force)
  BY <1>2 DEF ensureMetadata, MayAsk
<1> QED BY <1>1, <1>2

LEMMA QueueAsks ==
  ASSUME Types, NEW a \in Askers, NEW kind \in {"refresh", "search"}, NEW n \in NamesOf(kind),
         NEW force \in BOOLEAN, Queue(a, kind, n, force)
  PROVE  MayAsk(a)
<1>1. kind \in QueueKinds /\ kind # "metadata"
  BY DEF QueueKinds
<1>2. CASE Asking(a, kind, n, force) /\ pending' = pending
  BY <1>1, <1>2, AskingBegins DEF Types
<1>3. CASE UNCHANGED ask /\ pending' = pending
  BY <1>3 DEF MayAsk
<1> QED BY <1>2, <1>3 DEF Queue

LEMMA RetryAsks ==
  ASSUME Types, NEW a \in Askers, NEW id \in Ids, RetryJob(a, id)
  PROVE  MayAsk(a)
<1> DEFINE key == GetJob(id).key
<1>1. key \in NamesOf(id[1])
  BY DEF Types, RowsOK, GetJob
<1> HIDE DEF key
<1>2. CASE UNCHANGED <<pending, ask>>
  BY <1>2 DEF MayAsk
<1>3. CASE id[1] = "metadata" /\ ensureMetadata(a, key, TRUE)
  <2>1. key \in Titles
    BY <1>1, <1>3 DEF NamesOf
  <2> QED BY <1>3, <2>1, EnsureAsks
<1>4. CASE id[1] = "search" /\ Queue(a, "search", key, TRUE)
  BY <1>1, <1>4, QueueAsks
<1>5. CASE id[1] = "refresh" /\ Queue(a, "refresh", key, TRUE)
  BY <1>1, <1>5, QueueAsks
<1> QED BY <1>2, <1>3, <1>4, <1>5 DEF RetryJob, key

SavesDone(id, key) ==
  RowsOK' /\ \E state \in {"completed", "retry_wait", "failed"} : Saves(id, key, state)
SchedTo(at, list) ==
  /\ sched'.at = at /\ sched'.list = list
  /\ sched' \in [at : {"recover", "recovering", "idle", "retrying", "retry"},
                 list : SUBSET Snapshot, id : Ids]

LEMMA EndedSaves ==
  ASSUME RowsOK, NEW id \in Ids, NEW key \in NamesOf(id[1]), NEW result,
         SaveJob(id, Ended(key, result))
  PROVE  SavesDone(id, key)
<1>1. Ended(key, result) \in Row /\ Ended(key, result).key = key
      /\ Ended(key, result).state \in {"completed", "retry_wait", "failed"}
  <2>1. key \in Names
    BY IdsAre
  <2> QED BY <2>1 DEF Ended, Job, Row, States
<1> DEFINE job == Ended(key, result)
<1>2. SaveJob(id, job) /\ job.state # "absent" /\ job \in Row /\ job.key = key
      /\ job.state \in {"completed", "retry_wait", "failed"}
  BY <1>1
<1> HIDE DEF job
<1> QED BY <1>2, SaveDoes DEF SavesDone

(* What a worker has in hand.                                              *)
LEMMA InHand ==
  ASSUME Types, NEW w \in Workers, work[w].at # "idle"
  PROVE  /\ work[w].id \in Ids /\ work[w].id[1] = KindOf(w) /\ work[w].id[2] = work[w].title
         /\ work[w].key \in NamesOf(work[w].id[1]) /\ work[w] \in Work
         /\ work[w].title \in NamesOf(KindOf(w)) /\ work[w].key \in Names
         /\ work[w].title \in Names
         /\ w = Refresher => <<"child", work[w].title>> \in Ids /\ work[w].title \in NamesOf("child")
<1>1. KindOf(w) \in QueueKinds
  BY ActorsAre
<1>2. /\ work[w].id = <<KindOf(w), work[w].title>> /\ work[w] \in Work
      /\ work[w].title \in NamesOf(KindOf(w)) /\ work[w].key \in NamesOf(KindOf(w))
  BY DEF Types, WorkOK
<1>3. work[w].id \in Ids /\ work[w].id[1] = KindOf(w) /\ work[w].id[2] = work[w].title
  BY <1>1, <1>2, IdsAre
<1>4. w = Refresher => work[w].title \in NamesOf("child")
  BY <1>2, ActorsAre DEF NamesOf
<1>5. "child" \in Kinds
  BY DEF Kinds
<1> QED BY <1>2, <1>3, <1>4, <1>5, IdsAre
LEMMA AskSaveDoes ==
  ASSUME Types, NEW a \in Askers, AskSave(a)
  PROVE  /\ ask[a].at = "save"
         /\ Saves(<<ask[a].kind, ask[a].title>>, ask[a].title, "queued") /\ RowsOK'
         /\ AskMoves(a, "send")
         /\ UNCHANGED <<alive, metadata, queues, pending, work, sched, spent>>
<1>1. ask[a].at = "save" /\ ask[a].kind \in QueueKinds /\ ask[a].title \in NamesOf(ask[a].kind)
  BY DEF Types, AskOK, AskSave
<1>2. <<ask[a].kind, ask[a].title>> \in Ids /\ ask[a].title \in Names
  BY <1>1, IdsAre
<1>3. Job(ask[a].title, "queued", FALSE, FALSE) \in Row
  BY <1>2 DEF Job, Row, States
<1>4. Saves(<<ask[a].kind, ask[a].title>>, ask[a].title, "queued") /\ RowsOK'
  BY <1>1, <1>2, <1>3, SaveDoes DEF Types, AskSave, Job
<1>5. AskMoves(a, "send")
  BY DEF Types, AskOK, AskSave, Ask, AskMoves
<1> QED BY <1>1, <1>4, <1>5 DEF AskSave, catalog, memory

LEMMA AskSendDoes ==
  ASSUME Types, NEW a \in Askers, AskSend(a)
  PROVE  /\ ask[a].at = "send"
         /\ Receives(ask[a].kind, ask[a].title)
         /\ AskEnds(a)
         /\ UNCHANGED <<rows, alive, metadata, pending, work, sched, spent>>
<1>1. ask[a].kind \in QueueKinds /\ ask[a] \in Ask
  BY DEF Types, AskOK, AskSend
<1> DEFINE r == [title |-> ask[a].title, force |-> ask[a].force]
<1>4. r \in Request /\ r.title = ask[a].title
  BY <1>1 DEF Ask, Request
<1>5. /\ queues' = [queues EXCEPT ![ask[a].kind] = Append(@, r)]
      /\ Len(queues[ask[a].kind]) < QueueCap
  BY DEF AskSend
<1> HIDE DEF r
<1>2. Receives(ask[a].kind, ask[a].title)
  BY <1>1, <1>4, <1>5, SendDoes DEF Types
<1>3. AskEnds(a)
  BY SomeoneIsThere DEF Types, AskOK, AskSend, AskEnds
<1> QED BY <1>2, <1>3 DEF AskSend, catalog

LEMMA AskFullDoes ==
  ASSUME Types, NEW a \in Askers, AskFull(a)
  PROVE  /\ ask[a].at = "send"
         /\ Forget(ask[a].kind, {ask[a].title})
         /\ AskMoves(a, "full")
         /\ UNCHANGED <<rows, alive, metadata, queues, work, sched, spent>>
BY DEF Types, AskOK, AskFull, AskMoves, Ask, catalog

LEMMA AskGiveUpDoes ==
  ASSUME Types, NEW a \in Askers, AskGiveUp(a)
  PROVE  /\ ask[a].at = "full"
         /\ \/ Saves(<<ask[a].kind, ask[a].title>>, ask[a].title, "failed") /\ RowsOK'
            \/ a \in Callers /\ UNCHANGED rows
         /\ AskEnds(a)
         /\ UNCHANGED <<alive, metadata, queues, pending, work, sched, spent>>
<1>1. ask[a].at = "full" /\ ask[a].kind \in QueueKinds /\ ask[a].title \in NamesOf(ask[a].kind)
  BY DEF Types, AskOK, AskGiveUp
<1>2. <<ask[a].kind, ask[a].title>> \in Ids /\ ask[a].title \in Names
  BY <1>1, IdsAre
<1>3. Job(ask[a].title, "failed", FALSE, FALSE) \in Row
  BY <1>2 DEF Job, Row, States
<1>4. SaveJob(<<ask[a].kind, ask[a].title>>, Job(ask[a].title, "failed", FALSE, FALSE)) =>
        Saves(<<ask[a].kind, ask[a].title>>, ask[a].title, "failed") /\ RowsOK'
  BY <1>1, <1>2, <1>3, SaveDoes DEF Types, Job
<1>5. AskEnds(a)
  BY SomeoneIsThere DEF Types, AskOK, AskGiveUp, AskEnds
<1> QED BY <1>1, <1>4, <1>5 DEF AskGiveUp, catalog, memory

LEMMA AskSaveFailsDoes ==
  ASSUME Types, NEW c \in Callers, AskSaveFails(c)
  PROVE  /\ ask[c].at = "save"
         /\ Forget(ask[c].kind, {ask[c].title})
         /\ AskEnds(c)
         /\ UNCHANGED <<rows, alive, metadata, queues, work, sched, spent>>
<1>1. c \in Askers
  BY ActorsAre
<1> QED BY <1>1, SomeoneIsThere DEF Types, AskOK, AskSaveFails, AskEnds, catalog

LEMMA CallerAsksDoes ==
  ASSUME Types, NEW c \in Callers, CallerAsks(c)
  PROVE  /\ ask[c].at = "idle" /\ MayAsk(c)
         /\ spent.asks < MaxAsks /\ spent' = [spent EXCEPT !.asks = @ + 1]
         /\ UNCHANGED <<rows, alive, metadata, queues, work, sched>>
<1>1. c \in Askers
  BY ActorsAre
<1>0. FALSE \in BOOLEAN
  OBVIOUS
<1>2. ASSUME NEW t \in Titles, ensureMetadata(c, t, FALSE)
      PROVE  MayAsk(c)
  BY <1>0, <1>1, <1>2, EnsureAsks, Zenon
<1>3. ASSUME NEW t \in Titles, NEW force \in Forces, Queue(c, "refresh", t, force)
      PROVE  MayAsk(c)
  <2>1. t \in NamesOf("refresh") /\ force \in BOOLEAN
    BY BoundsAssumption DEF NamesOf
  <2> QED BY <1>1, <1>3, <2>1, QueueAsks
<1>4. ASSUME NEW q \in Queries, Queue(c, "search", q, FALSE)
      PROVE  MayAsk(c)
  <2>1. q \in NamesOf("search") /\ "search" \in {"refresh", "search"}
    BY DEF NamesOf
  <2> QED BY <1>0, <1>1, <1>4, <2>1, QueueAsks, Zenon
<1>5. ASSUME NEW id \in Ids, RetryJob(c, id)
      PROVE  MayAsk(c)
  BY <1>1, <1>5, RetryAsks
<1>6. MayAsk(c)
  BY <1>2, <1>3, <1>4, <1>5 DEF CallerAsks
<1> QED BY <1>6 DEF CallerAsks, catalog

LEMMA TakeDoes ==
  ASSUME Types, NEW w \in Workers, Take(w)
  PROVE  /\ work[w].at = "idle" /\ Passes(KindOf(w))
         /\ WorkTakes(w, queues[KindOf(w)][1].title)
         /\ UNCHANGED <<rows, alive, metadata, pending, ask, sched, spent>>
<1> DEFINE kind == KindOf(w)
           n == Head(queues[kind]).title
           id == <<kind, n>>
<1>1. kind \in QueueKinds
  BY ActorsAre
<1> HIDE DEF kind
<1>2. queues[kind] \in Seq(Request) /\ queues[kind] # << >>
  BY <1>1 DEF Types, QueuesOK, Take, kind
<1>3. Head(queues[kind]) = queues[kind][1] /\ 1 \in 1 .. Len(queues[kind])
      /\ Head(queues[kind]) \in Request
  BY <1>2
<1>4. n \in NamesOf(kind) /\ n \in Names /\ id \in Ids /\ id[1] = kind /\ id[2] = n
  BY <1>1, <1>3, IdsAre DEF Types, QueuesOK
<1>5. Passes(kind)
  BY <1>1, <1>2 DEF Types, QueuesOK, Take, Passes, kind
<1> DEFINE key == IF Found(id) THEN GetJob(id).key ELSE id[2]
<1>6. key \in NamesOf(kind) /\ key \in Names
  BY <1>4, IdsAre DEF Types, RowsOK, GetJob, Found
<1> DEFINE f == Head(queues[kind]).force
<1>7. work' = [work EXCEPT ![w] = [Resting EXCEPT !.at = "start", !.title = id[2], !.id = id,
                                                 !.force = f, !.key = key]]
  BY DEF Take, kind
<1>8. f \in BOOLEAN
  BY <1>3 DEF Request
<1> HIDE DEF key, id, f
<1>9. /\ work'[w] \in Work /\ work'[w].at = "start" /\ work'[w].title = id[2]
      /\ work'[w].id = id /\ work'[w].key = key /\ \A v \in Workers \ {w} : work'[v] = work[v]
  BY <1>4, <1>6, <1>7, <1>8, SomeoneIsThere DEF Types, WorkOK, Work
<1>11. Found(id) => key = rows[id].key
  BY DEF key, GetJob
<1>13. work' \in [Workers -> Work]
  BY <1>7, <1>9 DEF Types, WorkOK
<1>14. ~Found(id) => key = n
  BY <1>4 DEF key
<1>12. WorkTakes(w, queues[KindOf(w)][1].title)
  BY <1>3, <1>4, <1>6, <1>9, <1>11, <1>13, <1>14 DEF WorkTakes, id, kind
<1> QED BY <1>5, <1>12 DEF Take, catalog, kind

LEMMA StartDoes ==
  ASSUME Types, NEW w \in Workers, Start(w)
  PROVE  /\ work[w].at = "start" /\ RowsOK'
         /\ Saves(work[w].id, work[w].key, "running")
         /\ WorkMoves(w, "work")
         /\ UNCHANGED <<alive, metadata, queues, pending, ask, sched, spent>>
<1>1. work[w].at # "idle"
  BY DEF Start
<1>2. work[w] \in Work /\ work[w].id \in Ids /\ work[w].key \in NamesOf(work[w].id[1])
      /\ work[w].key \in Names
  BY <1>1, InHand
<1>3. WorkMoves(w, "work")
  BY <1>2 DEF Types, WorkOK, Work, Start, WorkMoves
<1> DEFINE job == Job(work[w].key, "running", FALSE, FALSE)
<1>4. job \in Row /\ job.state = "running" /\ job.key = work[w].key
  BY <1>2 DEF Job, Row, States
<1>5. SaveJob(work[w].id, job)
  BY DEF Start
<1> HIDE DEF job
<1>6. Saves(work[w].id, work[w].key, "running") /\ RowsOK'
  BY <1>2, <1>4, <1>5, SaveDoes DEF Types
<1> QED BY <1>3, <1>6 DEF Start, catalog, memory

LEMMA ChildStartDoes ==
  ASSUME Types, NEW w \in Workers, ChildStart(w)
  PROVE  /\ w = Refresher /\ work[w].at = "work"
         /\ \/ /\ Saves(<<"child", work[w].title>>, work[w].title, "running") /\ RowsOK'
               /\ WorkMoves(w, "child")
            \/ WorkMoves(w, "resolve") /\ UNCHANGED rows
         /\ UNCHANGED <<alive, metadata, queues, pending, ask, sched, spent>>
<1>1. w = Refresher /\ work[w].at = "work"
  BY DEF ChildStart
<1> DEFINE t == work[w].title
           id == <<"child", t>>
           job == Job(t, "running", FALSE, FALSE)
<1>2. work[w] \in Work /\ id \in Ids /\ t \in NamesOf("child") /\ t \in Names /\ id[1] = "child"
  BY <1>1, InHand
<1>3. job \in Row /\ job.state = "running" /\ job.key = t
  BY <1>2 DEF Job, Row, States
<1>4. ASSUME SaveJob(id, job), work' = [work EXCEPT ![w].at = "child"]
      PROVE  Saves(id, t, "running") /\ RowsOK' /\ WorkMoves(w, "child")
  <2>1. WorkMoves(w, "child")
    BY <1>2, <1>4 DEF Types, WorkOK, Work, WorkMoves
  <2> HIDE DEF id, t, job
  <2> QED BY <1>2, <1>3, <1>4, <2>1, SaveDoes DEF Types
<1>5. ASSUME work' = [work EXCEPT ![w].at = "resolve", ![w].result = "timeout"]
      PROVE  WorkMoves(w, "resolve")
  BY <1>2, <1>5 DEF Types, WorkOK, Work, WorkMoves, Results
<1> QED BY <1>1, <1>4, <1>5 DEF ChildStart, catalog, memory

LEMMA ChildFailsDoes ==
  ASSUME Types, NEW w \in Workers, ChildFails(w)
  PROVE  /\ w = Refresher /\ work[w].at = "child"
         /\ WorkMoves(w, "resolve")
         /\ \/ UNCHANGED rows /\ work'[w].result = "timeout"
            \/ SavesDone(<<"child", work[w].title>>, work[w].title)
         /\ UNCHANGED <<alive, metadata, queues, pending, ask, sched, spent>>
<1>1. w = Refresher /\ work[w].at = "child"
  BY DEF ChildFails, Types, WorkOK
<1> DEFINE t == work[w].title
           id == <<"child", t>>
<1>2. work[w] \in Work /\ id \in Ids /\ t \in NamesOf("child") /\ id[1] = "child"
  BY <1>1, InHand
<1>3. PICK result \in Outcomes :
        /\ IF result = "timeout" THEN UNCHANGED rows ELSE SaveJob(id, Ended(t, result))
        /\ work' = [work EXCEPT ![w].at = "resolve", ![w].result = result]
  BY DEF ChildFails
<1>4. WorkMoves(w, "resolve") /\ work'[w].result = result
  BY <1>2, <1>3 DEF Types, WorkOK, Work, WorkMoves, Results
<1>5. SaveJob(id, Ended(t, result)) => SavesDone(id, t)
  <2> HIDE DEF id, t
  <2> QED BY <1>2, EndedSaves DEF Types
<1> QED BY <1>1, <1>3, <1>4, <1>5 DEF ChildFails, catalog, memory

LEMMA ChildEndsDoes ==
  ASSUME Types, NEW w \in Workers, ChildEnds(w)
  PROVE  /\ w = Refresher /\ work[w].at = "child"
         /\ WorkMoves(w, "resolve")
         /\ \/ UNCHANGED rows /\ ~Found(<<"child", work[w].title>>)
            \/ SavesDone(<<"child", work[w].title>>, rows[<<"child", work[w].title>>].key)
         /\ UNCHANGED <<alive, metadata, queues, pending, ask, sched, spent>>
<1>1. w = Refresher /\ work[w].at = "child"
  BY DEF ChildEnds, Types, WorkOK
<1> DEFINE id == <<"child", work[w].title>>
<1>2. work[w] \in Work /\ id \in Ids /\ id[1] = "child"
  BY <1>1, InHand
<1>3. work' = [work EXCEPT ![w].at = "resolve"]
  BY DEF ChildEnds
<1>4. WorkMoves(w, "resolve")
  BY <1>2, <1>3 DEF Types, WorkOK, Work, WorkMoves
<1>5. IF Found(id) THEN SaveJob(id, Ended(rows[id].key, "ok")) ELSE UNCHANGED rows
  BY DEF ChildEnds, GetJob
<1>6. SaveJob(id, Ended(rows[id].key, "ok")) => SavesDone(id, rows[id].key)
  <2> HIDE DEF id
  <2>1. rows[id].key \in NamesOf(id[1])
    BY <1>2 DEF Types, RowsOK
  <2> QED BY <1>2, <2>1, EndedSaves DEF Types
<1> QED BY <1>1, <1>4, <1>5, <1>6 DEF ChildEnds, catalog, memory

LEMMA AnswerDoes ==
  ASSUME Types, NEW w \in Workers, Answer(w)
  PROVE  /\ work[w].at = "work"
         /\ \/ w = Searcher /\ WorkMoves(w, "finish")
            \/ w \in Lookups /\ WorkMoves(w, "resolve")
         /\ UNCHANGED <<rows, alive, metadata, queues, pending, ask, sched, spent>>
<1>1. work[w].at = "work" /\ w # Refresher /\ work[w] \in Work
  BY DEF Answer, Types, WorkOK
<1>2. PICK result \in Outcomes : work' = [work EXCEPT ![w].result = result,
                            ![w].at = IF w = Searcher THEN "finish" ELSE "resolve"]
  BY DEF Answer
<1>3. CASE w = Searcher
  <2>1. WorkMoves(w, "finish")
    BY <1>1, <1>2, <1>3 DEF Types, WorkOK, Work, WorkMoves, Results
  <2> QED BY <1>1, <1>3, <2>1 DEF Answer, catalog, memory
<1>4. CASE w # Searcher
  <2>1. WorkMoves(w, "resolve")
    BY <1>1, <1>2, <1>4 DEF Types, WorkOK, Work, WorkMoves, Results
  <2> QED BY <1>1, <1>4, <2>1, ActorsAre DEF Answer, catalog, memory
<1> QED BY <1>3, <1>4

LEMMA DropDoes ==
  ASSUME Types, NEW w \in Workers, Drop(w)
  PROVE  /\ work[w].at = "resolve" /\ ~Found(work[w].id)
         /\ WorkRenamed(w, "done", work[w].title)
         /\ UNCHANGED <<rows, alive, metadata, queues, pending, ask, sched, spent>>
<1>1. work[w].at # "idle" /\ work[w].at = "resolve" /\ w # Searcher
  BY DEF Drop, Types, WorkOK
<1>2. work[w] \in Work /\ work[w].title \in Names /\ work[w].id \in Ids
  BY <1>1, InHand
<1>3. WorkRenamed(w, "done", work[w].title)
  BY <1>2 DEF Types, WorkOK, Work, Drop, WorkRenamed
<1> QED BY <1>1, <1>3 DEF Drop, catalog, memory

LEMMA ResolveDoes ==
  ASSUME Types, NEW w \in Workers, Resolve(w)
  PROVE  /\ work[w].at = "resolve" /\ Found(work[w].id)
         /\ \/ w = Refresher /\ WorkRenamed(w, "ask", rows[work[w].id].key)
            \/ w \in Lookups /\ WorkRenamed(w, "land", rows[work[w].id].key)
         /\ UNCHANGED <<rows, alive, metadata, queues, pending, ask, sched, spent>>
<1>1. work[w].at # "idle" /\ work[w].at = "resolve" /\ w # Searcher
  BY DEF Resolve, Types, WorkOK
<1>2. work[w] \in Work /\ work[w].title \in Names /\ work[w].id \in Ids
  BY <1>1, InHand
<1> DEFINE key == rows[work[w].id].key
<1>3. key \in Names
  BY <1>2, IdsAre DEF Types, RowsOK
<1>4. work' = [work EXCEPT ![w].at = IF w = Refresher THEN "ask" ELSE "land", ![w].key = key]
  BY DEF Resolve, GetJob
<1> HIDE DEF key
<1>5. CASE w = Refresher
  <2>1. WorkRenamed(w, "ask", key)
    BY <1>2, <1>3, <1>4, <1>5 DEF Types, WorkOK, Work, WorkRenamed
  <2> QED BY <1>1, <1>5, <2>1 DEF Resolve, catalog, memory, key
<1>6. CASE w # Refresher
  <2>1. WorkRenamed(w, "land", key)
    BY <1>2, <1>3, <1>4, <1>6 DEF Types, WorkOK, Work, WorkRenamed
  <2> QED BY <1>1, <1>6, <2>1, ActorsAre DEF Resolve, catalog, memory, key
<1> QED BY <1>5, <1>6

LEMMA LandDoes ==
  ASSUME Types, NEW w \in Workers, Land(w)
  PROVE  /\ work[w].at = "land"
         /\ metadata' \in [Titles -> {"none", "fresh", "expired"}]
         /\ WorkMoves(w, "finish")
         /\ UNCHANGED <<rows, alive, queues, pending, ask, sched, spent>>
<1>1. work[w].at # "idle"
  BY DEF Land
<1>2. work[w] \in Work
  BY <1>1, InHand
<1>3. WorkMoves(w, "finish")
  BY <1>2 DEF Types, WorkOK, Work, Land, WorkMoves
<1>4. metadata' \in [Titles -> {"none", "fresh", "expired"}]
  BY DEF Types, CatalogOK, Land
<1> QED BY <1>3, <1>4 DEF Land, memory

LEMMA AskMetadataDoes ==
  ASSUME Types, NEW w \in Workers, AskMetadata(w)
  PROVE  /\ w = Refresher /\ work[w].at = "ask" /\ ask[w].at = "idle"
         /\ MayAsk(w) /\ WorkMoves(w, "finish")
         /\ UNCHANGED <<rows, alive, metadata, queues, sched, spent>>
<1>1. work[w].at # "idle"
  BY DEF AskMetadata
<1>2. work[w] \in Work /\ w = Refresher /\ w \in Askers /\ work[w].key \in Titles
      /\ work[w].force \in BOOLEAN
  BY <1>1, InHand, ActorsAre DEF AskMetadata, Types, WorkOK, NamesOf, Work
<1>3. WorkMoves(w, "finish")
  BY <1>2 DEF Types, WorkOK, Work, AskMetadata, WorkMoves
<1>4. MayAsk(w)
  <2>1. CASE ensureMetadata(w, work[w].key, work[w].force)
    BY <1>2, <2>1, EnsureAsks
  <2>2. CASE UNCHANGED <<pending, ask>>
    BY <2>2 DEF MayAsk
  <2> QED BY <2>1, <2>2 DEF AskMetadata
<1> QED BY <1>2, <1>3, <1>4 DEF AskMetadata, catalog

LEMMA FinishDoes ==
  ASSUME Types, NEW w \in Workers, Finish(w)
  PROVE  /\ work[w].at = "finish"
         /\ SavesDone(work[w].id, work[w].key)
         /\ WorkMoves(w, "done")
         /\ UNCHANGED <<alive, metadata, queues, pending, ask, sched, spent>>
<1>1. work[w].at # "idle"
  BY DEF Finish
<1>2. work[w] \in Work /\ work[w].id \in Ids /\ work[w].key \in NamesOf(work[w].id[1])
  BY <1>1, InHand
<1>3. WorkMoves(w, "done")
  BY <1>2 DEF Types, WorkOK, Work, Finish, WorkMoves
<1>4. \E result : SaveJob(work[w].id, Ended(work[w].key, result))
  BY DEF Finish
<1>5. SavesDone(work[w].id, work[w].key)
  BY <1>2, <1>4, EndedSaves DEF Types
<1> QED BY <1>3, <1>5 DEF Finish, catalog, memory

LEMMA DoneDoes ==
  ASSUME Types, NEW w \in Workers, Done(w)
  PROVE  /\ work[w].at = "done"
         /\ Forget(KindOf(w), {work[w].title, work[w].key})
         /\ WorkEnds(w)
         /\ UNCHANGED <<rows, alive, metadata, queues, ask, sched, spent>>
BY SomeoneIsThere DEF Types, WorkOK, Done, WorkEnds, catalog

LEMMA RecoverDoes ==
  ASSUME Types, Recover
  PROVE  /\ sched.at = "recover"
         /\ \A id \in Ids : rows[id].state \in Active => \E s \in sched'.list : s.id = id
         /\ \A s \in sched'.list : s.id \in Ids /\ s.row = rows[s.id]
         /\ SchedTo("recovering", sched'.list)
         /\ UNCHANGED <<rows, alive, metadata, queues, pending, work, ask, spent>>
<1> DEFINE L == {[id |-> id, row |-> rows[id]] : id \in {j \in Ids : rows[j].state \in Active}}
<1>1. sched' = [sched EXCEPT !.at = "recovering", !.list = L]
  BY DEF Recover
<1>2. L \subseteq Snapshot
  BY DEF Snapshot, Types, RowsOK
<1>3. sched'.list = L /\ SchedTo("recovering", L)
  <2> HIDE DEF L
  <2> QED BY <1>1, <1>2 DEF SchedTo, Types, SchedOK
<1>4. \A id \in Ids : rows[id].state \in Active => \E s \in L : s.id = id
  <2> SUFFICES ASSUME NEW id \in Ids, rows[id].state \in Active
               PROVE  \E s \in L : s.id = id
    OBVIOUS
  <2>1. [id |-> id, row |-> rows[id]] \in L
    OBVIOUS
  <2> QED BY <2>1
<1>5. \A s \in L : s.id \in Ids /\ s.row = rows[s.id]
  OBVIOUS
<1> HIDE DEF L
<1> QED BY <1>3, <1>4, <1>5 DEF Recover, catalog, memory

LEMMA RecoverRowDoes ==
  ASSUME Types, RecoverRow
  PROVE  /\ sched.at = "recovering"
         /\ \E s \in sched.list :
            /\ SchedTo("recovering", sched.list \ {s})
            /\ \/ /\ s.id[1] = "refresh" /\ Saves(s.id, s.row.key, "queued") /\ RowsOK'
                  /\ UNCHANGED queues \/ Receives("refresh", s.row.key)
               \/ s.id[1] = "child" /\ UNCHANGED <<rows, queues>>
               \/ Saves(s.id, s.row.key, "failed") /\ RowsOK' /\ UNCHANGED queues
         /\ UNCHANGED <<alive, metadata, pending, work, ask, spent>>
<1>1. PICK s \in sched.list :
       /\ sched' = [sched EXCEPT !.list = @ \ {s}]
       /\ \/ /\ s.id[1] = "refresh" /\ SaveJob(s.id, Job(s.row.key, "queued", FALSE, FALSE))
             /\ queues' = IF Len(queues["refresh"]) = QueueCap THEN queues
                          ELSE [queues EXCEPT !["refresh"] =
                                  Append(@, [title |-> s.row.key, force |-> FALSE])]
          \/ s.id[1] = "child" /\ UNCHANGED <<rows, queues>>
          \/ SaveJob(s.id, Job(s.row.key, "failed", TRUE, TRUE)) /\ UNCHANGED queues
  BY DEF RecoverRow
<1>2. s \in Snapshot /\ s.id \in Ids /\ s.row.key \in NamesOf(s.id[1]) /\ s.row.key \in Names
  BY IdsAre DEF Types, SchedOK, Snapshot
<1>3. SchedTo("recovering", sched.list \ {s}) /\ sched.at = "recovering"
  BY <1>1 DEF SchedTo, Types, SchedOK, RecoverRow
<1>4. ASSUME SaveJob(s.id, Job(s.row.key, "queued", FALSE, FALSE))
      PROVE  Saves(s.id, s.row.key, "queued") /\ RowsOK'
  <2> DEFINE job == Job(s.row.key, "queued", FALSE, FALSE)
  <2>1. job \in Row /\ job.state = "queued" /\ job.key = s.row.key
    BY <1>2 DEF Job, Row, States
  <2> HIDE DEF job
  <2>2. SaveJob(s.id, job)
    BY <1>4 DEF job
  <2> QED BY <1>2, <2>1, <2>2, SaveDoes DEF Types
<1>5. ASSUME SaveJob(s.id, Job(s.row.key, "failed", TRUE, TRUE))
      PROVE  Saves(s.id, s.row.key, "failed") /\ RowsOK'
  <2> DEFINE job == Job(s.row.key, "failed", TRUE, TRUE)
  <2>1. job \in Row /\ job.state = "failed" /\ job.key = s.row.key
    BY <1>2 DEF Job, Row, States
  <2> HIDE DEF job
  <2>2. SaveJob(s.id, job)
    BY <1>5 DEF job
  <2> QED BY <1>2, <2>1, <2>2, SaveDoes DEF Types
<1> DEFINE r == [title |-> s.row.key, force |-> FALSE]
<1>6. ASSUME Len(queues["refresh"]) # QueueCap, queues' = [queues EXCEPT !["refresh"] = Append(@, r)]
      PROVE  Receives("refresh", s.row.key)
  <2>1. r \in Request /\ r.title = s.row.key
    BY <1>2 DEF Request
  <2>2. "refresh" \in QueueKinds
    BY DEF QueueKinds
  <2> HIDE DEF r
  <2>3. queues["refresh"] \in Seq(Request) /\ Len(queues["refresh"]) <= QueueCap
    BY <2>2 DEF Types, QueuesOK
  <2>4. Len(queues["refresh"]) < QueueCap
    BY <1>6, <2>3, BoundsAssumption
  <2> QED BY <1>6, <2>1, <2>2, <2>4, SendDoes DEF Types
<1> QED BY <1>1, <1>3, <1>4, <1>5, <1>6 DEF RecoverRow, catalog

LEMMA RecoveredDoes ==
  ASSUME Types, Recovered
  PROVE  /\ sched.at \in {"recovering", "retrying"} /\ sched.list = {}
         /\ SchedTo("idle", sched.list)
         /\ UNCHANGED <<rows, alive, metadata, queues, pending, work, ask, spent>>
BY DEF Types, SchedOK, Recovered, SchedTo, catalog, memory

LEMMA ListDueDoes ==
  ASSUME Types, NEW waitingOnly \in BOOLEAN, ListDue(waitingOnly)
  PROVE  /\ spent.events < MaxEvents /\ spent' = [spent EXCEPT !.events = @ + 1]
         /\ sched.at = "idle" /\ \A s \in sched'.list : s.id \in Ids /\ s.row = rows[s.id]
         /\ SchedTo("retrying", sched'.list)
         /\ UNCHANGED <<rows, alive, metadata, queues, pending, work, ask>>
<1> DEFINE L == {[id |-> id, row |-> rows[id]] : id \in {j \in Ids : Due(j, waitingOnly)}}
<1>1. sched' = [sched EXCEPT !.at = "retrying", !.list = L]
  BY DEF ListDue
<1>2. L \subseteq Snapshot
  BY DEF Snapshot, Types, RowsOK
<1>3. sched'.list = L /\ SchedTo("retrying", L)
  <2> HIDE DEF L
  <2> QED BY <1>1, <1>2 DEF SchedTo, Types, SchedOK
<1>5. \A s \in L : s.id \in Ids /\ s.row = rows[s.id]
  OBVIOUS
<1> HIDE DEF L
<1> QED BY <1>3, <1>5 DEF ListDue, catalog, memory

LEMMA RetryRowDoes ==
  ASSUME Types, RetryRow
  PROVE  /\ sched.at = "retrying" /\ ask[Scheduler].at = "idle"
         /\ \E s \in sched.list : /\ SchedTo("retry", sched.list \ {s})
                                  /\ Saves(s.id, s.row.key, "failed") /\ RowsOK'
         /\ UNCHANGED <<alive, metadata, queues, pending, work, ask, spent>>
<1>1. PICK s \in sched.list :
       /\ SaveJob(s.id, Job(s.row.key, "failed", s.row.retryable, FALSE))
       /\ sched' = [at |-> "retry", list |-> sched.list \ {s}, id |-> s.id]
  BY DEF RetryRow
<1>2. s \in Snapshot /\ s.id \in Ids /\ s.row.key \in NamesOf(s.id[1]) /\ s.row.key \in Names
      /\ s.row.retryable \in BOOLEAN
  BY IdsAre DEF Types, SchedOK, Snapshot, Row
<1>3. SchedTo("retry", sched.list \ {s})
  BY <1>1, <1>2 DEF SchedTo, Types, SchedOK
<1> DEFINE job == Job(s.row.key, "failed", s.row.retryable, FALSE)
<1>4. job \in Row /\ job.state = "failed" /\ job.key = s.row.key
  BY <1>2 DEF Job, Row, States
<1>5. SaveJob(s.id, job)
  BY <1>1
<1> HIDE DEF job
<1>6. Saves(s.id, s.row.key, "failed") /\ RowsOK'
  BY <1>2, <1>4, <1>5, SaveDoes DEF Types
<1> QED BY <1>3, <1>6 DEF RetryRow, catalog, memory

LEMMA RetryDueDoes ==
  ASSUME Types, RetryDue
  PROVE  /\ sched.at = "retry" /\ ask[Scheduler].at = "idle"
         /\ MayAsk(Scheduler) /\ SchedTo("retrying", sched.list)
         /\ UNCHANGED <<rows, alive, metadata, queues, work, spent>>
<1>1. Scheduler \in Askers /\ sched.id \in Ids
  BY ActorsAre DEF Types, SchedOK
<1>2. MayAsk(Scheduler)
  BY <1>1, RetryAsks DEF RetryDue
<1>3. sched.at = "retry" /\ ask[Scheduler].at = "idle" /\ SchedTo("retrying", sched.list)
  BY DEF RetryDue, Types, SchedOK, SchedTo
<1> QED BY <1>2, <1>3 DEF RetryDue, catalog

LEMMA moveExtinctGroupDependentsDoes ==
  ASSUME Types, NEW old \in Titles, NEW new \in Titles, moveExtinctGroupDependents(old, new)
  PROVE  /\ old \in alive /\ old # new /\ alive' = alive \ {old}
         /\ metadata' \in [Titles -> {"none", "fresh", "expired"}]
         /\ spent.events < MaxEvents /\ spent' = [spent EXCEPT !.events = @ + 1]
         /\ new \in alive /\ rows' = [id \in Ids |-> Retargeted(id, old, new)]
         /\ UNCHANGED <<queues, pending, work, ask, sched>>
BY DEF moveExtinctGroupDependents, memory, Types, CatalogOK

LEMMA ExpireDoes ==
  ASSUME Types, NEW t \in Titles, Expire(t)
  PROVE  /\ metadata' \in [Titles -> {"none", "fresh", "expired"}]
         /\ spent.events < MaxEvents /\ spent' = [spent EXCEPT !.events = @ + 1]
         /\ UNCHANGED <<rows, alive, queues, pending, work, ask, sched>>
BY DEF Types, CatalogOK, Expire, memory

LEMMA RestartDoes ==
  ASSUME Types, Restart
  PROVE  /\ queues' = Empty /\ pending' = {}
         /\ work' = [w \in Workers |-> Resting] /\ ask' = [a \in Askers |-> NotAsking]
         /\ spent.events < MaxEvents /\ spent' = [spent EXCEPT !.events = @ + 1]
         /\ SchedTo("recover", {})
         /\ UNCHANGED <<rows, alive, metadata>>
BY DEF Types, SchedOK, Restart, SchedTo, catalog
(* A merge keeps the rows: only one row of a kind can have the old key.    *)
LEMMA MergeKeepsRows ==
  ASSUME RowsOK, NEW old \in Titles, NEW new \in Titles,
         rows' = [id \in Ids |-> Retargeted(id, old, new)]
  PROVE  RowsOK'
<1>1. \A id \in Ids : \/ rows'[id] = rows[id]
                      \/ rows'[id] = Absent(id) /\ rows[id].key = old
                      \/ /\ rows'[id] = [rows[id] EXCEPT !.key = new]
                         /\ rows[id].key = old /\ rows[id].state # "absent"
                         /\ ~\E j \in Ids : /\ j[1] = id[1] /\ rows[j].state # "absent"
                                            /\ rows[j].key = new
  BY DEF Retargeted, Active
<1>2. \A id \in Ids : id[2] \in NamesOf(id[1]) /\ id[2] \in Names
  BY IdsAre
<1>3. \A id \in Ids : Absent(id) \in Row /\ Absent(id).key = id[2] /\ Absent(id).state = "absent"
  BY <1>2 DEF Absent, Job, Row, States
<1>4. \A id \in Ids : /\ [rows[id] EXCEPT !.key = new] \in Row
                      /\ [rows[id] EXCEPT !.key = new].key = new
                      /\ [rows[id] EXCEPT !.key = new].state = rows[id].state
  BY DEF RowsOK, Row, Names
<1>5. rows' \in [Ids -> Row]
  BY <1>1, <1>3, <1>4 DEF RowsOK
<1>6. ASSUME NEW id \in Ids
      PROVE  rows'[id].key \in NamesOf(id[1])
  <2>1. rows[id].key = old => new \in NamesOf(id[1])
    BY ActorsAssumption DEF RowsOK, NamesOf
  <2> QED BY <1>1, <1>2, <1>3, <1>4, <2>1 DEF RowsOK
<1>7. KeysAreUnique'
  <2> SUFFICES ASSUME NEW i \in Ids, NEW j \in Ids, i # j, i[1] = j[1],
                      rows'[i].state # "absent", rows'[j].state # "absent",
                      rows'[i].key = rows'[j].key
               PROVE  FALSE
    BY DEF KeysAreUnique
  <2>1. rows[i].state # "absent" /\ rows[j].state # "absent"
    BY <1>1, <1>3, <1>4
  <2>2. rows[i].key # rows[j].key
    BY <2>1 DEF RowsOK, KeysAreUnique
  <2>3. CASE rows'[i] = rows[i] /\ rows'[j] = rows[j]
    BY <2>2, <2>3
  <2>4. CASE rows'[i] # rows[i]
    <3>1. /\ rows'[i] = [rows[i] EXCEPT !.key = new] /\ rows[i].key = old
          /\ ~\E k \in Ids : /\ k[1] = i[1] /\ rows[k].state # "absent" /\ rows[k].key = new
      BY <1>1, <1>3, <2>4
    <3>2. rows'[j].key = new
      BY <1>4, <3>1
    <3>3. rows[j].key # old /\ rows[j].key # new
      BY <2>1, <2>2, <3>1
    <3> QED BY <1>1, <1>3, <3>2, <3>3
  <2>5. CASE rows'[j] # rows[j]
    <3>1. /\ rows'[j] = [rows[j] EXCEPT !.key = new] /\ rows[j].key = old
          /\ ~\E k \in Ids : /\ k[1] = j[1] /\ rows[k].state # "absent" /\ rows[k].key = new
      BY <1>1, <1>3, <2>5
    <3>2. rows'[i].key = new
      BY <1>4, <3>1
    <3>3. rows[i].key # old /\ rows[i].key # new
      BY <2>1, <2>2, <3>1
    <3> QED BY <1>1, <1>3, <3>2, <3>3
  <2> QED BY <2>3, <2>4, <2>5
<1> QED BY <1>5, <1>6, <1>7 DEF RowsOK

LEMMA ReceivesKeeps ==
  ASSUME QueuesOK, NEW kind \in QueueKinds, NEW n \in NamesOf(kind), Receives(kind, n),
         pending' = pending
  PROVE  QueuesOK'
<1>1. \A k \in QueueKinds : Len(queues[k]) \in Nat /\ Len(queues[k]) <= QueueCap
  BY DEF QueuesOK
<1>2. Len(queues'[kind]) <= QueueCap
  BY <1>1, BoundsAssumption DEF Receives
<1>3. ASSUME NEW i \in 1 .. Len(queues'[kind])
      PROVE  queues'[kind][i].title \in NamesOf(kind)
  <2>1. i \in 1 .. Len(queues[kind]) \/ i = Len(queues[kind]) + 1
    BY <1>1 DEF Receives
  <2> QED BY <2>1 DEF Receives, QueuesOK
<1> QED BY <1>2, <1>3 DEF Receives, QueuesOK

LEMMA PassesKeeps ==
  ASSUME QueuesOK, NEW kind \in QueueKinds, Passes(kind), pending' = pending
  PROVE  QueuesOK'
<1>1. \A k \in QueueKinds : Len(queues[k]) \in Nat /\ Len(queues[k]) <= QueueCap
  BY DEF QueuesOK
<1>2. Len(queues'[kind]) <= QueueCap
  BY <1>1, BoundsAssumption DEF Passes
<1>3. ASSUME NEW i \in 1 .. Len(queues'[kind])
      PROVE  queues'[kind][i].title \in NamesOf(kind)
  <2>1. i + 1 \in 1 .. Len(queues[kind])
    BY <1>1 DEF Passes
  <2> QED BY <2>1 DEF Passes, QueuesOK
<1> QED BY <1>2, <1>3 DEF Passes, QueuesOK

LEMMA WorkMovesKeeps ==
  ASSUME WorkOK, NEW w \in Workers, NEW at, work[w].at # "idle",
         WorkMoves(w, at) \/ \E key \in NamesOf(KindOf(w)) : WorkRenamed(w, at, key),
         at \in {"child", "ask"} => w = Refresher, at = "resolve" => w # Searcher,
         at = "land" => w \in Lookups
  PROVE  WorkOK'
<1>1. CASE WorkMoves(w, at)
  BY <1>1 DEF WorkOK, WorkMoves
<1>2. ASSUME NEW key \in NamesOf(KindOf(w)), WorkRenamed(w, at, key)
      PROVE  WorkOK'
  BY <1>2 DEF WorkOK, WorkRenamed
<1> QED BY <1>1, <1>2

(* The types.                                                              *)
LEMMA RowsStep ==
  ASSUME Types, [Next]_<<vars, history>>
  PROVE  RowsOK'
<1>0. Types /\ RowsOK
  BY DEF Types
<1>1. ASSUME NEW a \in Askers, AskSave(a)
      PROVE  RowsOK'
  BY <1>0, <1>1, AskSaveDoes
<1>2. ASSUME NEW a \in Askers, AskSend(a)
      PROVE  RowsOK'
  BY <1>0, <1>2, AskSendDoes DEF RowsOK, KeysAreUnique
<1>3. ASSUME NEW a \in Askers, AskFull(a)
      PROVE  RowsOK'
  BY <1>0, <1>3, AskFullDoes DEF RowsOK, KeysAreUnique
<1>4. ASSUME NEW a \in Askers, AskGiveUp(a)
      PROVE  RowsOK'
  BY <1>0, <1>4, AskGiveUpDoes DEF RowsOK, KeysAreUnique
<1>5. ASSUME NEW c \in Callers, AskSaveFails(c)
      PROVE  RowsOK'
  BY <1>0, <1>5, AskSaveFailsDoes DEF RowsOK, KeysAreUnique
<1>6. ASSUME NEW c \in Callers, CallerAsks(c)
      PROVE  RowsOK'
  BY <1>0, <1>6, CallerAsksDoes DEF RowsOK, KeysAreUnique
<1>7. ASSUME NEW w \in Workers, Take(w)
      PROVE  RowsOK'
  BY <1>0, <1>7, TakeDoes DEF RowsOK, KeysAreUnique
<1>8. ASSUME NEW w \in Workers, Start(w)
      PROVE  RowsOK'
  BY <1>0, <1>8, StartDoes
<1>9. ASSUME NEW w \in Workers, ChildStart(w)
      PROVE  RowsOK'
  BY <1>0, <1>9, ChildStartDoes DEF RowsOK, KeysAreUnique
<1>10. ASSUME NEW w \in Workers, ChildFails(w)
      PROVE  RowsOK'
  BY <1>0, <1>10, ChildFailsDoes DEF SavesDone, RowsOK, KeysAreUnique
<1>11. ASSUME NEW w \in Workers, ChildEnds(w)
      PROVE  RowsOK'
  BY <1>0, <1>11, ChildEndsDoes DEF SavesDone, RowsOK, KeysAreUnique
<1>12. ASSUME NEW w \in Workers, Answer(w)
      PROVE  RowsOK'
  BY <1>0, <1>12, AnswerDoes DEF RowsOK, KeysAreUnique
<1>13. ASSUME NEW w \in Workers, Drop(w)
      PROVE  RowsOK'
  BY <1>0, <1>13, DropDoes DEF RowsOK, KeysAreUnique
<1>14. ASSUME NEW w \in Workers, Resolve(w)
      PROVE  RowsOK'
  BY <1>0, <1>14, ResolveDoes DEF RowsOK, KeysAreUnique
<1>15. ASSUME NEW w \in Workers, Land(w)
      PROVE  RowsOK'
  BY <1>0, <1>15, LandDoes DEF RowsOK, KeysAreUnique
<1>16. ASSUME NEW w \in Workers, AskMetadata(w)
      PROVE  RowsOK'
  BY <1>0, <1>16, AskMetadataDoes DEF RowsOK, KeysAreUnique
<1>17. ASSUME NEW w \in Workers, Finish(w)
      PROVE  RowsOK'
  BY <1>0, <1>17, FinishDoes DEF SavesDone
<1>18. ASSUME NEW w \in Workers, Done(w)
      PROVE  RowsOK'
  BY <1>0, <1>18, DoneDoes DEF RowsOK, KeysAreUnique
<1>19. CASE Recover
  BY <1>0, <1>19, RecoverDoes DEF RowsOK, KeysAreUnique
<1>20. CASE RecoverRow
  BY <1>0, <1>20, RecoverRowDoes DEF RowsOK, KeysAreUnique
<1>21. CASE Recovered
  BY <1>0, <1>21, RecoveredDoes DEF RowsOK, KeysAreUnique
<1>22. ASSUME NEW waitingOnly \in BOOLEAN, ListDue(waitingOnly)
      PROVE  RowsOK'
  BY <1>0, <1>22, ListDueDoes DEF RowsOK, KeysAreUnique
<1>23. CASE RetryRow
  BY <1>0, <1>23, RetryRowDoes DEF RowsOK, KeysAreUnique
<1>24. CASE RetryDue
  BY <1>0, <1>24, RetryDueDoes DEF RowsOK, KeysAreUnique
<1>25. ASSUME NEW old \in Titles, NEW new \in Titles, moveExtinctGroupDependents(old, new)
      PROVE  RowsOK'
  BY <1>0, <1>25, moveExtinctGroupDependentsDoes, MergeKeepsRows
<1>26. ASSUME NEW t \in Titles, Expire(t)
      PROVE  RowsOK'
  BY <1>0, <1>26, ExpireDoes DEF RowsOK, KeysAreUnique
<1>27. CASE Restart
  BY <1>0, <1>27, RestartDoes DEF RowsOK, KeysAreUnique
<1>28. CASE UNCHANGED <<vars, history>>
  BY <1>0, <1>28 DEF vars, history, RowsOK, KeysAreUnique
<1> QED
  BY <1>1, <1>2, <1>3, <1>4, <1>5, <1>6, <1>7, <1>8, <1>9, <1>10, <1>11, <1>12, <1>13,
     <1>14, <1>15, <1>16, <1>17, <1>18, <1>19, <1>20, <1>21, <1>22, <1>23, <1>24, <1>25,
     <1>26, <1>27, <1>28
     DEF Next, Enqueue, Run, Schedule, Happens

LEMMA CatalogStep ==
  ASSUME Types, [Next]_<<vars, history>>
  PROVE  CatalogOK'
<1>0. Types /\ CatalogOK
  BY DEF Types
<1> USE DEF CatalogOK
<1>1. ASSUME NEW a \in Askers, AskSave(a)
      PROVE  CatalogOK'
  BY <1>0, <1>1, AskSaveDoes
<1>2. ASSUME NEW a \in Askers, AskSend(a)
      PROVE  CatalogOK'
  BY <1>0, <1>2, AskSendDoes
<1>3. ASSUME NEW a \in Askers, AskFull(a)
      PROVE  CatalogOK'
  BY <1>0, <1>3, AskFullDoes
<1>4. ASSUME NEW a \in Askers, AskGiveUp(a)
      PROVE  CatalogOK'
  BY <1>0, <1>4, AskGiveUpDoes
<1>5. ASSUME NEW c \in Callers, AskSaveFails(c)
      PROVE  CatalogOK'
  BY <1>0, <1>5, AskSaveFailsDoes
<1>6. ASSUME NEW c \in Callers, CallerAsks(c)
      PROVE  CatalogOK'
  BY <1>0, <1>6, CallerAsksDoes
<1>7. ASSUME NEW w \in Workers, Take(w)
      PROVE  CatalogOK'
  BY <1>0, <1>7, TakeDoes
<1>8. ASSUME NEW w \in Workers, Start(w)
      PROVE  CatalogOK'
  BY <1>0, <1>8, StartDoes
<1>9. ASSUME NEW w \in Workers, ChildStart(w)
      PROVE  CatalogOK'
  BY <1>0, <1>9, ChildStartDoes
<1>10. ASSUME NEW w \in Workers, ChildFails(w)
      PROVE  CatalogOK'
  BY <1>0, <1>10, ChildFailsDoes
<1>11. ASSUME NEW w \in Workers, ChildEnds(w)
      PROVE  CatalogOK'
  BY <1>0, <1>11, ChildEndsDoes
<1>12. ASSUME NEW w \in Workers, Answer(w)
      PROVE  CatalogOK'
  BY <1>0, <1>12, AnswerDoes
<1>13. ASSUME NEW w \in Workers, Drop(w)
      PROVE  CatalogOK'
  BY <1>0, <1>13, DropDoes
<1>14. ASSUME NEW w \in Workers, Resolve(w)
      PROVE  CatalogOK'
  BY <1>0, <1>14, ResolveDoes
<1>15. ASSUME NEW w \in Workers, Land(w)
      PROVE  CatalogOK'
  BY <1>0, <1>15, LandDoes
<1>16. ASSUME NEW w \in Workers, AskMetadata(w)
      PROVE  CatalogOK'
  BY <1>0, <1>16, AskMetadataDoes
<1>17. ASSUME NEW w \in Workers, Finish(w)
      PROVE  CatalogOK'
  BY <1>0, <1>17, FinishDoes
<1>18. ASSUME NEW w \in Workers, Done(w)
      PROVE  CatalogOK'
  BY <1>0, <1>18, DoneDoes
<1>19. CASE Recover
  BY <1>0, <1>19, RecoverDoes
<1>20. CASE RecoverRow
  BY <1>0, <1>20, RecoverRowDoes
<1>21. CASE Recovered
  BY <1>0, <1>21, RecoveredDoes
<1>22. ASSUME NEW waitingOnly \in BOOLEAN, ListDue(waitingOnly)
      PROVE  CatalogOK'
  BY <1>0, <1>22, ListDueDoes
<1>23. CASE RetryRow
  BY <1>0, <1>23, RetryRowDoes
<1>24. CASE RetryDue
  BY <1>0, <1>24, RetryDueDoes
<1>25. ASSUME NEW old \in Titles, NEW new \in Titles, moveExtinctGroupDependents(old, new)
      PROVE  CatalogOK'
  BY <1>0, <1>25, moveExtinctGroupDependentsDoes
<1>26. ASSUME NEW t \in Titles, Expire(t)
      PROVE  CatalogOK'
  BY <1>0, <1>26, ExpireDoes
<1>27. CASE Restart
  BY <1>0, <1>27, RestartDoes
<1>28. CASE UNCHANGED <<vars, history>>
  BY <1>0, <1>28 DEF vars, history
<1> QED
  BY <1>1, <1>2, <1>3, <1>4, <1>5, <1>6, <1>7, <1>8, <1>9, <1>10, <1>11, <1>12, <1>13,
     <1>14, <1>15, <1>16, <1>17, <1>18, <1>19, <1>20, <1>21, <1>22, <1>23, <1>24, <1>25,
     <1>26, <1>27, <1>28
     DEF Next, Enqueue, Run, Schedule, Happens

LEMMA QueuesStep ==
  ASSUME Types, [Next]_<<vars, history>>
  PROVE  QueuesOK'
<1>0. Types /\ QueuesOK
  BY DEF Types
<1> USE DEF QueuesOK
<1>1. ASSUME NEW a \in Askers, AskSave(a)
      PROVE  QueuesOK'
  BY <1>0, <1>1, AskSaveDoes
<1>2. ASSUME NEW a \in Askers, AskSend(a)
      PROVE  QueuesOK'
  <2>1. ask[a].kind \in QueueKinds /\ ask[a].title \in NamesOf(ask[a].kind)
    BY <1>2, AskSendDoes DEF Types, AskOK
  <2> QED BY <1>0, <1>2, <2>1, AskSendDoes, ReceivesKeeps
<1>3. ASSUME NEW a \in Askers, AskFull(a)
      PROVE  QueuesOK'
  BY <1>0, <1>3, AskFullDoes DEF Forget
<1>4. ASSUME NEW a \in Askers, AskGiveUp(a)
      PROVE  QueuesOK'
  BY <1>0, <1>4, AskGiveUpDoes
<1>5. ASSUME NEW c \in Callers, AskSaveFails(c)
      PROVE  QueuesOK'
  BY <1>0, <1>5, AskSaveFailsDoes DEF Forget
<1>6. ASSUME NEW c \in Callers, CallerAsks(c)
      PROVE  QueuesOK'
  <2>1. UNCHANGED pending \/ \E kind, n : AskBegins(c, kind, n)
    BY <1>0, <1>6, CallerAsksDoes DEF MayAsk
  <2>2. pending' \subseteq Titles
    BY <1>0, <2>1 DEF AskBegins, NamesOf
  <2> QED BY <1>0, <1>6, <2>2, CallerAsksDoes
<1>7. ASSUME NEW w \in Workers, Take(w)
      PROVE  QueuesOK'
  <2>1. KindOf(w) \in QueueKinds
    BY ActorsAre
  <2> QED BY <1>0, <1>7, <2>1, TakeDoes, PassesKeeps
<1>8. ASSUME NEW w \in Workers, Start(w)
      PROVE  QueuesOK'
  BY <1>0, <1>8, StartDoes
<1>9. ASSUME NEW w \in Workers, ChildStart(w)
      PROVE  QueuesOK'
  BY <1>0, <1>9, ChildStartDoes
<1>10. ASSUME NEW w \in Workers, ChildFails(w)
      PROVE  QueuesOK'
  BY <1>0, <1>10, ChildFailsDoes
<1>11. ASSUME NEW w \in Workers, ChildEnds(w)
      PROVE  QueuesOK'
  BY <1>0, <1>11, ChildEndsDoes
<1>12. ASSUME NEW w \in Workers, Answer(w)
      PROVE  QueuesOK'
  BY <1>0, <1>12, AnswerDoes
<1>13. ASSUME NEW w \in Workers, Drop(w)
      PROVE  QueuesOK'
  BY <1>0, <1>13, DropDoes
<1>14. ASSUME NEW w \in Workers, Resolve(w)
      PROVE  QueuesOK'
  BY <1>0, <1>14, ResolveDoes
<1>15. ASSUME NEW w \in Workers, Land(w)
      PROVE  QueuesOK'
  BY <1>0, <1>15, LandDoes
<1>16. ASSUME NEW w \in Workers, AskMetadata(w)
      PROVE  QueuesOK'
  <2>1. UNCHANGED pending \/ \E kind, n : AskBegins(w, kind, n)
    BY <1>0, <1>16, AskMetadataDoes DEF MayAsk
  <2>2. pending' \subseteq Titles
    BY <1>0, <2>1 DEF AskBegins, NamesOf
  <2> QED BY <1>0, <1>16, <2>2, AskMetadataDoes
<1>17. ASSUME NEW w \in Workers, Finish(w)
      PROVE  QueuesOK'
  BY <1>0, <1>17, FinishDoes
<1>18. ASSUME NEW w \in Workers, Done(w)
      PROVE  QueuesOK'
  BY <1>0, <1>18, DoneDoes DEF Forget
<1>19. CASE Recover
  BY <1>0, <1>19, RecoverDoes
<1>20. CASE RecoverRow
  <2>1. UNCHANGED queues \/ \E n \in NamesOf("refresh") : Receives("refresh", n)
    BY <1>0, <1>20, RecoverRowDoes DEF Types, SchedOK
  <2>2. "refresh" \in QueueKinds
    BY DEF QueueKinds
  <2>5. pending' = pending
    BY <1>0, <1>20, RecoverRowDoes
  <2> QED BY <1>0, <2>1, <2>2, <2>5, ReceivesKeeps DEF QueuesOK
<1>21. CASE Recovered
  BY <1>0, <1>21, RecoveredDoes
<1>22. ASSUME NEW waitingOnly \in BOOLEAN, ListDue(waitingOnly)
      PROVE  QueuesOK'
  BY <1>0, <1>22, ListDueDoes
<1>23. CASE RetryRow
  BY <1>0, <1>23, RetryRowDoes
<1>24. CASE RetryDue
  <2>1. UNCHANGED pending \/ \E kind, n : AskBegins(Scheduler, kind, n)
    BY <1>0, <1>24, RetryDueDoes DEF MayAsk
  <2>2. pending' \subseteq Titles
    BY <1>0, <2>1 DEF AskBegins, NamesOf
  <2> QED BY <1>0, <1>24, <2>2, RetryDueDoes
<1>25. ASSUME NEW old \in Titles, NEW new \in Titles, moveExtinctGroupDependents(old, new)
      PROVE  QueuesOK'
  BY <1>0, <1>25, moveExtinctGroupDependentsDoes
<1>26. ASSUME NEW t \in Titles, Expire(t)
      PROVE  QueuesOK'
  BY <1>0, <1>26, ExpireDoes
<1>27. CASE Restart
  <2>1. Empty \in [QueueKinds -> Seq(Request)] /\ \A k \in QueueKinds : Len(Empty[k]) = 0
    BY DEF Empty, QueueKinds
  <2> QED BY <1>0, <2>1, <1>27, RestartDoes, BoundsAssumption
<1>28. CASE UNCHANGED <<vars, history>>
  BY <1>0, <1>28 DEF vars, history
<1> QED
  BY <1>1, <1>2, <1>3, <1>4, <1>5, <1>6, <1>7, <1>8, <1>9, <1>10, <1>11, <1>12, <1>13,
     <1>14, <1>15, <1>16, <1>17, <1>18, <1>19, <1>20, <1>21, <1>22, <1>23, <1>24, <1>25,
     <1>26, <1>27, <1>28
     DEF Next, Enqueue, Run, Schedule, Happens

LEMMA WorkStep ==
  ASSUME Types, [Next]_<<vars, history>>
  PROVE  WorkOK'
<1>0. Types /\ WorkOK
  BY DEF Types
<1>1. ASSUME NEW a \in Askers, AskSave(a)
      PROVE  WorkOK'
  BY <1>0, <1>1, AskSaveDoes DEF WorkOK
<1>2. ASSUME NEW a \in Askers, AskSend(a)
      PROVE  WorkOK'
  BY <1>0, <1>2, AskSendDoes DEF WorkOK
<1>3. ASSUME NEW a \in Askers, AskFull(a)
      PROVE  WorkOK'
  BY <1>0, <1>3, AskFullDoes DEF WorkOK
<1>4. ASSUME NEW a \in Askers, AskGiveUp(a)
      PROVE  WorkOK'
  BY <1>0, <1>4, AskGiveUpDoes DEF WorkOK
<1>5. ASSUME NEW c \in Callers, AskSaveFails(c)
      PROVE  WorkOK'
  BY <1>0, <1>5, AskSaveFailsDoes DEF WorkOK
<1>6. ASSUME NEW c \in Callers, CallerAsks(c)
      PROVE  WorkOK'
  BY <1>0, <1>6, CallerAsksDoes DEF WorkOK
<1>7. ASSUME NEW w \in Workers, Take(w)
      PROVE  WorkOK'
  BY <1>0, <1>7, TakeDoes DEF WorkOK, WorkTakes
<1>8. ASSUME NEW w \in Workers, Start(w)
      PROVE  WorkOK'
  BY <1>0, <1>8, StartDoes, WorkMovesKeeps, ActorsAssumption
<1>9. ASSUME NEW w \in Workers, ChildStart(w)
      PROVE  WorkOK'
  <2>1. work[w].at # "idle" /\ w = Refresher
    BY <1>0, <1>9, ChildStartDoes
  <2>2. w # Searcher
    BY <2>1, ActorsAssumption
  <2>3. CASE WorkMoves(w, "resolve")
    BY <1>0, <2>1, <2>2, <2>3, WorkMovesKeeps
  <2>4. CASE WorkMoves(w, "child")
    BY <1>0, <2>1, <2>2, <2>4, WorkMovesKeeps
  <2> QED BY <1>0, <1>9, <2>3, <2>4, ChildStartDoes
<1>10. ASSUME NEW w \in Workers, ChildFails(w)
      PROVE  WorkOK'
  <2>1. work[w].at # "idle" /\ WorkMoves(w, "resolve")
    BY <1>0, <1>10, ChildFailsDoes
  <2>2. w # Searcher
    BY <1>0, <1>10, ChildFailsDoes, ActorsAssumption
  <2> QED BY <1>0, <2>1, <2>2, WorkMovesKeeps
<1>11. ASSUME NEW w \in Workers, ChildEnds(w)
      PROVE  WorkOK'
  <2>1. work[w].at # "idle" /\ WorkMoves(w, "resolve")
    BY <1>0, <1>11, ChildEndsDoes
  <2>2. w # Searcher
    BY <1>0, <1>11, ChildEndsDoes, ActorsAssumption
  <2> QED BY <1>0, <2>1, <2>2, WorkMovesKeeps
<1>12. ASSUME NEW w \in Workers, Answer(w)
      PROVE  WorkOK'
  <2>1. w \in Lookups => w # Searcher
    BY ActorsAssumption
  <2>2. CASE WorkMoves(w, "finish")
    BY <1>0, <1>12, <2>2, AnswerDoes, WorkMovesKeeps
  <2>3. CASE w \in Lookups /\ WorkMoves(w, "resolve")
    BY <1>0, <1>12, <2>1, <2>3, AnswerDoes, WorkMovesKeeps
  <2> QED BY <1>0, <1>12, <2>2, <2>3, AnswerDoes
<1>13. ASSUME NEW w \in Workers, Drop(w)
      PROVE  WorkOK'
  <2>1. work[w].title \in NamesOf(KindOf(w)) /\ work[w].at # "idle"
    BY <1>0, <1>13, DropDoes, InHand
  <2> QED BY <1>0, <1>13, <2>1, DropDoes, WorkMovesKeeps
<1>14. ASSUME NEW w \in Workers, Resolve(w)
      PROVE  WorkOK'
  <2>1. work[w].at # "idle" /\ rows[work[w].id].key \in NamesOf(KindOf(w))
    BY <1>0, <1>14, ResolveDoes, InHand DEF Types, RowsOK
  <2> DEFINE key == rows[work[w].id].key
  <2>2. CASE w = Refresher /\ WorkRenamed(w, "ask", key)
    <3> HIDE DEF key
    <3> QED BY <1>0, <2>1, <2>2, WorkMovesKeeps DEF key
  <2>3. CASE w \in Lookups /\ WorkRenamed(w, "land", key)
    <3> HIDE DEF key
    <3> QED BY <1>0, <2>1, <2>3, WorkMovesKeeps DEF key
  <2> QED BY <1>0, <1>14, <2>2, <2>3, ResolveDoes
<1>15. ASSUME NEW w \in Workers, Land(w)
      PROVE  WorkOK'
  BY <1>0, <1>15, LandDoes, WorkMovesKeeps, ActorsAssumption
<1>16. ASSUME NEW w \in Workers, AskMetadata(w)
      PROVE  WorkOK'
  BY <1>0, <1>16, AskMetadataDoes, WorkMovesKeeps, ActorsAssumption
<1>17. ASSUME NEW w \in Workers, Finish(w)
      PROVE  WorkOK'
  BY <1>0, <1>17, FinishDoes, WorkMovesKeeps, ActorsAssumption
<1>18. ASSUME NEW w \in Workers, Done(w)
      PROVE  WorkOK'
  BY <1>0, <1>18, DoneDoes DEF WorkOK, WorkEnds
<1>19. CASE Recover
  BY <1>0, <1>19, RecoverDoes DEF WorkOK
<1>20. CASE RecoverRow
  BY <1>0, <1>20, RecoverRowDoes DEF WorkOK
<1>21. CASE Recovered
  BY <1>0, <1>21, RecoveredDoes DEF WorkOK
<1>22. ASSUME NEW waitingOnly \in BOOLEAN, ListDue(waitingOnly)
      PROVE  WorkOK'
  BY <1>0, <1>22, ListDueDoes DEF WorkOK
<1>23. CASE RetryRow
  BY <1>0, <1>23, RetryRowDoes DEF WorkOK
<1>24. CASE RetryDue
  BY <1>0, <1>24, RetryDueDoes DEF WorkOK
<1>25. ASSUME NEW old \in Titles, NEW new \in Titles, moveExtinctGroupDependents(old, new)
      PROVE  WorkOK'
  BY <1>0, <1>25, moveExtinctGroupDependentsDoes DEF WorkOK
<1>26. ASSUME NEW t \in Titles, Expire(t)
      PROVE  WorkOK'
  BY <1>0, <1>26, ExpireDoes DEF WorkOK
<1>27. CASE Restart
  BY <1>0, <1>27, RestartDoes, SomeoneIsThere DEF WorkOK
<1>28. CASE UNCHANGED <<vars, history>>
  BY <1>0, <1>28 DEF vars, history, WorkOK
<1> QED
  BY <1>1, <1>2, <1>3, <1>4, <1>5, <1>6, <1>7, <1>8, <1>9, <1>10, <1>11, <1>12, <1>13,
     <1>14, <1>15, <1>16, <1>17, <1>18, <1>19, <1>20, <1>21, <1>22, <1>23, <1>24, <1>25,
     <1>26, <1>27, <1>28
     DEF Next, Enqueue, Run, Schedule, Happens

LEMMA AskStep ==
  ASSUME Types, [Next]_<<vars, history>>
  PROVE  AskOK'
<1>0. Types /\ AskOK
  BY DEF Types
<1>1. ASSUME NEW a \in Askers, AskSave(a)
      PROVE  AskOK'
  BY <1>0, <1>1, AskSaveDoes DEF AskOK, AskMoves, AskEnds, Ask, NamesOf
<1>2. ASSUME NEW a \in Askers, AskSend(a)
      PROVE  AskOK'
  BY <1>0, <1>2, AskSendDoes DEF AskOK, AskMoves, AskEnds, Ask, NamesOf
<1>3. ASSUME NEW a \in Askers, AskFull(a)
      PROVE  AskOK'
  BY <1>0, <1>3, AskFullDoes DEF AskOK, AskMoves, AskEnds, Ask, NamesOf
<1>4. ASSUME NEW a \in Askers, AskGiveUp(a)
      PROVE  AskOK'
  BY <1>0, <1>4, AskGiveUpDoes DEF AskOK, AskMoves, AskEnds, Ask, NamesOf
<1>5. ASSUME NEW c \in Callers, AskSaveFails(c)
      PROVE  AskOK'
  BY <1>0, <1>5, AskSaveFailsDoes DEF AskOK, AskMoves, AskEnds, Ask, NamesOf
<1>6. ASSUME NEW c \in Callers, CallerAsks(c)
      PROVE  AskOK'
  BY <1>0, <1>6, CallerAsksDoes DEF AskOK, MayAsk, AskBegins
<1>7. ASSUME NEW w \in Workers, Take(w)
      PROVE  AskOK'
  BY <1>0, <1>7, TakeDoes DEF AskOK
<1>8. ASSUME NEW w \in Workers, Start(w)
      PROVE  AskOK'
  BY <1>0, <1>8, StartDoes DEF AskOK
<1>9. ASSUME NEW w \in Workers, ChildStart(w)
      PROVE  AskOK'
  BY <1>0, <1>9, ChildStartDoes DEF AskOK
<1>10. ASSUME NEW w \in Workers, ChildFails(w)
      PROVE  AskOK'
  BY <1>0, <1>10, ChildFailsDoes DEF AskOK
<1>11. ASSUME NEW w \in Workers, ChildEnds(w)
      PROVE  AskOK'
  BY <1>0, <1>11, ChildEndsDoes DEF AskOK
<1>12. ASSUME NEW w \in Workers, Answer(w)
      PROVE  AskOK'
  BY <1>0, <1>12, AnswerDoes DEF AskOK
<1>13. ASSUME NEW w \in Workers, Drop(w)
      PROVE  AskOK'
  BY <1>0, <1>13, DropDoes DEF AskOK
<1>14. ASSUME NEW w \in Workers, Resolve(w)
      PROVE  AskOK'
  BY <1>0, <1>14, ResolveDoes DEF AskOK
<1>15. ASSUME NEW w \in Workers, Land(w)
      PROVE  AskOK'
  BY <1>0, <1>15, LandDoes DEF AskOK
<1>16. ASSUME NEW w \in Workers, AskMetadata(w)
      PROVE  AskOK'
  BY <1>0, <1>16, AskMetadataDoes DEF AskOK, MayAsk, AskBegins
<1>17. ASSUME NEW w \in Workers, Finish(w)
      PROVE  AskOK'
  BY <1>0, <1>17, FinishDoes DEF AskOK
<1>18. ASSUME NEW w \in Workers, Done(w)
      PROVE  AskOK'
  BY <1>0, <1>18, DoneDoes DEF AskOK
<1>19. CASE Recover
  BY <1>0, <1>19, RecoverDoes DEF AskOK
<1>20. CASE RecoverRow
  BY <1>0, <1>20, RecoverRowDoes DEF AskOK
<1>21. CASE Recovered
  BY <1>0, <1>21, RecoveredDoes DEF AskOK
<1>22. ASSUME NEW waitingOnly \in BOOLEAN, ListDue(waitingOnly)
      PROVE  AskOK'
  BY <1>0, <1>22, ListDueDoes DEF AskOK
<1>23. CASE RetryRow
  BY <1>0, <1>23, RetryRowDoes DEF AskOK
<1>24. CASE RetryDue
  BY <1>0, <1>24, RetryDueDoes DEF AskOK, MayAsk, AskBegins
<1>25. ASSUME NEW old \in Titles, NEW new \in Titles, moveExtinctGroupDependents(old, new)
      PROVE  AskOK'
  BY <1>0, <1>25, moveExtinctGroupDependentsDoes DEF AskOK
<1>26. ASSUME NEW t \in Titles, Expire(t)
      PROVE  AskOK'
  BY <1>0, <1>26, ExpireDoes DEF AskOK
<1>27. CASE Restart
  BY <1>0, <1>27, RestartDoes, SomeoneIsThere DEF AskOK
<1>28. CASE UNCHANGED <<vars, history>>
  BY <1>0, <1>28 DEF vars, history, AskOK
<1> QED
  BY <1>1, <1>2, <1>3, <1>4, <1>5, <1>6, <1>7, <1>8, <1>9, <1>10, <1>11, <1>12, <1>13,
     <1>14, <1>15, <1>16, <1>17, <1>18, <1>19, <1>20, <1>21, <1>22, <1>23, <1>24, <1>25,
     <1>26, <1>27, <1>28
     DEF Next, Enqueue, Run, Schedule, Happens

LEMMA SchedStep ==
  ASSUME Types, [Next]_<<vars, history>>
  PROVE  SchedOK'
<1>0. Types /\ SchedOK /\ AskOK
  BY DEF Types
<1>1. ASSUME NEW a \in Askers, AskSave(a)
      PROVE  SchedOK'
  BY <1>0, <1>1, AskSaveDoes, ActorsAre DEF SchedOK, AskMoves, AskEnds, MayAsk, AskBegins, SchedTo
<1>2. ASSUME NEW a \in Askers, AskSend(a)
      PROVE  SchedOK'
  BY <1>0, <1>2, AskSendDoes, ActorsAre DEF SchedOK, AskMoves, AskEnds, MayAsk, AskBegins, SchedTo
<1>3. ASSUME NEW a \in Askers, AskFull(a)
      PROVE  SchedOK'
  BY <1>0, <1>3, AskFullDoes, ActorsAre DEF SchedOK, AskMoves, AskEnds, MayAsk, AskBegins, SchedTo
<1>4. ASSUME NEW a \in Askers, AskGiveUp(a)
      PROVE  SchedOK'
  BY <1>0, <1>4, AskGiveUpDoes, ActorsAre DEF SchedOK, AskMoves, AskEnds, MayAsk, AskBegins, SchedTo
<1>5. ASSUME NEW c \in Callers, AskSaveFails(c)
      PROVE  SchedOK'
  BY <1>0, <1>5, AskSaveFailsDoes, ActorsAre DEF SchedOK, AskMoves, AskEnds, MayAsk, AskBegins, SchedTo
<1>6. ASSUME NEW c \in Callers, CallerAsks(c)
      PROVE  SchedOK'
  BY <1>0, <1>6, CallerAsksDoes, ActorsAre DEF SchedOK, AskMoves, AskEnds, MayAsk, AskBegins, SchedTo
<1>7. ASSUME NEW w \in Workers, Take(w)
      PROVE  SchedOK'
  BY <1>0, <1>7, TakeDoes DEF SchedOK
<1>8. ASSUME NEW w \in Workers, Start(w)
      PROVE  SchedOK'
  BY <1>0, <1>8, StartDoes DEF SchedOK
<1>9. ASSUME NEW w \in Workers, ChildStart(w)
      PROVE  SchedOK'
  BY <1>0, <1>9, ChildStartDoes DEF SchedOK
<1>10. ASSUME NEW w \in Workers, ChildFails(w)
      PROVE  SchedOK'
  BY <1>0, <1>10, ChildFailsDoes DEF SchedOK
<1>11. ASSUME NEW w \in Workers, ChildEnds(w)
      PROVE  SchedOK'
  BY <1>0, <1>11, ChildEndsDoes DEF SchedOK
<1>12. ASSUME NEW w \in Workers, Answer(w)
      PROVE  SchedOK'
  BY <1>0, <1>12, AnswerDoes DEF SchedOK
<1>13. ASSUME NEW w \in Workers, Drop(w)
      PROVE  SchedOK'
  BY <1>0, <1>13, DropDoes DEF SchedOK
<1>14. ASSUME NEW w \in Workers, Resolve(w)
      PROVE  SchedOK'
  BY <1>0, <1>14, ResolveDoes DEF SchedOK
<1>15. ASSUME NEW w \in Workers, Land(w)
      PROVE  SchedOK'
  BY <1>0, <1>15, LandDoes DEF SchedOK
<1>16. ASSUME NEW w \in Workers, AskMetadata(w)
      PROVE  SchedOK'
  BY <1>0, <1>16, AskMetadataDoes, ActorsAre DEF SchedOK, AskMoves, AskEnds, MayAsk, AskBegins, SchedTo
<1>17. ASSUME NEW w \in Workers, Finish(w)
      PROVE  SchedOK'
  BY <1>0, <1>17, FinishDoes DEF SchedOK
<1>18. ASSUME NEW w \in Workers, Done(w)
      PROVE  SchedOK'
  BY <1>0, <1>18, DoneDoes DEF SchedOK
<1>19. CASE Recover
  BY <1>0, <1>19, RecoverDoes DEF Types, RowsOK, SchedOK, SchedTo
<1>20. CASE RecoverRow
  BY <1>0, <1>20, RecoverRowDoes DEF SchedOK, SchedTo
<1>21. CASE Recovered
  BY <1>0, <1>21, RecoveredDoes, ActorsAre DEF SchedOK, AskMoves, AskEnds, MayAsk, AskBegins, SchedTo
<1>22. ASSUME NEW waitingOnly \in BOOLEAN, ListDue(waitingOnly)
      PROVE  SchedOK'
  BY <1>0, <1>22, ListDueDoes DEF Types, RowsOK, SchedOK, SchedTo
<1>23. CASE RetryRow
  BY <1>0, <1>23, RetryRowDoes, ActorsAre DEF SchedOK, AskMoves, AskEnds, MayAsk, AskBegins, SchedTo
<1>24. CASE RetryDue
  BY <1>0, <1>24, RetryDueDoes, ActorsAre DEF SchedOK, AskMoves, AskEnds, MayAsk, AskBegins, SchedTo
<1>25. ASSUME NEW old \in Titles, NEW new \in Titles, moveExtinctGroupDependents(old, new)
      PROVE  SchedOK'
  BY <1>0, <1>25, moveExtinctGroupDependentsDoes DEF SchedOK
<1>26. ASSUME NEW t \in Titles, Expire(t)
      PROVE  SchedOK'
  BY <1>0, <1>26, ExpireDoes DEF SchedOK
<1>27. CASE Restart
  BY <1>0, <1>27, RestartDoes DEF SchedOK, SchedTo
<1>28. CASE UNCHANGED <<vars, history>>
  BY <1>0, <1>28 DEF vars, history, SchedOK
<1> QED
  BY <1>1, <1>2, <1>3, <1>4, <1>5, <1>6, <1>7, <1>8, <1>9, <1>10, <1>11, <1>12, <1>13,
     <1>14, <1>15, <1>16, <1>17, <1>18, <1>19, <1>20, <1>21, <1>22, <1>23, <1>24, <1>25,
     <1>26, <1>27, <1>28
     DEF Next, Enqueue, Run, Schedule, Happens
LEMMA TypesStep ==
  ASSUME Types, [Next]_<<vars, history>>
  PROVE  Types'
BY RowsStep, CatalogStep, QueuesStep, WorkStep, AskStep, SchedStep DEF Types

LEMMA AliveShrinks ==
  ASSUME Types, [Next]_<<vars, history>>
  PROVE  alive' \subseteq alive
<1>1. CASE Next
  BY <1>1 DEF Next, Enqueue, Run, Schedule, Happens, AskSave, AskSend, AskFull, AskGiveUp, AskSaveFails,
     CallerAsks, Take, Start, ChildStart, ChildFails, ChildEnds, Answer, Drop, Resolve, Land,
     AskMetadata, Finish, Done, Recover, RecoverRow, Recovered, ListDue, RetryRow, RetryDue,
     moveExtinctGroupDependents, Expire, Restart, catalog
<1>2. CASE UNCHANGED <<vars, history>>
  BY <1>2 DEF vars
<1> QED BY <1>1, <1>2

(* Until titles merge, the keys stay as they are.                          *)
LEMMA KeysStep ==
  ASSUME Types, Untouched, alive' = Titles, [Next]_<<vars, history>>
  PROVE  \A i \in Ids : rows'[i].key = i[2]
<1>0. /\ Types /\ Untouched /\ alive = Titles
      /\ \A id \in Ids : rows[id].key = id[2]
      /\ \A s \in sched.list : s.id \in Ids /\ s.row.key = s.id[2]
      /\ \A w \in Workers : work[w].at # "idle" => work[w].key = work[w].title
  BY AliveShrinks DEF Types, Untouched, CatalogOK, SchedOK, Snapshot
<1>1. ASSUME NEW a \in Askers, AskSave(a)
      PROVE  \A i \in Ids : rows'[i].key = i[2]
  <2> DEFINE id == <<ask[a].kind, ask[a].title>>
  <2>1. id \in Ids /\ id[2] = ask[a].title
    BY <1>1, AskSaveDoes, IdsAre DEF Types, AskOK
  <2>2. Saves(id, id[2], "queued")
    BY <1>1, <2>1, AskSaveDoes
  <2> HIDE DEF id
  <2> QED BY <1>0, <2>1, <2>2, SavesKeepKeys DEF Types
<1>2. ASSUME NEW a \in Askers, AskSend(a)
      PROVE  \A i \in Ids : rows'[i].key = i[2]
  BY <1>0, <1>2, AskSendDoes
<1>3. ASSUME NEW a \in Askers, AskFull(a)
      PROVE  \A i \in Ids : rows'[i].key = i[2]
  BY <1>0, <1>3, AskFullDoes
<1>4. ASSUME NEW a \in Askers, AskGiveUp(a)
      PROVE  \A i \in Ids : rows'[i].key = i[2]
  <2> DEFINE id == <<ask[a].kind, ask[a].title>>
  <2>1. id \in Ids /\ id[2] = ask[a].title
    BY <1>4, AskGiveUpDoes, IdsAre DEF Types, AskOK
  <2>2. Saves(id, id[2], "failed") \/ UNCHANGED rows
    BY <1>4, <2>1, AskGiveUpDoes
  <2> HIDE DEF id
  <2> QED BY <1>0, <2>1, <2>2, SavesKeepKeys DEF Types
<1>5. ASSUME NEW c \in Callers, AskSaveFails(c)
      PROVE  \A i \in Ids : rows'[i].key = i[2]
  BY <1>0, <1>5, AskSaveFailsDoes
<1>6. ASSUME NEW c \in Callers, CallerAsks(c)
      PROVE  \A i \in Ids : rows'[i].key = i[2]
  BY <1>0, <1>6, CallerAsksDoes
<1>7. ASSUME NEW w \in Workers, Take(w)
      PROVE  \A i \in Ids : rows'[i].key = i[2]
  BY <1>0, <1>7, TakeDoes
<1>8. ASSUME NEW w \in Workers, Start(w)
      PROVE  \A i \in Ids : rows'[i].key = i[2]
  <2>1. work[w].id \in Ids /\ work[w].id[2] = work[w].key
    BY <1>0, <1>8, StartDoes, InHand
  <2>2. Saves(work[w].id, work[w].id[2], "running")
    BY <1>8, <2>1, StartDoes
  <2> QED BY <1>0, <2>1, <2>2, SavesKeepKeys DEF Types
<1>9. ASSUME NEW w \in Workers, ChildStart(w)
      PROVE  \A i \in Ids : rows'[i].key = i[2]
  <2> DEFINE id == <<"child", work[w].title>>
  <2>1. id \in Ids /\ id[2] = work[w].title
    BY <1>9, ChildStartDoes, InHand
  <2>3. id[2] = rows[id].key
    BY <1>0, <2>1
  <2>2. (\E state : Saves(id, id[2], state)) \/ UNCHANGED rows
    <3> HIDE DEF id
    <3> QED BY <1>9, <2>1, <2>3, ChildStartDoes DEF SavesDone, id
  <2> HIDE DEF id
  <2> QED BY <1>0, <2>1, <2>2, SavesKeepKeys DEF Types
<1>10. ASSUME NEW w \in Workers, ChildFails(w)
      PROVE  \A i \in Ids : rows'[i].key = i[2]
  <2> DEFINE id == <<"child", work[w].title>>
  <2>1. id \in Ids /\ id[2] = work[w].title
    BY <1>10, ChildFailsDoes, InHand
  <2>3. id[2] = rows[id].key
    BY <1>0, <2>1
  <2>2. (\E state : Saves(id, id[2], state)) \/ UNCHANGED rows
    <3> HIDE DEF id
    <3> QED BY <1>10, <2>1, <2>3, ChildFailsDoes DEF SavesDone, id
  <2> HIDE DEF id
  <2> QED BY <1>0, <2>1, <2>2, SavesKeepKeys DEF Types
<1>11. ASSUME NEW w \in Workers, ChildEnds(w)
      PROVE  \A i \in Ids : rows'[i].key = i[2]
  <2> DEFINE id == <<"child", work[w].title>>
  <2>1. id \in Ids /\ id[2] = work[w].title
    BY <1>11, ChildEndsDoes, InHand
  <2>3. id[2] = rows[id].key
    BY <1>0, <2>1
  <2>2. (\E state : Saves(id, id[2], state)) \/ UNCHANGED rows
    <3> HIDE DEF id
    <3> QED BY <1>11, <2>1, <2>3, ChildEndsDoes DEF SavesDone, id
  <2> HIDE DEF id
  <2> QED BY <1>0, <2>1, <2>2, SavesKeepKeys DEF Types
<1>12. ASSUME NEW w \in Workers, Answer(w)
      PROVE  \A i \in Ids : rows'[i].key = i[2]
  BY <1>0, <1>12, AnswerDoes
<1>13. ASSUME NEW w \in Workers, Drop(w)
      PROVE  \A i \in Ids : rows'[i].key = i[2]
  BY <1>0, <1>13, DropDoes
<1>14. ASSUME NEW w \in Workers, Resolve(w)
      PROVE  \A i \in Ids : rows'[i].key = i[2]
  BY <1>0, <1>14, ResolveDoes
<1>15. ASSUME NEW w \in Workers, Land(w)
      PROVE  \A i \in Ids : rows'[i].key = i[2]
  BY <1>0, <1>15, LandDoes
<1>16. ASSUME NEW w \in Workers, AskMetadata(w)
      PROVE  \A i \in Ids : rows'[i].key = i[2]
  BY <1>0, <1>16, AskMetadataDoes
<1>17. ASSUME NEW w \in Workers, Finish(w)
      PROVE  \A i \in Ids : rows'[i].key = i[2]
  <2>1. work[w].id \in Ids /\ work[w].id[2] = work[w].key
    BY <1>0, <1>17, FinishDoes, InHand
  <2>2. \E state : Saves(work[w].id, work[w].id[2], state)
    BY <1>17, <2>1, FinishDoes DEF SavesDone
  <2> QED BY <1>0, <2>1, <2>2, SavesKeepKeys DEF Types
<1>18. ASSUME NEW w \in Workers, Done(w)
      PROVE  \A i \in Ids : rows'[i].key = i[2]
  BY <1>0, <1>18, DoneDoes
<1>19. CASE Recover
  BY <1>0, <1>19, RecoverDoes
<1>20. CASE RecoverRow
  <2>1. UNCHANGED rows \/ \E s \in sched.list : \E state : Saves(s.id, s.id[2], state)
    BY <1>0, <1>20, RecoverRowDoes
  <2> QED BY <1>0, <2>1, SavesKeepKeys DEF Types
<1>21. CASE Recovered
  BY <1>0, <1>21, RecoveredDoes
<1>22. ASSUME NEW waitingOnly \in BOOLEAN, ListDue(waitingOnly)
      PROVE  \A i \in Ids : rows'[i].key = i[2]
  BY <1>0, <1>22, ListDueDoes
<1>23. CASE RetryRow
  <2>1. UNCHANGED rows \/ \E s \in sched.list : \E state : Saves(s.id, s.id[2], state)
    BY <1>0, <1>23, RetryRowDoes
  <2> QED BY <1>0, <2>1, SavesKeepKeys DEF Types
<1>24. CASE RetryDue
  BY <1>0, <1>24, RetryDueDoes
<1>25. ASSUME NEW old \in Titles, NEW new \in Titles, moveExtinctGroupDependents(old, new)
      PROVE  \A i \in Ids : rows'[i].key = i[2]
  BY <1>0, <1>25, moveExtinctGroupDependentsDoes
<1>26. ASSUME NEW t \in Titles, Expire(t)
      PROVE  \A i \in Ids : rows'[i].key = i[2]
  BY <1>0, <1>26, ExpireDoes
<1>27. CASE Restart
  BY <1>0, <1>27, RestartDoes
<1>28. CASE UNCHANGED <<vars, history>>
  BY <1>0, <1>28 DEF vars, history
<1> QED
  BY <1>1, <1>2, <1>3, <1>4, <1>5, <1>6, <1>7, <1>8, <1>9, <1>10, <1>11, <1>12, <1>13,
     <1>14, <1>15, <1>16, <1>17, <1>18, <1>19, <1>20, <1>21, <1>22, <1>23, <1>24, <1>25,
     <1>26, <1>27, <1>28
     DEF Next, Enqueue, Run, Schedule, Happens

LEMMA ListedStep ==
  ASSUME Types, Untouched, alive' = Titles, [Next]_<<vars, history>>
  PROVE  \A s \in sched'.list : s.row.key = s.id[2]
<1>0. /\ Types /\ Untouched /\ alive = Titles
      /\ \A id \in Ids : rows[id].key = id[2]
      /\ \A s \in sched.list : s.id \in Ids /\ s.row.key = s.id[2]
      /\ \A w \in Workers : work[w].at # "idle" => work[w].key = work[w].title
  BY AliveShrinks DEF Types, Untouched, CatalogOK, SchedOK, Snapshot
<1>1. ASSUME NEW a \in Askers, AskSave(a)
      PROVE  \A s \in sched'.list : s.row.key = s.id[2]
  BY <1>0, <1>1, AskSaveDoes DEF SchedTo
<1>2. ASSUME NEW a \in Askers, AskSend(a)
      PROVE  \A s \in sched'.list : s.row.key = s.id[2]
  BY <1>0, <1>2, AskSendDoes DEF SchedTo
<1>3. ASSUME NEW a \in Askers, AskFull(a)
      PROVE  \A s \in sched'.list : s.row.key = s.id[2]
  BY <1>0, <1>3, AskFullDoes DEF SchedTo
<1>4. ASSUME NEW a \in Askers, AskGiveUp(a)
      PROVE  \A s \in sched'.list : s.row.key = s.id[2]
  BY <1>0, <1>4, AskGiveUpDoes DEF SchedTo
<1>5. ASSUME NEW c \in Callers, AskSaveFails(c)
      PROVE  \A s \in sched'.list : s.row.key = s.id[2]
  BY <1>0, <1>5, AskSaveFailsDoes DEF SchedTo
<1>6. ASSUME NEW c \in Callers, CallerAsks(c)
      PROVE  \A s \in sched'.list : s.row.key = s.id[2]
  BY <1>0, <1>6, CallerAsksDoes DEF SchedTo
<1>7. ASSUME NEW w \in Workers, Take(w)
      PROVE  \A s \in sched'.list : s.row.key = s.id[2]
  BY <1>0, <1>7, TakeDoes DEF SchedTo
<1>8. ASSUME NEW w \in Workers, Start(w)
      PROVE  \A s \in sched'.list : s.row.key = s.id[2]
  BY <1>0, <1>8, StartDoes DEF SchedTo
<1>9. ASSUME NEW w \in Workers, ChildStart(w)
      PROVE  \A s \in sched'.list : s.row.key = s.id[2]
  BY <1>0, <1>9, ChildStartDoes DEF SchedTo
<1>10. ASSUME NEW w \in Workers, ChildFails(w)
      PROVE  \A s \in sched'.list : s.row.key = s.id[2]
  BY <1>0, <1>10, ChildFailsDoes DEF SchedTo
<1>11. ASSUME NEW w \in Workers, ChildEnds(w)
      PROVE  \A s \in sched'.list : s.row.key = s.id[2]
  BY <1>0, <1>11, ChildEndsDoes DEF SchedTo
<1>12. ASSUME NEW w \in Workers, Answer(w)
      PROVE  \A s \in sched'.list : s.row.key = s.id[2]
  BY <1>0, <1>12, AnswerDoes DEF SchedTo
<1>13. ASSUME NEW w \in Workers, Drop(w)
      PROVE  \A s \in sched'.list : s.row.key = s.id[2]
  BY <1>0, <1>13, DropDoes DEF SchedTo
<1>14. ASSUME NEW w \in Workers, Resolve(w)
      PROVE  \A s \in sched'.list : s.row.key = s.id[2]
  BY <1>0, <1>14, ResolveDoes DEF SchedTo
<1>15. ASSUME NEW w \in Workers, Land(w)
      PROVE  \A s \in sched'.list : s.row.key = s.id[2]
  BY <1>0, <1>15, LandDoes DEF SchedTo
<1>16. ASSUME NEW w \in Workers, AskMetadata(w)
      PROVE  \A s \in sched'.list : s.row.key = s.id[2]
  BY <1>0, <1>16, AskMetadataDoes DEF SchedTo
<1>17. ASSUME NEW w \in Workers, Finish(w)
      PROVE  \A s \in sched'.list : s.row.key = s.id[2]
  BY <1>0, <1>17, FinishDoes DEF SchedTo
<1>18. ASSUME NEW w \in Workers, Done(w)
      PROVE  \A s \in sched'.list : s.row.key = s.id[2]
  BY <1>0, <1>18, DoneDoes DEF SchedTo
<1>19. CASE Recover
  BY <1>0, <1>19, RecoverDoes DEF SchedTo
<1>20. CASE RecoverRow
  BY <1>0, <1>20, RecoverRowDoes DEF SchedTo
<1>21. CASE Recovered
  BY <1>0, <1>21, RecoveredDoes DEF SchedTo
<1>22. ASSUME NEW waitingOnly \in BOOLEAN, ListDue(waitingOnly)
      PROVE  \A s \in sched'.list : s.row.key = s.id[2]
  BY <1>0, <1>22, ListDueDoes DEF SchedTo
<1>23. CASE RetryRow
  BY <1>0, <1>23, RetryRowDoes DEF SchedTo
<1>24. CASE RetryDue
  BY <1>0, <1>24, RetryDueDoes DEF SchedTo
<1>25. ASSUME NEW old \in Titles, NEW new \in Titles, moveExtinctGroupDependents(old, new)
      PROVE  \A s \in sched'.list : s.row.key = s.id[2]
  BY <1>0, <1>25, moveExtinctGroupDependentsDoes DEF SchedTo
<1>26. ASSUME NEW t \in Titles, Expire(t)
      PROVE  \A s \in sched'.list : s.row.key = s.id[2]
  BY <1>0, <1>26, ExpireDoes DEF SchedTo
<1>27. CASE Restart
  BY <1>0, <1>27, RestartDoes DEF SchedTo
<1>28. CASE UNCHANGED <<vars, history>>
  BY <1>0, <1>28 DEF vars, history, SchedTo
<1> QED
  BY <1>1, <1>2, <1>3, <1>4, <1>5, <1>6, <1>7, <1>8, <1>9, <1>10, <1>11, <1>12, <1>13,
     <1>14, <1>15, <1>16, <1>17, <1>18, <1>19, <1>20, <1>21, <1>22, <1>23, <1>24, <1>25,
     <1>26, <1>27, <1>28
     DEF Next, Enqueue, Run, Schedule, Happens

LEMMA NamedStep ==
  ASSUME Types, Untouched, alive' = Titles, [Next]_<<vars, history>>
  PROVE  \A v \in Workers : work'[v].at # "idle" => work'[v].key = work'[v].title
<1>0. /\ Types /\ Untouched /\ alive = Titles
      /\ \A id \in Ids : rows[id].key = id[2]
      /\ \A s \in sched.list : s.id \in Ids /\ s.row.key = s.id[2]
      /\ \A w \in Workers : work[w].at # "idle" => work[w].key = work[w].title
  BY AliveShrinks DEF Types, Untouched, CatalogOK, SchedOK, Snapshot
<1>1. ASSUME NEW a \in Askers, AskSave(a)
      PROVE  \A v \in Workers : work'[v].at # "idle" => work'[v].key = work'[v].title
  BY <1>0, <1>1, AskSaveDoes
<1>2. ASSUME NEW a \in Askers, AskSend(a)
      PROVE  \A v \in Workers : work'[v].at # "idle" => work'[v].key = work'[v].title
  BY <1>0, <1>2, AskSendDoes
<1>3. ASSUME NEW a \in Askers, AskFull(a)
      PROVE  \A v \in Workers : work'[v].at # "idle" => work'[v].key = work'[v].title
  BY <1>0, <1>3, AskFullDoes
<1>4. ASSUME NEW a \in Askers, AskGiveUp(a)
      PROVE  \A v \in Workers : work'[v].at # "idle" => work'[v].key = work'[v].title
  BY <1>0, <1>4, AskGiveUpDoes
<1>5. ASSUME NEW c \in Callers, AskSaveFails(c)
      PROVE  \A v \in Workers : work'[v].at # "idle" => work'[v].key = work'[v].title
  BY <1>0, <1>5, AskSaveFailsDoes
<1>6. ASSUME NEW c \in Callers, CallerAsks(c)
      PROVE  \A v \in Workers : work'[v].at # "idle" => work'[v].key = work'[v].title
  BY <1>0, <1>6, CallerAsksDoes
<1>7. ASSUME NEW w \in Workers, Take(w)
      PROVE  \A v \in Workers : work'[v].at # "idle" => work'[v].key = work'[v].title
  <2> DEFINE n == queues[KindOf(w)][1].title
             id == <<KindOf(w), n>>
  <2>1. WorkTakes(w, n)
    BY <1>0, <1>7, TakeDoes
  <2>2. id \in Ids /\ id[2] = n
    BY <2>1, ActorsAre, IdsAre DEF WorkTakes
  <2>3. rows[id].key = n
    BY <1>0, <2>2
  <2> HIDE DEF n
  <2> QED BY <1>0, <2>1, <2>3 DEF WorkTakes
<1>8. ASSUME NEW w \in Workers, Start(w)
      PROVE  \A v \in Workers : work'[v].at # "idle" => work'[v].key = work'[v].title
  BY <1>0, <1>8, StartDoes DEF WorkMoves
<1>9. ASSUME NEW w \in Workers, ChildStart(w)
      PROVE  \A v \in Workers : work'[v].at # "idle" => work'[v].key = work'[v].title
  <2>1. (\E at : WorkMoves(w, at)) /\ work[w].at # "idle"
    BY <1>0, <1>9, ChildStartDoes
  <2> QED BY <1>0, <2>1 DEF WorkMoves
<1>10. ASSUME NEW w \in Workers, ChildFails(w)
      PROVE  \A v \in Workers : work'[v].at # "idle" => work'[v].key = work'[v].title
  <2>1. (\E at : WorkMoves(w, at)) /\ work[w].at # "idle"
    BY <1>0, <1>10, ChildFailsDoes
  <2> QED BY <1>0, <2>1 DEF WorkMoves
<1>11. ASSUME NEW w \in Workers, ChildEnds(w)
      PROVE  \A v \in Workers : work'[v].at # "idle" => work'[v].key = work'[v].title
  <2>1. (\E at : WorkMoves(w, at)) /\ work[w].at # "idle"
    BY <1>0, <1>11, ChildEndsDoes
  <2> QED BY <1>0, <2>1 DEF WorkMoves
<1>12. ASSUME NEW w \in Workers, Answer(w)
      PROVE  \A v \in Workers : work'[v].at # "idle" => work'[v].key = work'[v].title
  BY <1>0, <1>12, AnswerDoes DEF WorkMoves
<1>13. ASSUME NEW w \in Workers, Drop(w)
      PROVE  \A v \in Workers : work'[v].at # "idle" => work'[v].key = work'[v].title
  BY <1>0, <1>13, DropDoes DEF WorkRenamed
<1>14. ASSUME NEW w \in Workers, Resolve(w)
      PROVE  \A v \in Workers : work'[v].at # "idle" => work'[v].key = work'[v].title
  <2>1. work[w].id \in Ids /\ work[w].id[2] = work[w].title
    BY <1>0, <1>14, ResolveDoes, InHand
  <2>2. rows[work[w].id].key = work[w].title
    BY <1>0, <2>1
  <2> QED BY <1>0, <1>14, <2>2, ResolveDoes DEF WorkRenamed
<1>15. ASSUME NEW w \in Workers, Land(w)
      PROVE  \A v \in Workers : work'[v].at # "idle" => work'[v].key = work'[v].title
  BY <1>0, <1>15, LandDoes DEF WorkMoves
<1>16. ASSUME NEW w \in Workers, AskMetadata(w)
      PROVE  \A v \in Workers : work'[v].at # "idle" => work'[v].key = work'[v].title
  BY <1>0, <1>16, AskMetadataDoes DEF WorkMoves
<1>17. ASSUME NEW w \in Workers, Finish(w)
      PROVE  \A v \in Workers : work'[v].at # "idle" => work'[v].key = work'[v].title
  BY <1>0, <1>17, FinishDoes DEF WorkMoves
<1>18. ASSUME NEW w \in Workers, Done(w)
      PROVE  \A v \in Workers : work'[v].at # "idle" => work'[v].key = work'[v].title
  BY <1>0, <1>18, DoneDoes DEF WorkEnds
<1>19. CASE Recover
  BY <1>0, <1>19, RecoverDoes
<1>20. CASE RecoverRow
  BY <1>0, <1>20, RecoverRowDoes
<1>21. CASE Recovered
  BY <1>0, <1>21, RecoveredDoes
<1>22. ASSUME NEW waitingOnly \in BOOLEAN, ListDue(waitingOnly)
      PROVE  \A v \in Workers : work'[v].at # "idle" => work'[v].key = work'[v].title
  BY <1>0, <1>22, ListDueDoes
<1>23. CASE RetryRow
  BY <1>0, <1>23, RetryRowDoes
<1>24. CASE RetryDue
  BY <1>0, <1>24, RetryDueDoes
<1>25. ASSUME NEW old \in Titles, NEW new \in Titles, moveExtinctGroupDependents(old, new)
      PROVE  \A v \in Workers : work'[v].at # "idle" => work'[v].key = work'[v].title
  BY <1>0, <1>25, moveExtinctGroupDependentsDoes
<1>26. ASSUME NEW t \in Titles, Expire(t)
      PROVE  \A v \in Workers : work'[v].at # "idle" => work'[v].key = work'[v].title
  BY <1>0, <1>26, ExpireDoes
<1>27. CASE Restart
  BY <1>0, <1>27, RestartDoes, SomeoneIsThere
<1>28. CASE UNCHANGED <<vars, history>>
  BY <1>0, <1>28 DEF vars, history
<1> QED
  BY <1>1, <1>2, <1>3, <1>4, <1>5, <1>6, <1>7, <1>8, <1>9, <1>10, <1>11, <1>12, <1>13,
     <1>14, <1>15, <1>16, <1>17, <1>18, <1>19, <1>20, <1>21, <1>22, <1>23, <1>24, <1>25,
     <1>26, <1>27, <1>28
     DEF Next, Enqueue, Run, Schedule, Happens

(* The marks: a request stays where it is, goes on, comes or ends.         *)
LEMMA RequestsStay ==
  ASSUME NEW t, MarkedIsOnItsWay(t), OnlyOnce(t), t \in pending <=> t \in pending',
         \A a \in Askers : AskHas(a, t)' <=> AskHas(a, t), Places' = Places,
         \A i \in Places : QueueHas(i, t)' <=> QueueHas(i, t),
         \A w \in Lookups : WorkHas(w, t)' <=> WorkHas(w, t)
  PROVE  (MarkedIsOnItsWay(t) /\ OnlyOnce(t))'
BY DEF MarkedIsOnItsWay, OnlyOnce

LEMMA RequestComes ==
  ASSUME NEW t, NEW a \in Askers, MarkedIsOnItsWay(t), OnlyOnce(t), t \notin pending, t \in pending',
         AskHas(a, t)', \A b \in Askers \ {a} : AskHas(b, t)' <=> AskHas(b, t), Places' = Places,
         \A i \in Places : QueueHas(i, t)' <=> QueueHas(i, t),
         \A w \in Lookups : WorkHas(w, t)' <=> WorkHas(w, t)
  PROVE  (MarkedIsOnItsWay(t) /\ OnlyOnce(t))'
BY DEF MarkedIsOnItsWay, OnlyOnce

LEMMA RequestLeaves ==
  ASSUME NEW t, NEW a \in Askers, MarkedIsOnItsWay(t), OnlyOnce(t), AskHas(a, t), t \notin pending',
         ~AskHas(a, t)', \A b \in Askers \ {a} : AskHas(b, t)' <=> AskHas(b, t), Places' = Places,
         \A i \in Places : QueueHas(i, t)' <=> QueueHas(i, t),
         \A w \in Lookups : WorkHas(w, t)' <=> WorkHas(w, t)
  PROVE  (MarkedIsOnItsWay(t) /\ OnlyOnce(t))'
BY DEF MarkedIsOnItsWay, OnlyOnce

LEMMA RequestQueues ==
  ASSUME NEW t, NEW a \in Askers, MarkedIsOnItsWay(t), OnlyOnce(t), AskHas(a, t), ~AskHas(a, t)',
         \A b \in Askers \ {a} : AskHas(b, t)' <=> AskHas(b, t), t \in pending <=> t \in pending',
         NEW n \in Nat, Places = 1 .. n, Places' = 1 .. n + 1, QueueHas(n + 1, t)',
         \A i \in Places : QueueHas(i, t)' <=> QueueHas(i, t),
         \A w \in Lookups : WorkHas(w, t)' <=> WorkHas(w, t)
  PROVE  (MarkedIsOnItsWay(t) /\ OnlyOnce(t))'
<1>1. Places' = Places \cup {n + 1} /\ n + 1 \notin Places
  OBVIOUS
<1> QED BY <1>1 DEF MarkedIsOnItsWay, OnlyOnce

LEMMA OtherQueues ==
  ASSUME NEW t, MarkedIsOnItsWay(t), OnlyOnce(t), t \in pending <=> t \in pending',
         \A b \in Askers : AskHas(b, t)' <=> AskHas(b, t),
         NEW n \in Nat, Places = 1 .. n, Places' = 1 .. n + 1, ~QueueHas(n + 1, t)',
         \A i \in Places : QueueHas(i, t)' <=> QueueHas(i, t),
         \A w \in Lookups : WorkHas(w, t)' <=> WorkHas(w, t)
  PROVE  (MarkedIsOnItsWay(t) /\ OnlyOnce(t))'
<1>1. Places' = Places \cup {n + 1} /\ n + 1 \notin Places
  OBVIOUS
<1> QED BY <1>1 DEF MarkedIsOnItsWay, OnlyOnce

LEMMA RequestIsTaken ==
  ASSUME NEW t, NEW w \in Lookups, MarkedIsOnItsWay(t), OnlyOnce(t), t \in pending <=> t \in pending',
         \A a \in Askers : AskHas(a, t)' <=> AskHas(a, t),
         NEW n \in Nat, Places = 1 .. n + 1, Places' = 1 .. n,
         \A i \in 1 .. n : QueueHas(i, t)' <=> QueueHas(i + 1, t),
         ~WorkHas(w, t), WorkHas(w, t)' <=> QueueHas(1, t),
         \A v \in Lookups \ {w} : WorkHas(v, t)' <=> WorkHas(v, t)
  PROVE  (MarkedIsOnItsWay(t) /\ OnlyOnce(t))'
<1>1. 1 \in Places /\ \A i \in 1 .. n : i + 1 \in Places /\ i + 1 # 1
  OBVIOUS
<1>2. ASSUME NEW i \in Places, i # 1
      PROVE  i - 1 \in 1 .. n /\ i = (i - 1) + 1
  BY <1>2
<1>3. (\E i \in Places : QueueHas(i, t)) <=> QueueHas(1, t) \/ \E i \in Places' : QueueHas(i, t)'
  BY <1>1, <1>2
<1>4. MarkedIsOnItsWay(t)'
  BY <1>3 DEF MarkedIsOnItsWay
<1>5. \A i, j \in Places' : QueueHas(i, t)' /\ QueueHas(j, t)' => i = j
  BY <1>1 DEF OnlyOnce
<1>6. \A i \in Places' : QueueHas(i, t)' => ~QueueHas(1, t)
  BY <1>1 DEF OnlyOnce
<1>7. OnlyOnce(t)'
  BY <1>1, <1>5, <1>6 DEF OnlyOnce
<1> QED BY <1>4, <1>7

LEMMA RequestEnds ==
  ASSUME NEW t, NEW w \in Lookups, MarkedIsOnItsWay(t), OnlyOnce(t), WorkHas(w, t), t \notin pending',
         ~WorkHas(w, t)', \A v \in Lookups \ {w} : WorkHas(v, t)' <=> WorkHas(v, t),
         Places' = Places, \A i \in Places : QueueHas(i, t)' <=> QueueHas(i, t),
         \A a \in Askers : AskHas(a, t)' <=> AskHas(a, t)
  PROVE  (MarkedIsOnItsWay(t) /\ OnlyOnce(t))'
BY DEF MarkedIsOnItsWay, OnlyOnce
LEMMA MarksStep ==
  ASSUME Types, Untouched, NEW u \in Titles, MarkedIsOnItsWay(u), OnlyOnce(u), [Next]_<<vars, history>>
  PROVE  (MarkedIsOnItsWay(u) /\ OnlyOnce(u))'
<1>0. Types /\ Untouched /\ MarkedIsOnItsWay(u) /\ OnlyOnce(u) /\ "metadata" \in QueueKinds
  BY DEF QueueKinds
<1>1. ASSUME NEW a \in Askers, AskSave(a)
      PROVE  (MarkedIsOnItsWay(u) /\ OnlyOnce(u))'
  <2>1. \A b \in Askers : AskHas(b, u)' <=> AskHas(b, u)
    BY <1>1, AskSaveDoes DEF AskHas, AskMoves
  <2> QED BY <1>0, <1>1, <2>1, AskSaveDoes, RequestsStay DEF QueueHas, WorkHas, Places
<1>2. ASSUME NEW a \in Askers, AskSend(a)
      PROVE  (MarkedIsOnItsWay(u) /\ OnlyOnce(u))'
  <2>1. /\ ~AskHas(a, u)' /\ \A b \in Askers \ {a} : AskHas(b, u)' <=> AskHas(b, u)
        /\ AskHas(a, u) <=> ask[a].kind = "metadata" /\ ask[a].title = u
    BY <1>2, AskSendDoes DEF AskHas, AskEnds
  <2>2. \A w \in Lookups : WorkHas(w, u)' <=> WorkHas(w, u)
    BY <1>2, AskSendDoes DEF WorkHas
  <2>3. pending' = pending
    BY <1>2, AskSendDoes
  <2>4. PICK n \in Nat : n = Len(queues["metadata"])
    BY <1>0 DEF Types, QueuesOK
  <2>5. CASE ask[a].kind = "metadata"
    <3>1. Receives("metadata", ask[a].title)
      BY <1>2, <2>5, AskSendDoes
    <3>2. Places = 1 .. n /\ Places' = 1 .. n + 1
      BY <2>4, <3>1 DEF Receives, Places
    <3>3. \A i \in Places : QueueHas(i, u)' <=> QueueHas(i, u)
      BY <2>4, <3>1, <3>2 DEF Receives, QueueHas
    <3>4. QueueHas(n + 1, u)' <=> ask[a].title = u
      BY <2>4, <3>1 DEF Receives, QueueHas
    <3>5. u \in pending <=> u \in pending'
      BY <2>3
    <3>6. CASE AskHas(a, u)
      <4>1. QueueHas(n + 1, u)'
        BY <2>1, <3>4, <3>6
      <4>2. ~AskHas(a, u)' /\ \A b \in Askers \ {a} : AskHas(b, u)' <=> AskHas(b, u)
        BY <2>1
      <4> QED BY <1>0, <2>2, <2>4, <3>2, <3>3, <3>5, <3>6, <4>1, <4>2, RequestQueues
    <3>7. CASE ~AskHas(a, u)
      <4>1. \A b \in Askers : AskHas(b, u)' <=> AskHas(b, u)
        BY <2>1, <3>7
      <4>2. ~QueueHas(n + 1, u)'
        BY <2>1, <2>5, <3>4, <3>7
      <4> QED BY <1>0, <2>2, <2>4, <3>2, <3>3, <3>5, <4>1, <4>2, OtherQueues
    <3> QED BY <3>6, <3>7
  <2>6. CASE ask[a].kind # "metadata"
    <3>1. queues'["metadata"] = queues["metadata"]
      BY <1>0, <1>2, <2>6, AskSendDoes DEF Receives
    <3>2. \A b \in Askers : AskHas(b, u)' <=> AskHas(b, u)
      BY <2>1, <2>6
    <3> QED BY <1>0, <2>2, <2>3, <3>1, <3>2, RequestsStay DEF QueueHas, Places
  <2> QED BY <2>5, <2>6
<1>3. ASSUME NEW a \in Askers, AskFull(a)
      PROVE  (MarkedIsOnItsWay(u) /\ OnlyOnce(u))'
  <2>1. /\ ~AskHas(a, u)' /\ \A b \in Askers \ {a} : AskHas(b, u)' <=> AskHas(b, u)
        /\ AskHas(a, u) <=> ask[a].kind = "metadata" /\ ask[a].title = u
        /\ a \in Askers
    BY <1>3, AskFullDoes, ActorsAre DEF AskHas, AskMoves
  <2>2. IF AskHas(a, u) THEN pending' = pending \ {u} ELSE u \in pending <=> u \in pending'
    BY <1>3, <2>1, AskFullDoes DEF Forget
  <2>3. CASE AskHas(a, u)
    BY <1>0, <1>3, <2>1, <2>2, <2>3, AskFullDoes, RequestLeaves DEF QueueHas, WorkHas, Places
  <2>4. CASE ~AskHas(a, u)
    <3>1. \A b \in Askers : AskHas(b, u)' <=> AskHas(b, u)
      BY <2>1, <2>4
    <3> QED BY <1>0, <1>3, <2>2, <2>4, <3>1, AskFullDoes, RequestsStay DEF QueueHas, WorkHas, Places
  <2> QED BY <2>3, <2>4
<1>4. ASSUME NEW a \in Askers, AskGiveUp(a)
      PROVE  (MarkedIsOnItsWay(u) /\ OnlyOnce(u))'
  <2>1. \A b \in Askers : AskHas(b, u)' <=> AskHas(b, u)
    BY <1>4, AskGiveUpDoes DEF AskHas, AskEnds
  <2> QED BY <1>0, <1>4, <2>1, AskGiveUpDoes, RequestsStay DEF QueueHas, WorkHas, Places
<1>5. ASSUME NEW c \in Callers, AskSaveFails(c)
      PROVE  (MarkedIsOnItsWay(u) /\ OnlyOnce(u))'
  <2>1. /\ ~AskHas(c, u)' /\ \A b \in Askers \ {c} : AskHas(b, u)' <=> AskHas(b, u)
        /\ AskHas(c, u) <=> ask[c].kind = "metadata" /\ ask[c].title = u
        /\ c \in Askers
    BY <1>5, AskSaveFailsDoes, ActorsAre DEF AskHas, AskEnds
  <2>2. IF AskHas(c, u) THEN pending' = pending \ {u} ELSE u \in pending <=> u \in pending'
    BY <1>5, <2>1, AskSaveFailsDoes DEF Forget
  <2>3. CASE AskHas(c, u)
    BY <1>0, <1>5, <2>1, <2>2, <2>3, AskSaveFailsDoes, RequestLeaves DEF QueueHas, WorkHas, Places
  <2>4. CASE ~AskHas(c, u)
    <3>1. \A b \in Askers : AskHas(b, u)' <=> AskHas(b, u)
      BY <2>1, <2>4
    <3> QED BY <1>0, <1>5, <2>2, <2>4, <3>1, AskSaveFailsDoes, RequestsStay DEF QueueHas, WorkHas, Places
  <2> QED BY <2>3, <2>4
<1>6. ASSUME NEW c \in Callers, CallerAsks(c)
      PROVE  (MarkedIsOnItsWay(u) /\ OnlyOnce(u))'
  <2>1. (ask' = ask /\ pending' = pending) \/ \E kind, n : AskBegins(c, kind, n)
    BY <1>6, CallerAsksDoes DEF MayAsk
  <2>2. ask[c].at = "idle" /\ c \in Askers
    BY <1>6, CallerAsksDoes, ActorsAre
  <2>3. /\ Places' = Places /\ \A i \in Places : QueueHas(i, u)' <=> QueueHas(i, u)
        /\ \A v \in Lookups : WorkHas(v, u)' <=> WorkHas(v, u)
    BY <1>6, CallerAsksDoes DEF QueueHas, WorkHas, Places
  <2>4. CASE ask' = ask /\ pending' = pending
    <3>1. \A b \in Askers : AskHas(b, u)' <=> AskHas(b, u)
      BY <2>4 DEF AskHas
    <3> QED BY <1>0, <2>3, <2>4, <3>1, RequestsStay
  <2>5. ASSUME NEW kind, NEW n, AskBegins(c, kind, n)
        PROVE  (MarkedIsOnItsWay(u) /\ OnlyOnce(u))'
    <3>1. /\ \A b \in Askers \ {c} : AskHas(b, u)' <=> AskHas(b, u)
          /\ AskHas(c, u)' <=> kind = "metadata" /\ n = u
          /\ ~AskHas(c, u)
      BY <2>2, <2>5 DEF AskBegins, AskHas
    <3>2. CASE kind = "metadata" /\ n = u
      <4>1. u \notin pending /\ u \in pending'
        BY <2>5, <3>2 DEF AskBegins
      <4> QED BY <1>0, <2>2, <2>3, <3>1, <3>2, <4>1, RequestComes
    <3>3. CASE ~(kind = "metadata" /\ n = u)
      <4>1. u \in pending <=> u \in pending'
        BY <2>5, <3>3 DEF AskBegins
      <4>2. \A b \in Askers : AskHas(b, u)' <=> AskHas(b, u)
        BY <3>1, <3>3
      <4> QED BY <1>0, <2>3, <4>1, <4>2, RequestsStay
    <3> QED BY <3>2, <3>3
  <2> QED BY <2>1, <2>4, <2>5
<1>7. ASSUME NEW w \in Workers, Take(w)
      PROVE  (MarkedIsOnItsWay(u) /\ OnlyOnce(u))'
  <2> DEFINE n == queues[KindOf(w)][1].title
  <2>1. Passes(KindOf(w)) /\ WorkTakes(w, n) /\ work[w].at = "idle" /\ UNCHANGED <<ask, pending>>
    BY <1>7, TakeDoes
  <2>2. \A a \in Askers : AskHas(a, u)' <=> AskHas(a, u)
    BY <2>1 DEF AskHas
  <2>3. \A v \in Workers \ {w} : WorkHas(v, u)' <=> WorkHas(v, u)
    BY <2>1 DEF WorkTakes, WorkHas
  <2>4. CASE w \in Lookups
    <3>1. KindOf(w) = "metadata"
      BY <2>4, ActorsAre
    <3>2. ~WorkHas(w, u) /\ (WorkHas(w, u)' <=> QueueHas(1, u))
      BY <2>1, <3>1 DEF WorkTakes, WorkHas, QueueHas
    <3> DEFINE m == Len(queues["metadata"]) - 1
    <3>3. /\ m \in Nat /\ Places = 1 .. m + 1 /\ Places' = 1 .. m
          /\ \A i \in 1 .. m : QueueHas(i, u)' <=> QueueHas(i + 1, u)
      BY <1>0, <2>1, <3>1 DEF Types, QueuesOK, Passes, Places, QueueHas
    <3>4. \A v \in Lookups \ {w} : WorkHas(v, u)' <=> WorkHas(v, u)
      BY <2>3, ActorsAre
    <3>5. u \in pending <=> u \in pending'
      BY <2>1
    <3> HIDE DEF m
    <3> QED BY <1>0, <2>2, <2>4, <3>2, <3>3, <3>4, <3>5, RequestIsTaken
  <2>5. CASE w \notin Lookups
    <3>1. KindOf(w) # "metadata"
      BY <2>5, ActorsAre
    <3>2. queues'["metadata"] = queues["metadata"]
      BY <1>0, <2>1, <3>1 DEF Passes
    <3>3. \A v \in Lookups : WorkHas(v, u)' <=> WorkHas(v, u)
      BY <2>3, <2>5, ActorsAre
    <3> QED BY <1>0, <2>1, <2>2, <3>2, <3>3, RequestsStay DEF QueueHas, Places
  <2> QED BY <2>4, <2>5
<1>8. ASSUME NEW w \in Workers, Start(w)
      PROVE  (MarkedIsOnItsWay(u) /\ OnlyOnce(u))'
  <2>1. work[w].at # "idle" /\ \E at, key : WorkMoves(w, at) \/ WorkRenamed(w, at, key)
    BY <1>8, StartDoes
  <2>2. work'[w].at # "idle"
    BY <1>8, StartDoes DEF WorkMoves, WorkRenamed
  <2>3. \A v \in Lookups : WorkHas(v, u)' <=> WorkHas(v, u)
    BY <2>1, <2>2, ActorsAre DEF WorkHas, WorkMoves, WorkRenamed
  <2>4. UNCHANGED <<ask, queues, pending>>
    BY <1>8, StartDoes
  <2> QED BY <1>0, <2>3, <2>4, RequestsStay DEF AskHas, QueueHas, Places
<1>9. ASSUME NEW w \in Workers, ChildStart(w)
      PROVE  (MarkedIsOnItsWay(u) /\ OnlyOnce(u))'
  <2>1. work[w].at # "idle" /\ \E at, key : WorkMoves(w, at) \/ WorkRenamed(w, at, key)
    BY <1>9, ChildStartDoes
  <2>2. work'[w].at # "idle"
    BY <1>9, ChildStartDoes DEF WorkMoves, WorkRenamed
  <2>3. \A v \in Lookups : WorkHas(v, u)' <=> WorkHas(v, u)
    BY <2>1, <2>2, ActorsAre DEF WorkHas, WorkMoves, WorkRenamed
  <2>4. UNCHANGED <<ask, queues, pending>>
    BY <1>9, ChildStartDoes
  <2> QED BY <1>0, <2>3, <2>4, RequestsStay DEF AskHas, QueueHas, Places
<1>10. ASSUME NEW w \in Workers, ChildFails(w)
      PROVE  (MarkedIsOnItsWay(u) /\ OnlyOnce(u))'
  <2>1. work[w].at # "idle" /\ \E at, key : WorkMoves(w, at) \/ WorkRenamed(w, at, key)
    BY <1>10, ChildFailsDoes
  <2>2. work'[w].at # "idle"
    BY <1>10, ChildFailsDoes DEF WorkMoves, WorkRenamed
  <2>3. \A v \in Lookups : WorkHas(v, u)' <=> WorkHas(v, u)
    BY <2>1, <2>2, ActorsAre DEF WorkHas, WorkMoves, WorkRenamed
  <2>4. UNCHANGED <<ask, queues, pending>>
    BY <1>10, ChildFailsDoes
  <2> QED BY <1>0, <2>3, <2>4, RequestsStay DEF AskHas, QueueHas, Places
<1>11. ASSUME NEW w \in Workers, ChildEnds(w)
      PROVE  (MarkedIsOnItsWay(u) /\ OnlyOnce(u))'
  <2>1. work[w].at # "idle" /\ \E at, key : WorkMoves(w, at) \/ WorkRenamed(w, at, key)
    BY <1>11, ChildEndsDoes
  <2>2. work'[w].at # "idle"
    BY <1>11, ChildEndsDoes DEF WorkMoves, WorkRenamed
  <2>3. \A v \in Lookups : WorkHas(v, u)' <=> WorkHas(v, u)
    BY <2>1, <2>2, ActorsAre DEF WorkHas, WorkMoves, WorkRenamed
  <2>4. UNCHANGED <<ask, queues, pending>>
    BY <1>11, ChildEndsDoes
  <2> QED BY <1>0, <2>3, <2>4, RequestsStay DEF AskHas, QueueHas, Places
<1>12. ASSUME NEW w \in Workers, Answer(w)
      PROVE  (MarkedIsOnItsWay(u) /\ OnlyOnce(u))'
  <2>1. work[w].at # "idle" /\ \E at, key : WorkMoves(w, at) \/ WorkRenamed(w, at, key)
    BY <1>12, AnswerDoes
  <2>2. work'[w].at # "idle"
    BY <1>12, AnswerDoes DEF WorkMoves, WorkRenamed
  <2>3. \A v \in Lookups : WorkHas(v, u)' <=> WorkHas(v, u)
    BY <2>1, <2>2, ActorsAre DEF WorkHas, WorkMoves, WorkRenamed
  <2>4. UNCHANGED <<ask, queues, pending>>
    BY <1>12, AnswerDoes
  <2> QED BY <1>0, <2>3, <2>4, RequestsStay DEF AskHas, QueueHas, Places
<1>13. ASSUME NEW w \in Workers, Drop(w)
      PROVE  (MarkedIsOnItsWay(u) /\ OnlyOnce(u))'
  <2>1. work[w].at # "idle" /\ \E at, key : WorkMoves(w, at) \/ WorkRenamed(w, at, key)
    BY <1>13, DropDoes
  <2>2. work'[w].at # "idle"
    BY <1>13, DropDoes DEF WorkMoves, WorkRenamed
  <2>3. \A v \in Lookups : WorkHas(v, u)' <=> WorkHas(v, u)
    BY <2>1, <2>2, ActorsAre DEF WorkHas, WorkMoves, WorkRenamed
  <2>4. UNCHANGED <<ask, queues, pending>>
    BY <1>13, DropDoes
  <2> QED BY <1>0, <2>3, <2>4, RequestsStay DEF AskHas, QueueHas, Places
<1>14. ASSUME NEW w \in Workers, Resolve(w)
      PROVE  (MarkedIsOnItsWay(u) /\ OnlyOnce(u))'
  <2>1. work[w].at # "idle" /\ \E at, key : WorkMoves(w, at) \/ WorkRenamed(w, at, key)
    BY <1>14, ResolveDoes
  <2>2. work'[w].at # "idle"
    BY <1>14, ResolveDoes DEF WorkMoves, WorkRenamed
  <2>3. \A v \in Lookups : WorkHas(v, u)' <=> WorkHas(v, u)
    BY <2>1, <2>2, ActorsAre DEF WorkHas, WorkMoves, WorkRenamed
  <2>4. UNCHANGED <<ask, queues, pending>>
    BY <1>14, ResolveDoes
  <2> QED BY <1>0, <2>3, <2>4, RequestsStay DEF AskHas, QueueHas, Places
<1>15. ASSUME NEW w \in Workers, Land(w)
      PROVE  (MarkedIsOnItsWay(u) /\ OnlyOnce(u))'
  <2>1. work[w].at # "idle" /\ \E at, key : WorkMoves(w, at) \/ WorkRenamed(w, at, key)
    BY <1>15, LandDoes
  <2>2. work'[w].at # "idle"
    BY <1>15, LandDoes DEF WorkMoves, WorkRenamed
  <2>3. \A v \in Lookups : WorkHas(v, u)' <=> WorkHas(v, u)
    BY <2>1, <2>2, ActorsAre DEF WorkHas, WorkMoves, WorkRenamed
  <2>4. UNCHANGED <<ask, queues, pending>>
    BY <1>15, LandDoes
  <2> QED BY <1>0, <2>3, <2>4, RequestsStay DEF AskHas, QueueHas, Places
<1>16. ASSUME NEW w \in Workers, AskMetadata(w)
      PROVE  (MarkedIsOnItsWay(u) /\ OnlyOnce(u))'
  <2>1. (ask' = ask /\ pending' = pending) \/ \E kind, n : AskBegins(w, kind, n)
    BY <1>16, AskMetadataDoes DEF MayAsk
  <2>2. ask[w].at = "idle" /\ w \in Askers
    BY <1>16, AskMetadataDoes, ActorsAre
  <2>3. /\ Places' = Places /\ \A i \in Places : QueueHas(i, u)' <=> QueueHas(i, u)
        /\ \A v \in Lookups : WorkHas(v, u)' <=> WorkHas(v, u)
    BY <1>16, AskMetadataDoes, ActorsAssumption DEF QueueHas, WorkHas, Places, WorkMoves, Workers
  <2>4. CASE ask' = ask /\ pending' = pending
    <3>1. \A b \in Askers : AskHas(b, u)' <=> AskHas(b, u)
      BY <2>4 DEF AskHas
    <3> QED BY <1>0, <2>3, <2>4, <3>1, RequestsStay
  <2>5. ASSUME NEW kind, NEW n, AskBegins(w, kind, n)
        PROVE  (MarkedIsOnItsWay(u) /\ OnlyOnce(u))'
    <3>1. /\ \A b \in Askers \ {w} : AskHas(b, u)' <=> AskHas(b, u)
          /\ AskHas(w, u)' <=> kind = "metadata" /\ n = u
          /\ ~AskHas(w, u)
      BY <2>2, <2>5 DEF AskBegins, AskHas
    <3>2. CASE kind = "metadata" /\ n = u
      <4>1. u \notin pending /\ u \in pending'
        BY <2>5, <3>2 DEF AskBegins
      <4> QED BY <1>0, <2>2, <2>3, <3>1, <3>2, <4>1, RequestComes
    <3>3. CASE ~(kind = "metadata" /\ n = u)
      <4>1. u \in pending <=> u \in pending'
        BY <2>5, <3>3 DEF AskBegins
      <4>2. \A b \in Askers : AskHas(b, u)' <=> AskHas(b, u)
        BY <3>1, <3>3
      <4> QED BY <1>0, <2>3, <4>1, <4>2, RequestsStay
    <3> QED BY <3>2, <3>3
  <2> QED BY <2>1, <2>4, <2>5
<1>17. ASSUME NEW w \in Workers, Finish(w)
      PROVE  (MarkedIsOnItsWay(u) /\ OnlyOnce(u))'
  <2>1. work[w].at # "idle" /\ \E at, key : WorkMoves(w, at) \/ WorkRenamed(w, at, key)
    BY <1>17, FinishDoes
  <2>2. work'[w].at # "idle"
    BY <1>17, FinishDoes DEF WorkMoves, WorkRenamed
  <2>3. \A v \in Lookups : WorkHas(v, u)' <=> WorkHas(v, u)
    BY <2>1, <2>2, ActorsAre DEF WorkHas, WorkMoves, WorkRenamed
  <2>4. UNCHANGED <<ask, queues, pending>>
    BY <1>17, FinishDoes
  <2> QED BY <1>0, <2>3, <2>4, RequestsStay DEF AskHas, QueueHas, Places
<1>18. ASSUME NEW w \in Workers, Done(w)
      PROVE  (MarkedIsOnItsWay(u) /\ OnlyOnce(u))'
  <2>1. /\ WorkEnds(w) /\ UNCHANGED <<ask, queues>> /\ work[w].at # "idle"
        /\ Forget(KindOf(w), {work[w].title, work[w].key}) /\ work[w].key = work[w].title
    BY <1>0, <1>18, DoneDoes DEF Untouched
  <2>2. \A v \in Workers \ {w} : WorkHas(v, u)' <=> WorkHas(v, u)
    BY <2>1 DEF WorkEnds, WorkHas
  <2>3. ~WorkHas(w, u)' /\ (WorkHas(w, u) <=> work[w].title = u)
    BY <2>1 DEF WorkEnds, WorkHas
  <2>4. /\ \A a \in Askers : AskHas(a, u)' <=> AskHas(a, u)
        /\ Places' = Places /\ \A i \in Places : QueueHas(i, u)' <=> QueueHas(i, u)
    BY <2>1 DEF AskHas, QueueHas, Places
  <2>5. CASE w \in Lookups /\ work[w].title = u
    <3>1. u \notin pending'
      BY <2>1, <2>5, ActorsAre DEF Forget
    <3>2. \A v \in Lookups \ {w} : WorkHas(v, u)' <=> WorkHas(v, u)
      BY <2>2, ActorsAre
    <3> QED BY <1>0, <2>3, <2>4, <2>5, <3>1, <3>2, RequestEnds
  <2>6. CASE ~(w \in Lookups /\ work[w].title = u)
    <3>1. u \in pending <=> u \in pending'
      BY <2>1, <2>6, ActorsAre DEF Forget
    <3>2. \A v \in Lookups : WorkHas(v, u)' <=> WorkHas(v, u)
      BY <2>2, <2>3, <2>6, ActorsAre
    <3> QED BY <1>0, <2>4, <3>1, <3>2, RequestsStay
  <2> QED BY <2>5, <2>6
<1>19. CASE Recover
  BY <1>0, <1>19, RecoverDoes, RequestsStay DEF AskHas, QueueHas, WorkHas, Places
<1>20. CASE RecoverRow
  <2>1. UNCHANGED queues \/ \E n : Receives("refresh", n)
    BY <1>20, RecoverRowDoes
  <2>2. queues'["metadata"] = queues["metadata"]
    BY <1>0, <2>1 DEF Receives
  <2>3. UNCHANGED <<ask, pending, work>>
    BY <1>20, RecoverRowDoes
  <2> QED BY <1>0, <2>2, <2>3, RequestsStay DEF AskHas, QueueHas, WorkHas, Places
<1>21. CASE Recovered
  BY <1>0, <1>21, RecoveredDoes, RequestsStay DEF AskHas, QueueHas, WorkHas, Places
<1>22. ASSUME NEW waitingOnly \in BOOLEAN, ListDue(waitingOnly)
      PROVE  (MarkedIsOnItsWay(u) /\ OnlyOnce(u))'
  BY <1>0, <1>22, ListDueDoes, RequestsStay DEF AskHas, QueueHas, WorkHas, Places
<1>23. CASE RetryRow
  BY <1>0, <1>23, RetryRowDoes, RequestsStay DEF AskHas, QueueHas, WorkHas, Places
<1>24. CASE RetryDue
  <2>1. (ask' = ask /\ pending' = pending) \/ \E kind, n : AskBegins(Scheduler, kind, n)
    BY <1>24, RetryDueDoes DEF MayAsk
  <2>2. ask[Scheduler].at = "idle" /\ Scheduler \in Askers
    BY <1>24, RetryDueDoes, ActorsAre
  <2>3. /\ Places' = Places /\ \A i \in Places : QueueHas(i, u)' <=> QueueHas(i, u)
        /\ \A v \in Lookups : WorkHas(v, u)' <=> WorkHas(v, u)
    BY <1>24, RetryDueDoes DEF QueueHas, WorkHas, Places
  <2>4. CASE ask' = ask /\ pending' = pending
    <3>1. \A b \in Askers : AskHas(b, u)' <=> AskHas(b, u)
      BY <2>4 DEF AskHas
    <3> QED BY <1>0, <2>3, <2>4, <3>1, RequestsStay
  <2>5. ASSUME NEW kind, NEW n, AskBegins(Scheduler, kind, n)
        PROVE  (MarkedIsOnItsWay(u) /\ OnlyOnce(u))'
    <3>1. /\ \A b \in Askers \ {Scheduler} : AskHas(b, u)' <=> AskHas(b, u)
          /\ AskHas(Scheduler, u)' <=> kind = "metadata" /\ n = u
          /\ ~AskHas(Scheduler, u)
      BY <2>2, <2>5 DEF AskBegins, AskHas
    <3>2. CASE kind = "metadata" /\ n = u
      <4>1. u \notin pending /\ u \in pending'
        BY <2>5, <3>2 DEF AskBegins
      <4> QED BY <1>0, <2>2, <2>3, <3>1, <3>2, <4>1, RequestComes
    <3>3. CASE ~(kind = "metadata" /\ n = u)
      <4>1. u \in pending <=> u \in pending'
        BY <2>5, <3>3 DEF AskBegins
      <4>2. \A b \in Askers : AskHas(b, u)' <=> AskHas(b, u)
        BY <3>1, <3>3
      <4> QED BY <1>0, <2>3, <4>1, <4>2, RequestsStay
    <3> QED BY <3>2, <3>3
  <2> QED BY <2>1, <2>4, <2>5
<1>25. ASSUME NEW old \in Titles, NEW new \in Titles, moveExtinctGroupDependents(old, new)
      PROVE  (MarkedIsOnItsWay(u) /\ OnlyOnce(u))'
  BY <1>0, <1>25, moveExtinctGroupDependentsDoes, RequestsStay DEF AskHas, QueueHas, WorkHas, Places
<1>26. ASSUME NEW t \in Titles, Expire(t)
      PROVE  (MarkedIsOnItsWay(u) /\ OnlyOnce(u))'
  BY <1>0, <1>26, ExpireDoes, RequestsStay DEF AskHas, QueueHas, WorkHas, Places
<1>27. CASE Restart
  <2>1. Places' = {} /\ u \notin pending'
    BY <1>0, <1>27, RestartDoes DEF Empty, Places
  <2>2. \A a \in Askers : ~AskHas(a, u)'
    BY <1>27, RestartDoes, SomeoneIsThere DEF AskHas
  <2>3. \A w \in Lookups : ~WorkHas(w, u)'
    BY <1>27, RestartDoes, SomeoneIsThere, ActorsAre DEF WorkHas
  <2> QED BY <2>1, <2>2, <2>3 DEF MarkedIsOnItsWay, OnlyOnce
<1>28. CASE UNCHANGED <<vars, history>>
  BY <1>0, <1>28, RequestsStay DEF vars, history, AskHas, QueueHas, WorkHas, Places
<1> QED
  BY <1>1, <1>2, <1>3, <1>4, <1>5, <1>6, <1>7, <1>8, <1>9, <1>10, <1>11, <1>12, <1>13,
     <1>14, <1>15, <1>16, <1>17, <1>18, <1>19, <1>20, <1>21, <1>22, <1>23, <1>24, <1>25,
     <1>26, <1>27, <1>28
     DEF Next, Enqueue, Run, Schedule, Happens

LEMMA JobsStep ==
  ASSUME JobsInv, [Next]_<<vars, history>>
  PROVE  JobsInv'
<1>1. Types'
  BY TypesStep DEF JobsInv
<1>2. ASSUME alive' = Titles
      PROVE  (Untouched /\ \A t \in Titles : MarkedIsOnItsWay(t) /\ OnlyOnce(t))'
  <2>1. alive = Titles
    BY <1>2, AliveShrinks DEF JobsInv, Types, CatalogOK
  <2>2. Types /\ Untouched /\ \A t \in Titles : MarkedIsOnItsWay(t) /\ OnlyOnce(t)
    BY <2>1 DEF JobsInv
  <2>3. Untouched'
    BY <1>2, <2>2, KeysStep, ListedStep, NamedStep DEF Untouched
  <2>4. \A t \in Titles : (MarkedIsOnItsWay(t) /\ OnlyOnce(t))'
    BY <2>2, MarksStep
  <2> QED BY <2>3, <2>4
<1> QED BY <1>1, <1>2 DEF JobsInv

LEMMA JobsInit == Init => JobsInv
<1> SUFFICES ASSUME Init PROVE JobsInv
  OBVIOUS
<1>1. \A id \in Ids : id[2] \in NamesOf(id[1]) /\ id[2] \in Names
  BY IdsAre
<1>2. \A id \in Ids : rows[id] = Absent(id) /\ Absent(id) \in Row /\ Absent(id).key = id[2]
                      /\ Absent(id).state = "absent"
  BY <1>1 DEF Init, Absent, Job, Row, States
<1>3. RowsOK
  BY <1>1, <1>2 DEF Init, RowsOK, KeysAreUnique
<1>4. CatalogOK
  BY DEF Init, CatalogOK
<1>5. Empty \in [QueueKinds -> Seq(Request)] /\ \A k \in QueueKinds : Len(Empty[k]) = 0
  BY DEF Empty, QueueKinds
<1>6. QueuesOK
  BY <1>5, BoundsAssumption DEF Init, QueuesOK
<1>7. WorkOK /\ AskOK
  BY SomeoneIsThere DEF Init, WorkOK, AskOK
<1>8. SchedOK
  BY SomeoneIsThere DEF Init, SchedOK, Ids
<1>9. Untouched
  BY <1>2, SomeoneIsThere DEF Init, Untouched
<1>10. ASSUME NEW t \in Titles
       PROVE  MarkedIsOnItsWay(t) /\ OnlyOnce(t)
  <2>1. Places = {} /\ t \notin pending
    BY <1>5 DEF Init, Places, QueueKinds
  <2>2. (\A a \in Askers : ~AskHas(a, t)) /\ \A w \in Lookups : ~WorkHas(w, t)
    BY SomeoneIsThere, ActorsAre DEF Init, AskHas, WorkHas
  <2> QED BY <2>1, <2>2 DEF MarkedIsOnItsWay, OnlyOnce
<1> QED BY <1>3, <1>4, <1>6, <1>7, <1>8, <1>9, <1>10 DEF JobsInv, Types

(* What is left of the types: the bounds and the history.                  *)
LEMMA RestStep ==
  ASSUME Types, RestOK, [Next]_<<vars, history>>
  PROVE  RestOK'
<1>1. lost' \subseteq Ids /\ stray' \subseteq Lookups
  BY DEF Next, HistoryStep, history, RestOK
<1>2. spent' = spent \/ (spent.asks < MaxAsks /\ spent' = [spent EXCEPT !.asks = @ + 1])
      \/ (spent.events < MaxEvents /\ spent' = [spent EXCEPT !.events = @ + 1])
  BY DEF Next, Enqueue, Run, Schedule, Happens, AskSave, AskSend, AskFull, AskGiveUp, AskSaveFails,
     CallerAsks, Take, Start, ChildStart, ChildFails, ChildEnds, Answer, Drop, Resolve, Land,
     AskMetadata, Finish, Done, Recover, RecoverRow, Recovered, ListDue, RetryRow, RetryDue,
     moveExtinctGroupDependents, Expire, Restart, vars, history
<1>3. spent' \in [asks : 0 .. MaxAsks, events : 0 .. MaxEvents]
  BY <1>2, BoundsAssumption DEF RestOK
<1> QED BY <1>1, <1>3 DEF RestOK

(* The places of a title's requests are as many as the mark says.          *)
LEMMA OneRequest ==
  ASSUME Types, NEW t, MarkedIsOnItsWay(t), OnlyOnce(t)
  PROVE  Cardinality(OnItsWay(t)) = IF t \in pending THEN 1 ELSE 0
<1> DEFINE A == {<<"ask", a>> : a \in {b \in Askers : AskHas(b, t)}}
           Q == {<<"queue", i>> : i \in {j \in Places : QueueHas(j, t)}}
           W == {<<"work", w>> : w \in {v \in Lookups : WorkHas(v, t)}}
<1>1. OnItsWay(t) = A \cup Q \cup W
  <2>1. DOMAIN queues["metadata"] = Places
    BY DEF Types, QueuesOK, Places, QueueKinds
  <2> QED BY <2>1 DEF OnItsWay, AskHas, QueueHas, WorkHas
<1>2. CASE t \notin pending
  <2>1. A = {} /\ Q = {} /\ W = {}
    BY <1>2 DEF MarkedIsOnItsWay
  <2> HIDE DEF A, Q, W
  <2> QED BY <1>1, <1>2, <2>1, FS_EmptySet
<1>3. CASE t \in pending
  <2>1. ASSUME \E a \in Askers : AskHas(a, t)
        PROVE  \E x : OnItsWay(t) = {x}
    <3>1. PICK a \in Askers : AskHas(a, t)
      BY <2>1
    <3>2. A = {<<"ask", a>>} /\ Q = {} /\ W = {}
      BY <3>1 DEF OnlyOnce
    <3> QED BY <1>1, <3>2
  <2>2. ASSUME \E i \in Places : QueueHas(i, t)
        PROVE  \E x : OnItsWay(t) = {x}
    <3>1. PICK i \in Places : QueueHas(i, t)
      BY <2>2
    <3>2. A = {} /\ Q = {<<"queue", i>>} /\ W = {}
      BY <3>1 DEF OnlyOnce
    <3> QED BY <1>1, <3>2
  <2>3. ASSUME \E w \in Lookups : WorkHas(w, t)
        PROVE  \E x : OnItsWay(t) = {x}
    <3>1. PICK w \in Lookups : WorkHas(w, t)
      BY <2>3
    <3>2. A = {} /\ Q = {} /\ W = {<<"work", w>>}
      BY <3>1 DEF OnlyOnce
    <3> QED BY <1>1, <3>2
  <2>4. \E x : OnItsWay(t) = {x}
    <3>1. \/ \E a \in Askers : AskHas(a, t)
          \/ \E i \in Places : QueueHas(i, t)
          \/ \E w \in Lookups : WorkHas(w, t)
      BY <1>3 DEF MarkedIsOnItsWay
    <3>2. ((\E a \in Askers : AskHas(a, t)) => \E x : OnItsWay(t) = {x})
          /\ ((\E i \in Places : QueueHas(i, t)) => \E x : OnItsWay(t) = {x})
          /\ ((\E w \in Lookups : WorkHas(w, t)) => \E x : OnItsWay(t) = {x})
      BY <2>1, <2>2, <2>3
    <3> QED BY <3>1, <3>2
  <2> HIDE DEF A, Q, W
  <2> QED BY <1>3, <2>4, FS_Singleton
<1> QED BY <1>2, <1>3

LEMMA JobsInvSafe == JobsInv /\ RestOK => JobsSafe
<1> SUFFICES ASSUME JobsInv, RestOK PROVE JobsSafe
  OBVIOUS
<1>1. Types
  BY DEF JobsInv
<1>2. TypeOK
  <2>1. DOMAIN queues = {"metadata", "refresh", "search"}
        /\ \A k \in DOMAIN queues : queues[k] \in Seq(Request) /\ Len(queues[k]) <= QueueCap
    BY <1>1 DEF Types, QueuesOK, QueueKinds
  <2>2. /\ sched.at \in {"recover", "recovering", "idle", "retrying", "retry"}
        /\ sched.list \subseteq Snapshot /\ sched.id \in Ids
    BY <1>1 DEF Types, SchedOK
  <2> QED BY <1>1, <2>1, <2>2 DEF Types, RowsOK, CatalogOK, QueuesOK, WorkOK, AskOK, RestOK, TypeOK
<1>3. PendingIsExact
  BY <1>1, OneRequest DEF JobsInv, PendingIsExact
<1> QED BY <1>2, <1>3 DEF JobsSafe

(* The rows are well-formed under one key each, whatever merges, and until *)
(* titles merge a title is marked pending exactly while one request for    *)
(* its metadata is on its way.                                             *)
THEOREM JobsTheorem == Spec => []JobsSafe
<1>1. Init => JobsInv /\ RestOK
  <2>1. Init => RestOK
    BY BoundsAssumption DEF Init, RestOK
  <2> QED BY <2>1, JobsInit
<1>2. JobsInv /\ RestOK /\ [Next]_<<vars, history>> => (JobsInv /\ RestOK)'
  <2>1. JobsInv => Types
    BY DEF JobsInv
  <2> QED BY <2>1, JobsStep, RestStep
<1> QED BY <1>1, <1>2, JobsInvSafe, PTL DEF Spec
(* Who has the work of a row in hand, until titles merge.                  *)
QueueRuns(i) ==
  i[1] \in QueueKinds /\ \E n \in 1 .. Len(queues[i[1]]) : queues[i[1]][n].title = i[2]
WorkRuns(w, i) ==
  /\ work[w].title = i[2]
  /\ IF i[1] = "child" THEN w = Refresher /\ work[w].at = "child"
     ELSE KindOf(w) = i[1] /\ work[w].at \notin {"idle", "done"}
AskRuns(a, i) == ask[a].at \in {"send", "full"} /\ ask[a].kind = i[1] /\ ask[a].title = i[2]
SchedRuns(i) ==
  sched.at = "recover" \/ (sched.at = "recovering" /\ \E s \in sched.list : s.id = i)
HasRunner(i) ==
  \/ QueueRuns(i) \/ SchedRuns(i)
  \/ \E w \in Workers : WorkRuns(w, i)
  \/ \E a \in Askers : AskRuns(a, i)

LEMMA ServedIs ==
  Types /\ Untouched => \A i \in Ids : Served(i) <=> HasRunner(i)
<1> SUFFICES ASSUME Types, Untouched, NEW i \in Ids PROVE Served(i) <=> HasRunner(i)
  OBVIOUS
<1>1. rows[i].key = i[2] /\ DOMAIN queues = QueueKinds
  BY DEF Untouched, Types, QueuesOK
<1>2. (/\ i[1] \in DOMAIN queues
       /\ \E n \in DOMAIN queues[i[1]] : queues[i[1]][n].title \in {i[2], rows[i].key})
      <=> QueueRuns(i)
  BY <1>1 DEF QueueRuns, Types, QueuesOK
<1>3. ASSUME NEW w \in Workers
      PROVE  (/\ IF i[1] = "child" THEN w = Refresher /\ work[w].at = "child"
                 ELSE KindOf(w) = i[1] /\ work[w].at \notin {"idle", "done"}
              /\ {work[w].title, work[w].key} \cap {i[2], rows[i].key} # {}) <=> WorkRuns(w, i)
  <2>1. work[w].at # "idle" => work[w].key = work[w].title
    BY DEF Untouched
  <2> QED BY <1>1, <2>1 DEF WorkRuns
<1>4. \A a \in Askers :
        (/\ ask[a].at \in {"send", "full"}
         /\ ask[a].kind = i[1] /\ ask[a].title \in {i[2], rows[i].key}) <=> AskRuns(a, i)
  BY <1>1 DEF AskRuns
<1> HIDE DEF Types, Untouched
<1> QED BY <1>2, <1>3, <1>4 DEF Served, HasRunner, SchedRuns

(* A step leaves a row with a runner, settles it, is one of Strands, or    *)
(* leaves alone a row that had no runner.                                  *)
HandsOver(i) ==
  \/ rows'[i].state \notin Active \/ HasRunner(i)' \/ Strands
  \/ rows'[i].state = rows[i].state /\ ~HasRunner(i)

LEMMA RunnerStays ==
  ASSUME NEW i, rows'[i] = rows[i], QueueRuns(i) => HasRunner(i)', SchedRuns(i) => HasRunner(i)',
         \A w \in Workers : WorkRuns(w, i) => HasRunner(i)',
         \A a \in Askers : AskRuns(a, i) => HasRunner(i)'
  PROVE  HandsOver(i)
BY DEF HasRunner, HandsOver

LEMMA RunnerIs ==
  ASSUME NEW i
  PROVE  /\ (QueueRuns(i)' => HasRunner(i)') /\ (SchedRuns(i)' => HasRunner(i)')
         /\ \A w \in Workers : WorkRuns(w, i)' => HasRunner(i)'
         /\ \A a \in Askers : AskRuns(a, i)' => HasRunner(i)'
BY DEF HasRunner

LEMMA QueuesRun ==
  ASSUME QueuesOK, NEW kind \in QueueKinds, NEW n, Receives(kind, n), NEW i \in Ids
  PROVE  /\ QueueRuns(i) => QueueRuns(i)'
         /\ i = <<kind, n>> => QueueRuns(i)'
<1>1. \A k \in QueueKinds : Len(queues[k]) \in Nat
  BY DEF QueuesOK
<1>2. Len(queues[kind]) + 1 \in 1 .. Len(queues'[kind])
      /\ \A j \in 1 .. Len(queues[kind]) : j \in 1 .. Len(queues'[kind])
  BY <1>1 DEF Receives
<1> QED BY <1>1, <1>2 DEF QueueRuns, Receives

LEMMA ChildSettles ==
  ASSUME Types, Untouched, NEW w \in Workers, w = Refresher, work[w].at = "child",
         WorkMoves(w, "resolve"), UNCHANGED <<queues, sched, ask>>,
         SavesDone(<<"child", work[w].title>>, work[w].title), NEW i \in Ids
  PROVE  HandsOver(i)
<1> DEFINE j == <<"child", work[w].title>>
<1>1. j \in Ids /\ j[2] = work[w].title /\ j[1] = "child"
  BY InHand
<1>2. RowsOK /\ \A n \in Ids : rows[n].key = n[2]
  BY DEF Types, Untouched
<1>3. PICK state \in {"completed", "retry_wait", "failed"} : Saves(j, j[2], state)
  BY <1>1 DEF SavesDone
<1> HIDE DEF j
<1>4. rows'[j].state = state /\ \A n \in Ids \ {j} : rows'[n] = rows[n]
  BY <1>1, <1>2, <1>3, SavesItsOwn
<1>5. CASE i = j
  BY <1>4, <1>5 DEF HandsOver, Active
<1>6. CASE i # j
  <2>1. (\A v \in Workers : WorkRuns(v, i) => WorkRuns(v, i)')
    BY <1>1, <1>6, IdsAre DEF WorkRuns, WorkMoves
  <2>2. ((QueueRuns(i) => QueueRuns(i)')) /\ ((SchedRuns(i) => SchedRuns(i)')) /\ (\A b \in Askers : AskRuns(b, i) => AskRuns(b, i)')
    BY DEF QueueRuns, SchedRuns, AskRuns
  <2> QED BY <1>4, <1>6, <2>1, <2>2, RunnerStays, RunnerIs
<1> QED BY <1>5, <1>6

LEMMA HandsOverStep ==
  ASSUME Types, Untouched, alive' = Titles, NEW i \in Ids, [Next]_<<vars, history>>
  PROVE  HandsOver(i)
<1>0. Types /\ Untouched /\ alive = Titles /\ i \in Ids
  BY AliveShrinks DEF Types, CatalogOK
<1>1. ASSUME NEW a \in Askers, AskSave(a)
      PROVE  HandsOver(i)
  <2> DEFINE j == <<ask[a].kind, ask[a].title>>
  <2>1. j \in Ids /\ j[2] = ask[a].title /\ j[1] = ask[a].kind
    BY <1>1, AskSaveDoes, IdsAre DEF Types, AskOK
  <2>2. Saves(j, j[2], "queued") /\ RowsOK /\ \A n \in Ids : rows[n].key = n[2]
    BY <1>0, <1>1, <2>1, AskSaveDoes DEF Types, Untouched
  <2>3. i = j => AskRuns(a, i)'
    BY <1>1, <2>1, AskSaveDoes DEF AskRuns, AskMoves
  <2> HIDE DEF j
  <2>4. \A n \in Ids \ {j} : rows'[n] = rows[n]
    BY <2>1, <2>2, SavesItsOwn
  <2>5. CASE i = j
    BY <2>3, <2>5, RunnerIs DEF HandsOver
  <2>6. CASE i # j
    <3>1. rows'[i] = rows[i] /\ ((QueueRuns(i) => QueueRuns(i)')) /\ (SchedRuns(i) => SchedRuns(i)')
      BY <2>4, <2>6, <1>1, AskSaveDoes DEF QueueRuns, SchedRuns
    <3>2. (\A v \in Workers : WorkRuns(v, i) => WorkRuns(v, i)')
      BY <1>1, AskSaveDoes DEF WorkRuns
    <3>3. (\A b \in Askers : AskRuns(b, i) => AskRuns(b, i)')
      BY <1>1, AskSaveDoes DEF AskRuns, AskMoves
    <3> QED BY <3>1, <3>2, <3>3, RunnerStays, RunnerIs
  <2> QED BY <2>5, <2>6
<1>2. ASSUME NEW a \in Askers, AskSend(a)
      PROVE  HandsOver(i)
  <2>1. rows'[i] = rows[i] /\ (SchedRuns(i) => SchedRuns(i)') /\ ask[a].kind \in QueueKinds
    BY <1>0, <1>2, AskSendDoes DEF SchedRuns, Types, AskOK
  <2>2. (\A v \in Workers : WorkRuns(v, i) => WorkRuns(v, i)')
    BY <1>2, AskSendDoes DEF WorkRuns
  <2>3. (QueueRuns(i) => QueueRuns(i)') /\ (AskRuns(a, i) => QueueRuns(i)')
    <3>1. Receives(ask[a].kind, ask[a].title) /\ QueuesOK
      BY <1>0, <1>2, AskSendDoes DEF Types
    <3>2. AskRuns(a, i) => i = <<ask[a].kind, ask[a].title>>
      BY IdsAre DEF AskRuns
    <3> QED BY <2>1, <3>1, <3>2, QueuesRun
  <2>4. \A b \in Askers \ {a} : AskRuns(b, i) => AskRuns(b, i)'
    BY <1>2, AskSendDoes DEF AskRuns, AskEnds
  <2> QED BY <2>1, <2>2, <2>3, <2>4, RunnerStays, RunnerIs
<1>3. ASSUME NEW a \in Askers, AskFull(a)
      PROVE  HandsOver(i)
  <2>1. /\ rows'[i] = rows[i] /\ (QueueRuns(i) => QueueRuns(i)') /\ (SchedRuns(i) => SchedRuns(i)')
    BY <1>3, AskFullDoes DEF QueueRuns, SchedRuns, SchedTo
  <2>2. (\A v \in Workers : WorkRuns(v, i) => WorkRuns(v, i)')
    BY <1>0, <1>3, AskFullDoes DEF WorkRuns, AskMoves
  <2>3. (\A b \in Askers : AskRuns(b, i) => AskRuns(b, i)')
    BY <1>0, <1>3, AskFullDoes DEF AskRuns, AskMoves
  <2> QED BY <2>1, <2>2, <2>3, RunnerStays, RunnerIs
<1>4. ASSUME NEW a \in Askers, AskGiveUp(a)
      PROVE  HandsOver(i)
  <2> DEFINE j == <<ask[a].kind, ask[a].title>>
  <2>1. j \in Ids /\ j[2] = ask[a].title /\ j[1] = ask[a].kind
    BY <1>4, AskGiveUpDoes, IdsAre DEF Types, AskOK
  <2>2. RowsOK /\ \A n \in Ids : rows[n].key = n[2]
    BY <1>0 DEF Types, Untouched
  <2>3. Saves(j, j[2], "failed") \/ (a \in Callers /\ ask[a].at = "full" /\ UNCHANGED rows)
    BY <1>4, <2>1, AskGiveUpDoes
  <2>4. CASE a \in Callers /\ ask[a].at = "full" /\ UNCHANGED rows
    BY <2>4 DEF HandsOver, Strands
  <2>5. CASE Saves(j, j[2], "failed")
    <3>1. rows'[j].state = "failed" /\ \A n \in Ids \ {j} : rows'[n] = rows[n]
      <4> HIDE DEF j
      <4> QED BY <2>1, <2>2, <2>5, SavesItsOwn
    <3>2. CASE i = j
      BY <3>1, <3>2 DEF HandsOver, Active
    <3>3. CASE i # j
      <4>1. rows'[i] = rows[i] /\ ((QueueRuns(i) => QueueRuns(i)')) /\ (SchedRuns(i) => SchedRuns(i)')
        BY <3>1, <3>3, <1>4, AskGiveUpDoes DEF QueueRuns, SchedRuns
      <4>2. (\A v \in Workers : WorkRuns(v, i) => WorkRuns(v, i)')
        BY <1>4, AskGiveUpDoes DEF WorkRuns
      <4>3. \A b \in Askers \ {a} : AskRuns(b, i) => AskRuns(b, i)'
        BY <1>4, AskGiveUpDoes DEF AskRuns, AskEnds
      <4>4. ~AskRuns(a, i)
        BY <2>1, <3>3, IdsAre DEF AskRuns
      <4> QED BY <4>1, <4>2, <4>3, <4>4, RunnerStays, RunnerIs
    <3> QED BY <3>2, <3>3
  <2> QED BY <2>3, <2>4, <2>5
<1>5. ASSUME NEW c \in Callers, AskSaveFails(c)
      PROVE  HandsOver(i)
  <2>1. /\ rows'[i] = rows[i] /\ (QueueRuns(i) => QueueRuns(i)') /\ (SchedRuns(i) => SchedRuns(i)')
    BY <1>5, AskSaveFailsDoes DEF QueueRuns, SchedRuns, SchedTo
  <2>2. (\A v \in Workers : WorkRuns(v, i) => WorkRuns(v, i)')
    BY <1>0, <1>5, AskSaveFailsDoes DEF WorkRuns, AskEnds
  <2>3. (\A b \in Askers : AskRuns(b, i) => AskRuns(b, i)')
    BY <1>0, <1>5, AskSaveFailsDoes DEF AskRuns, AskEnds
  <2> QED BY <2>1, <2>2, <2>3, RunnerStays, RunnerIs
<1>6. ASSUME NEW c \in Callers, CallerAsks(c)
      PROVE  HandsOver(i)
  <2>1. /\ rows'[i] = rows[i] /\ (QueueRuns(i) => QueueRuns(i)') /\ (SchedRuns(i) => SchedRuns(i)')
    BY <1>6, CallerAsksDoes DEF QueueRuns, SchedRuns, SchedTo
  <2>2. (\A v \in Workers : WorkRuns(v, i) => WorkRuns(v, i)')
    BY <1>0, <1>6, CallerAsksDoes DEF WorkRuns, MayAsk, AskBegins
  <2>3. (\A b \in Askers : AskRuns(b, i) => AskRuns(b, i)')
    BY <1>0, <1>6, CallerAsksDoes DEF AskRuns, MayAsk, AskBegins
  <2> QED BY <2>1, <2>2, <2>3, RunnerStays, RunnerIs
<1>7. ASSUME NEW w \in Workers, Take(w)
      PROVE  HandsOver(i)
  <2> DEFINE n == queues[KindOf(w)][1].title
  <2>1. /\ Passes(KindOf(w)) /\ WorkTakes(w, n) /\ work[w].at = "idle"
        /\ UNCHANGED <<rows, sched, ask>>
    BY <1>7, TakeDoes
  <2>2. KindOf(w) \in QueueKinds /\ \A k \in QueueKinds : Len(queues[k]) \in Nat
    BY <1>0, ActorsAre DEF Types, QueuesOK
  <2>3. \A v \in Workers \ {w} : WorkRuns(v, i) => WorkRuns(v, i)'
    BY <2>1 DEF WorkTakes, WorkRuns
  <2>4. ~WorkRuns(w, i)
    BY <2>1 DEF WorkRuns
  <2>5. ASSUME QueueRuns(i) PROVE QueueRuns(i)' \/ WorkRuns(w, i)'
    <3>1. CASE i[1] # KindOf(w)
      BY <2>1, <2>5, <3>1 DEF Passes, QueueRuns
    <3>2. CASE i[1] = KindOf(w)
      <4>1. PICK m \in 1 .. Len(queues[KindOf(w)]) : queues[KindOf(w)][m].title = i[2]
        BY <2>5, <3>2 DEF QueueRuns
      <4>2. CASE m = 1
        <5>1. i[1] # "child" /\ work'[w].title = i[2] /\ work'[w].at = "start"
          BY <2>1, <2>2, <3>2, <4>1, <4>2 DEF WorkTakes, QueueKinds
        <5> QED BY <3>2, <5>1 DEF WorkRuns
      <4>3. CASE m # 1
        <5>1. m - 1 \in 1 .. Len(queues'[KindOf(w)]) /\ (m - 1) + 1 = m
          BY <2>1, <2>2, <4>1, <4>3 DEF Passes
        <5>2. queues'[KindOf(w)][m - 1].title = i[2]
          BY <2>1, <4>1, <5>1 DEF Passes
        <5> QED BY <2>2, <3>2, <5>1, <5>2 DEF QueueRuns
      <4> QED BY <4>2, <4>3
    <3> QED BY <3>1, <3>2
  <2>6. ((SchedRuns(i) => SchedRuns(i)')) /\ (\A b \in Askers : AskRuns(b, i) => AskRuns(b, i)')
    BY <2>1 DEF SchedRuns, AskRuns
  <2> QED BY <2>1, <2>3, <2>4, <2>5, <2>6, RunnerStays, RunnerIs
<1>8. ASSUME NEW w \in Workers, Start(w)
      PROVE  HandsOver(i)
  <2> DEFINE j == work[w].id
  <2>1. j \in Ids /\ j[2] = work[w].title /\ j[1] = KindOf(w) /\ work[w].key = work[w].title
    BY <1>0, <1>8, StartDoes, InHand, IdsAre DEF Untouched
  <2>2. RowsOK /\ \A n \in Ids : rows[n].key = n[2]
    BY <1>0 DEF Types, Untouched
  <2>3. WorkMoves(w, "work") /\ work[w].at = "start" /\ UNCHANGED <<queues, sched, ask>>
    BY <1>8, StartDoes
  <2>4. \E state : Saves(j, j[2], state)
    BY <1>8, <2>1, StartDoes DEF SavesDone, Active
  <2> HIDE DEF j
  <2>5. \A n \in Ids \ {j} : rows'[n] = rows[n]
    BY <2>1, <2>2, <2>4, SavesItsOwn
  <2>6. CASE i = j
    <3>1. j[1] # "child"
      BY <2>1, ActorsAre DEF QueueKinds
    <3>2. WorkRuns(w, i)'
      BY <2>1, <2>3, <2>6, <3>1 DEF WorkRuns, WorkMoves
    <3> QED BY <3>2, RunnerIs DEF HandsOver
  <2>7. CASE i # j
    <3>1. rows'[i] = rows[i] /\ ((QueueRuns(i) => QueueRuns(i)')) /\ ((SchedRuns(i) => SchedRuns(i)')) /\ (\A b \in Askers : AskRuns(b, i) => AskRuns(b, i)')
      BY <2>3, <2>5, <2>7 DEF QueueRuns, SchedRuns, AskRuns
    <3>2. i # j => ~WorkRuns(w, i) \/ WorkRuns(w, i)'
      BY <2>1, <2>3, IdsAre DEF WorkRuns, WorkMoves
    <3>3. \A v \in Workers : WorkRuns(v, i) => WorkRuns(v, i)'
      BY <2>3, <2>7, <3>2 DEF WorkRuns, WorkMoves
    <3> QED BY <3>1, <3>3, RunnerStays, RunnerIs
  <2> QED BY <2>6, <2>7
<1>9. ASSUME NEW w \in Workers, ChildStart(w)
      PROVE  HandsOver(i)
  <2>1. \/ UNCHANGED rows /\ WorkMoves(w, "resolve")
        \/ Saves(<<"child", work[w].title>>, work[w].title, "running") /\ WorkMoves(w, "child")
    BY <1>9, ChildStartDoes
  <2>2. w = Refresher /\ work[w].at = "work" /\ UNCHANGED <<queues, sched, ask>>
    BY <1>9, ChildStartDoes
  <2>3. \A at : at \in {"child", "resolve"} /\ WorkMoves(w, at) => ((\A v \in Workers : WorkRuns(v, i) => WorkRuns(v, i)'))
    BY <2>2 DEF WorkRuns, WorkMoves
  <2>4. ((QueueRuns(i) => QueueRuns(i)')) /\ ((SchedRuns(i) => SchedRuns(i)')) /\ (\A b \in Askers : AskRuns(b, i) => AskRuns(b, i)')
    BY <2>2 DEF QueueRuns, SchedRuns, AskRuns
  <2>5. CASE UNCHANGED rows /\ WorkMoves(w, "resolve")
    BY <2>3, <2>4, <2>5, RunnerStays, RunnerIs
  <2>6. CASE Saves(<<"child", work[w].title>>, work[w].title, "running") /\ WorkMoves(w, "child")
    <3> DEFINE j == <<"child", work[w].title>>
    <3>1. j \in Ids /\ j[2] = work[w].title /\ j[1] = "child"
      BY <1>0, <2>2, InHand
    <3>2. RowsOK /\ (\A n \in Ids : rows[n].key = n[2]) /\ Saves(j, j[2], "running")
      BY <1>0, <2>6, <3>1 DEF Types, Untouched
    <3>3. i = j => WorkRuns(w, i)'
      BY <2>2, <2>6, <3>1 DEF WorkRuns, WorkMoves
    <3> HIDE DEF j
    <3>4. \A n \in Ids \ {j} : rows'[n] = rows[n]
      BY <3>1, <3>2, SavesItsOwn
    <3>5. CASE i = j
      BY <3>3, <3>5, RunnerIs DEF HandsOver
    <3>6. CASE i # j
      <4>1. (\A v \in Workers : WorkRuns(v, i) => WorkRuns(v, i)')
        BY <2>3, <2>6
      <4> QED BY <1>0, <2>4, <3>4, <3>6, <4>1, RunnerStays, RunnerIs
    <3> QED BY <3>5, <3>6
  <2> QED BY <2>1, <2>5, <2>6
<1>10. ASSUME NEW w \in Workers, ChildFails(w)
      PROVE  HandsOver(i)
  <2>1. w = Refresher /\ work[w].at = "child" /\ WorkMoves(w, "resolve")
        /\ UNCHANGED <<queues, sched, ask>>
    BY <1>10, ChildFailsDoes
  <2>2. (UNCHANGED rows /\ work'[w].result = "timeout")
        \/ SavesDone(<<"child", work[w].title>>, work[w].title)
    BY <1>10, ChildFailsDoes
  <2>3. CASE work'[w].result = "timeout"
    BY <2>1, <2>3 DEF HandsOver, Strands
  <2>4. CASE SavesDone(<<"child", work[w].title>>, work[w].title)
    BY <1>0, <2>1, <2>4, ChildSettles
  <2> QED BY <2>2, <2>3, <2>4
<1>11. ASSUME NEW w \in Workers, ChildEnds(w)
      PROVE  HandsOver(i)
  <2>1. w = Refresher /\ work[w].at = "child" /\ WorkMoves(w, "resolve")
        /\ UNCHANGED <<queues, sched, ask>>
    BY <1>11, ChildEndsDoes
  <2> DEFINE j == <<"child", work[w].title>>
  <2>2. j \in Ids /\ rows[j].key = work[w].title
    BY <1>0, <2>1, InHand DEF Untouched
  <2>3. (UNCHANGED rows /\ rows[j].state = "absent") \/ SavesDone(j, work[w].title)
    BY <2>2, <1>11, ChildEndsDoes DEF Found, GetJob
  <2>4. CASE UNCHANGED rows /\ rows[j].state = "absent"
    <3>1. i = j => rows'[i].state \notin Active
      BY <2>4 DEF Active
    <3>2. i # j => ((\A v \in Workers : WorkRuns(v, i) => WorkRuns(v, i)'))
      BY <1>0, <2>1, IdsAre DEF WorkRuns, WorkMoves
    <3> QED BY <2>1, <2>4, <3>1, <3>2, RunnerStays, RunnerIs DEF HandsOver, QueueRuns, SchedRuns, AskRuns
  <2>5. CASE SavesDone(j, work[w].title)
    BY <1>0, <2>1, <2>5, ChildSettles
  <2> QED BY <2>3, <2>4, <2>5
<1>12. ASSUME NEW w \in Workers, Answer(w)
      PROVE  HandsOver(i)
  <2>1. /\ rows'[i] = rows[i] /\ (QueueRuns(i) => QueueRuns(i)') /\ (SchedRuns(i) => SchedRuns(i)')
    BY <1>12, AnswerDoes DEF QueueRuns, SchedRuns, SchedTo
  <2>2. (\A v \in Workers : WorkRuns(v, i) => WorkRuns(v, i)')
    BY <1>0, <1>12, AnswerDoes DEF WorkRuns, WorkMoves, WorkEnds
  <2>3. (\A b \in Askers : AskRuns(b, i) => AskRuns(b, i)')
    BY <1>0, <1>12, AnswerDoes DEF AskRuns, WorkMoves, WorkEnds
  <2> QED BY <2>1, <2>2, <2>3, RunnerStays, RunnerIs
<1>13. ASSUME NEW w \in Workers, Drop(w)
      PROVE  HandsOver(i)
  <2>1. work[w].at = "resolve" /\ work'[w].at = "done"
    BY <1>13, DropDoes DEF WorkRenamed
  <2> QED BY <2>1 DEF HandsOver, Strands
<1>14. ASSUME NEW w \in Workers, Resolve(w)
      PROVE  HandsOver(i)
  <2>1. /\ rows'[i] = rows[i] /\ (QueueRuns(i) => QueueRuns(i)') /\ (SchedRuns(i) => SchedRuns(i)')
    BY <1>14, ResolveDoes DEF QueueRuns, SchedRuns, SchedTo
  <2>2. (\A v \in Workers : WorkRuns(v, i) => WorkRuns(v, i)')
    BY <1>0, <1>14, ResolveDoes DEF WorkRuns, WorkRenamed
  <2>3. (\A b \in Askers : AskRuns(b, i) => AskRuns(b, i)')
    BY <1>0, <1>14, ResolveDoes DEF AskRuns, WorkRenamed
  <2> QED BY <2>1, <2>2, <2>3, RunnerStays, RunnerIs
<1>15. ASSUME NEW w \in Workers, Land(w)
      PROVE  HandsOver(i)
  <2>1. /\ rows'[i] = rows[i] /\ (QueueRuns(i) => QueueRuns(i)') /\ (SchedRuns(i) => SchedRuns(i)')
    BY <1>15, LandDoes DEF QueueRuns, SchedRuns, SchedTo
  <2>2. (\A v \in Workers : WorkRuns(v, i) => WorkRuns(v, i)')
    BY <1>0, <1>15, LandDoes DEF WorkRuns, WorkMoves, WorkEnds
  <2>3. (\A b \in Askers : AskRuns(b, i) => AskRuns(b, i)')
    BY <1>0, <1>15, LandDoes DEF AskRuns, WorkMoves, WorkEnds
  <2> QED BY <2>1, <2>2, <2>3, RunnerStays, RunnerIs
<1>16. ASSUME NEW w \in Workers, AskMetadata(w)
      PROVE  HandsOver(i)
  <2>1. /\ rows'[i] = rows[i] /\ (QueueRuns(i) => QueueRuns(i)') /\ (SchedRuns(i) => SchedRuns(i)')
    BY <1>16, AskMetadataDoes DEF QueueRuns, SchedRuns, SchedTo
  <2>2. (\A v \in Workers : WorkRuns(v, i) => WorkRuns(v, i)')
    BY <1>0, <1>16, AskMetadataDoes, ActorsAre DEF WorkRuns, MayAsk, AskBegins, WorkMoves
  <2>3. (\A b \in Askers : AskRuns(b, i) => AskRuns(b, i)')
    BY <1>0, <1>16, AskMetadataDoes, ActorsAre DEF AskRuns, MayAsk, AskBegins, WorkMoves
  <2> QED BY <2>1, <2>2, <2>3, RunnerStays, RunnerIs
<1>17. ASSUME NEW w \in Workers, Finish(w)
      PROVE  HandsOver(i)
  <2> DEFINE j == work[w].id
  <2>1. j \in Ids /\ j[2] = work[w].title /\ j[1] = KindOf(w) /\ work[w].key = work[w].title
    BY <1>0, <1>17, FinishDoes, InHand, IdsAre DEF Untouched
  <2>2. RowsOK /\ \A n \in Ids : rows[n].key = n[2]
    BY <1>0 DEF Types, Untouched
  <2>3. WorkMoves(w, "done") /\ work[w].at = "finish" /\ UNCHANGED <<queues, sched, ask>>
    BY <1>17, FinishDoes
  <2>4. \E state : Saves(j, j[2], state) /\ state \notin Active
    BY <1>17, <2>1, FinishDoes DEF SavesDone, Active
  <2> HIDE DEF j
  <2>5. \A n \in Ids \ {j} : rows'[n] = rows[n]
    BY <2>1, <2>2, <2>4, SavesItsOwn
  <2>6. CASE i = j
    <3>1. rows'[i].state \notin Active
      BY <2>1, <2>2, <2>4, <2>6, SavesItsOwn
    <3> QED BY <3>1 DEF HandsOver
  <2>7. CASE i # j
    <3>1. rows'[i] = rows[i] /\ ((QueueRuns(i) => QueueRuns(i)')) /\ ((SchedRuns(i) => SchedRuns(i)')) /\ (\A b \in Askers : AskRuns(b, i) => AskRuns(b, i)')
      BY <2>3, <2>5, <2>7 DEF QueueRuns, SchedRuns, AskRuns
    <3>2. i # j => ~WorkRuns(w, i) \/ WorkRuns(w, i)'
      BY <2>1, <2>3, IdsAre DEF WorkRuns, WorkMoves
    <3>3. \A v \in Workers : WorkRuns(v, i) => WorkRuns(v, i)'
      BY <2>3, <2>7, <3>2 DEF WorkRuns, WorkMoves
    <3> QED BY <3>1, <3>3, RunnerStays, RunnerIs
  <2> QED BY <2>6, <2>7
<1>18. ASSUME NEW w \in Workers, Done(w)
      PROVE  HandsOver(i)
  <2>1. /\ rows'[i] = rows[i] /\ (QueueRuns(i) => QueueRuns(i)') /\ (SchedRuns(i) => SchedRuns(i)')
    BY <1>18, DoneDoes DEF QueueRuns, SchedRuns, SchedTo
  <2>2. (\A v \in Workers : WorkRuns(v, i) => WorkRuns(v, i)')
    BY <1>0, <1>18, DoneDoes DEF WorkRuns, WorkMoves, WorkEnds
  <2>3. (\A b \in Askers : AskRuns(b, i) => AskRuns(b, i)')
    BY <1>0, <1>18, DoneDoes DEF AskRuns, WorkMoves, WorkEnds
  <2> QED BY <2>1, <2>2, <2>3, RunnerStays, RunnerIs
<1>19. CASE Recover
  <2>1. rows'[i].state \in Active => SchedRuns(i)'
    BY <1>0, <1>19, RecoverDoes DEF SchedRuns, SchedTo
  <2> QED BY <2>1, RunnerIs DEF HandsOver
<1>20. CASE RecoverRow
  <2>1. PICK s \in sched.list : /\ SchedTo("recovering", sched.list \ {s})
            /\ \/ /\ s.id[1] = "refresh" /\ Saves(s.id, s.row.key, "queued")
                  /\ Receives("refresh", s.row.key)
               \/ UNCHANGED queues
    BY <1>20, RecoverRowDoes
  <2>2. sched.at = "recovering" /\ UNCHANGED <<work, ask>>
    BY <1>20, RecoverRowDoes
  <2>3. CASE UNCHANGED queues
    BY <2>1, <2>2, <2>3 DEF HandsOver, Strands, SchedTo
  <2>4. CASE s.id[1] = "refresh" /\ Saves(s.id, s.row.key, "queued") /\ Receives("refresh", s.row.key)
    <3>1. /\ s.id \in Ids /\ s.row.key = s.id[2] /\ RowsOK /\ QueuesOK
          /\ \A n \in Ids : rows[n].key = n[2]
      BY <1>0 DEF Types, SchedOK, Snapshot, Untouched
    <3>2. \A n \in Ids \ {s.id} : rows'[n] = rows[n]
      BY <2>4, <3>1, SavesItsOwn
    <3>3. s.id = <<"refresh", s.row.key>> /\ "refresh" \in QueueKinds
      BY <2>4, <3>1, IdsAre DEF QueueKinds
    <3>4. ((QueueRuns(i) => QueueRuns(i)')) /\ (i = s.id => QueueRuns(i)')
      BY <1>0, <2>4, <3>1, <3>3, QueuesRun
    <3>5. ((\A v \in Workers : WorkRuns(v, i) => WorkRuns(v, i)')) /\ (\A b \in Askers : AskRuns(b, i) => AskRuns(b, i)')
      BY <2>2 DEF WorkRuns, AskRuns
    <3>6. i # s.id => ((SchedRuns(i) => SchedRuns(i)'))
      BY <2>1, <2>2 DEF SchedRuns, SchedTo
    <3>7. CASE i = s.id
      BY <3>4, <3>7, RunnerIs DEF HandsOver
    <3>8. CASE i # s.id
      BY <1>0, <3>2, <3>4, <3>5, <3>6, <3>8, RunnerStays, RunnerIs
    <3> QED BY <3>7, <3>8
  <2> QED BY <2>1, <2>3, <2>4
<1>21. CASE Recovered
  <2>1. /\ rows'[i] = rows[i] /\ (QueueRuns(i) => QueueRuns(i)') /\ (SchedRuns(i) => SchedRuns(i)')
    BY <1>21, RecoveredDoes DEF QueueRuns, SchedRuns, SchedTo
  <2>2. (\A v \in Workers : WorkRuns(v, i) => WorkRuns(v, i)')
    BY <1>0, <1>21, RecoveredDoes DEF WorkRuns, SchedTo
  <2>3. (\A b \in Askers : AskRuns(b, i) => AskRuns(b, i)')
    BY <1>0, <1>21, RecoveredDoes DEF AskRuns, SchedTo
  <2> QED BY <2>1, <2>2, <2>3, RunnerStays, RunnerIs
<1>22. ASSUME NEW waitingOnly \in BOOLEAN, ListDue(waitingOnly)
      PROVE  HandsOver(i)
  <2>1. /\ rows'[i] = rows[i] /\ (QueueRuns(i) => QueueRuns(i)') /\ (SchedRuns(i) => SchedRuns(i)')
    BY <1>22, ListDueDoes DEF QueueRuns, SchedRuns, SchedTo
  <2>2. (\A v \in Workers : WorkRuns(v, i) => WorkRuns(v, i)')
    BY <1>0, <1>22, ListDueDoes DEF WorkRuns, SchedTo
  <2>3. (\A b \in Askers : AskRuns(b, i) => AskRuns(b, i)')
    BY <1>0, <1>22, ListDueDoes DEF AskRuns, SchedTo
  <2> QED BY <2>1, <2>2, <2>3, RunnerStays, RunnerIs
<1>23. CASE RetryRow
  <2>1. PICK s \in sched.list : /\ SchedTo("retry", sched.list \ {s})
                                 /\ Saves(s.id, s.row.key, "failed")
    BY <1>23, RetryRowDoes
  <2>2. sched.at = "retrying" /\ UNCHANGED <<work, ask, queues>>
    BY <1>23, RetryRowDoes
  <2>3. /\ s.id \in Ids /\ s.row.key = s.id[2] /\ RowsOK
        /\ \A n \in Ids : rows[n].key = n[2]
    BY <1>0 DEF Types, SchedOK, Snapshot, Untouched
  <2>4. rows'[s.id].state = "failed" /\ \A n \in Ids \ {s.id} : rows'[n] = rows[n]
    BY <2>1, <2>3, SavesItsOwn
  <2>5. CASE i = s.id
    BY <2>4, <2>5 DEF HandsOver, Active
  <2>6. CASE i # s.id
    <3>1. ((QueueRuns(i) => QueueRuns(i)')) /\ ((SchedRuns(i) => SchedRuns(i)')) /\ ((\A v \in Workers : WorkRuns(v, i) => WorkRuns(v, i)')) /\ ((\A b \in Askers : AskRuns(b, i) => AskRuns(b, i)'))
      BY <2>2 DEF QueueRuns, SchedRuns, WorkRuns, AskRuns
    <3> QED BY <1>0, <2>4, <2>6, <3>1, RunnerStays, RunnerIs
  <2> QED BY <2>5, <2>6
<1>24. CASE RetryDue
  <2>1. /\ rows'[i] = rows[i] /\ (QueueRuns(i) => QueueRuns(i)') /\ (SchedRuns(i) => SchedRuns(i)')
    BY <1>24, RetryDueDoes DEF QueueRuns, SchedRuns, SchedTo
  <2>2. (\A v \in Workers : WorkRuns(v, i) => WorkRuns(v, i)')
    BY <1>0, <1>24, RetryDueDoes DEF WorkRuns, MayAsk, AskBegins
  <2>3. (\A b \in Askers : AskRuns(b, i) => AskRuns(b, i)')
    BY <1>0, <1>24, RetryDueDoes DEF AskRuns, MayAsk, AskBegins
  <2> QED BY <2>1, <2>2, <2>3, RunnerStays, RunnerIs
<1>25. ASSUME NEW old \in Titles, NEW new \in Titles, moveExtinctGroupDependents(old, new)
      PROVE  HandsOver(i)
  <2>1. alive' # Titles
    BY <1>25, moveExtinctGroupDependentsDoes
  <2> QED BY <2>1
<1>26. ASSUME NEW t \in Titles, Expire(t)
      PROVE  HandsOver(i)
  <2>1. /\ rows'[i] = rows[i] /\ (QueueRuns(i) => QueueRuns(i)') /\ (SchedRuns(i) => SchedRuns(i)')
    BY <1>26, ExpireDoes DEF QueueRuns, SchedRuns, SchedTo
  <2>2. (\A v \in Workers : WorkRuns(v, i) => WorkRuns(v, i)')
    BY <1>0, <1>26, ExpireDoes DEF WorkRuns, SchedTo
  <2>3. (\A b \in Askers : AskRuns(b, i) => AskRuns(b, i)')
    BY <1>0, <1>26, ExpireDoes DEF AskRuns, SchedTo
  <2> QED BY <2>1, <2>2, <2>3, RunnerStays, RunnerIs
<1>27. CASE Restart
  <2>1. SchedRuns(i)'
    BY <1>27, RestartDoes DEF SchedRuns, SchedTo
  <2> QED BY <2>1, RunnerIs DEF HandsOver
<1>28. CASE UNCHANGED <<vars, history>>
  <2>1. rows'[i] = rows[i] /\ ((QueueRuns(i) => QueueRuns(i)')) /\ ((SchedRuns(i) => SchedRuns(i)')) /\ ((\A v \in Workers : WorkRuns(v, i) => WorkRuns(v, i)')) /\ (\A b \in Askers : AskRuns(b, i) => AskRuns(b, i)')
    BY <1>28 DEF QueueRuns, SchedRuns, WorkRuns, AskRuns, vars
  <2> QED BY <2>1, RunnerStays, RunnerIs
<1> QED
  BY <1>1, <1>2, <1>3, <1>4, <1>5, <1>6, <1>7, <1>8, <1>9, <1>10, <1>11, <1>12, <1>13,
     <1>14, <1>15, <1>16, <1>17, <1>18, <1>19, <1>20, <1>21, <1>22, <1>23, <1>24, <1>25,
     <1>26, <1>27, <1>28
     DEF Next, Enqueue, Run, Schedule, Happens

(* The inductive invariant of ActiveHasRunner.                             *)
RunsOrLost == \A i \in Ids : rows[i].state \in Active => HasRunner(i) \/ i \in lost

LEMMA RunsStep ==
  ASSUME JobsInv, alive = Titles => RunsOrLost, [Next]_<<vars, history>>, alive' = Titles
  PROVE  RunsOrLost'
<1>1. Types /\ Untouched /\ RunsOrLost /\ alive = Titles
  BY AliveShrinks DEF JobsInv, Types, CatalogOK
<1>2. (Types /\ Untouched)'
  BY JobsStep DEF JobsInv
<1>3. (\A i \in Ids : Served(i) <=> HasRunner(i))'
  <2>1. (Types /\ Untouched => \A i \in Ids : Served(i) <=> HasRunner(i))'
    BY ServedIs, PTL
  <2> QED BY <1>2, <2>1
<1> SUFFICES ASSUME NEW i \in Ids, rows'[i].state \in Active, ~HasRunner(i)'
             PROVE  i \in lost'
  BY DEF RunsOrLost
<1>4. HandsOver(i)
  BY <1>1, HandsOverStep
<1>5. CASE UNCHANGED <<vars, history>>
  <2>1. UNCHANGED <<rows, lost, queues, sched, work, ask>>
    BY <1>5 DEF vars, history
  <2>2. HasRunner(i)' <=> HasRunner(i)
    BY <2>1 DEF HasRunner, QueueRuns, SchedRuns, WorkRuns, AskRuns
  <2> QED BY <1>1, <2>1, <2>2 DEF RunsOrLost
<1>6. CASE HistoryStep
  <2>1. lost' = {n \in Ids : \/ Strands /\ Stranded(n)'
                             \/ n \in lost /\ rows'[n].state = rows[n].state}
    BY <1>6 DEF HistoryStep
  <2>2. Stranded(i)'
    BY <1>3 DEF Stranded
  <2>3. CASE Strands
    BY <2>1, <2>2, <2>3
  <2>4. CASE rows'[i].state = rows[i].state /\ ~HasRunner(i)
    BY <1>1, <2>1, <2>4 DEF RunsOrLost
  <2> QED BY <1>4, <2>3, <2>4 DEF HandsOver
<1> QED BY <1>5, <1>6 DEF Next

(* Until titles merge, an active row is with a worker, in a queue, with a  *)
(* handler or about to be recovered, or was left by a step of Strands.     *)
THEOREM RunnerTheorem == Spec => []ActiveHasRunner
<1> DEFINE Runner == alive = Titles => RunsOrLost
<1>1. Init => JobsInv /\ Runner
  <2>1. Init => \A i \in Ids : rows[i].state \notin Active
    BY IdsAre DEF Init, Absent, Job, Active
  <2> QED BY <2>1, JobsInit DEF RunsOrLost
<1>2. JobsInv /\ Runner /\ [Next]_<<vars, history>> => (JobsInv /\ Runner)'
  BY JobsStep, RunsStep
<1>3. JobsInv /\ Runner => ActiveHasRunner
  BY ServedIs DEF JobsInv, RunsOrLost, ActiveHasRunner, Stranded
<1> QED BY <1>1, <1>2, <1>3, PTL DEF Spec
(* What a step does to a lookup.                                           *)
Carries(w) == work'[w].id = work[w].id /\ work'[w].key = work[w].key
Moves(w) ==
  \/ work'[w].at \in {"idle", "finish", "done"}
  \/ work'[w].at = "land" /\ Found(work[w].id) /\ work'[w].key = rows[work[w].id].key
  \/ Carries(w) /\ work'[w].at = work[w].at
  \/ Carries(w) /\ work[w].at = "work" /\ work'[w].at = "resolve"
  \/ /\ Carries(w) /\ work[w].at = "start" /\ work'[w].at = "work"
     /\ Saves(work[w].id, work[w].key, "running")
  \/ /\ work[w].at = "idle" /\ work'[w].at = "start"
     /\ Found(work'[w].id) => work'[w].key = rows[work'[w].id].key

LEMMA LookupMoves ==
  ASSUME Types, NEW l \in Lookups, [Next]_<<vars, history>>
  PROVE  Moves(l)
<1>0. Types /\ l \in Lookups /\ l \in Workers /\ l # Refresher
  BY ActorsAssumption DEF Workers
<1>1. ASSUME NEW a \in Askers, AskSave(a)
      PROVE  Moves(l)
  BY <1>0, <1>1, AskSaveDoes DEF Moves, Carries
<1>2. ASSUME NEW a \in Askers, AskSend(a)
      PROVE  Moves(l)
  BY <1>0, <1>2, AskSendDoes DEF Moves, Carries
<1>3. ASSUME NEW a \in Askers, AskFull(a)
      PROVE  Moves(l)
  BY <1>0, <1>3, AskFullDoes DEF Moves, Carries
<1>4. ASSUME NEW a \in Askers, AskGiveUp(a)
      PROVE  Moves(l)
  BY <1>0, <1>4, AskGiveUpDoes DEF Moves, Carries
<1>5. ASSUME NEW c \in Callers, AskSaveFails(c)
      PROVE  Moves(l)
  BY <1>0, <1>5, AskSaveFailsDoes DEF Moves, Carries
<1>6. ASSUME NEW c \in Callers, CallerAsks(c)
      PROVE  Moves(l)
  BY <1>0, <1>6, CallerAsksDoes DEF Moves, Carries
<1>7. ASSUME NEW w \in Workers, Take(w)
      PROVE  Moves(l)
  <2>1. CASE l = w
    <3>1. work[w].at = "idle" /\ WorkTakes(w, queues[KindOf(w)][1].title)
      BY <1>7, TakeDoes
    <3>2. work'[w].at = "start" /\ (Found(work'[w].id) => work'[w].key = rows[work'[w].id].key)
      BY <3>1 DEF WorkTakes
    <3> QED BY <2>1, <3>1, <3>2 DEF Moves
  <2>2. CASE l # w
    BY <1>0, <2>2, <1>7, TakeDoes DEF Moves, Carries, WorkTakes
  <2> QED BY <2>1, <2>2
<1>8. ASSUME NEW w \in Workers, Start(w)
      PROVE  Moves(l)
  <2>1. CASE l = w
    BY <1>0, <2>1, <1>8, StartDoes DEF Moves, Carries, WorkMoves, WorkRenamed, WorkEnds
  <2>2. CASE l # w
    BY <1>0, <2>2, <1>8, StartDoes DEF Moves, Carries, WorkMoves, WorkRenamed, WorkEnds
  <2> QED BY <2>1, <2>2
<1>9. ASSUME NEW w \in Workers, ChildStart(w)
      PROVE  Moves(l)
  <2>1. CASE l = w
    BY <1>0, <2>1, <1>9, ChildStartDoes DEF Moves, Carries, WorkMoves, WorkRenamed, WorkEnds
  <2>2. CASE l # w
    BY <1>0, <2>2, <1>9, ChildStartDoes DEF Moves, Carries, WorkMoves, WorkRenamed, WorkEnds
  <2> QED BY <2>1, <2>2
<1>10. ASSUME NEW w \in Workers, ChildFails(w)
      PROVE  Moves(l)
  <2>1. CASE l = w
    BY <1>0, <2>1, <1>10, ChildFailsDoes DEF Moves, Carries, WorkMoves, WorkRenamed, WorkEnds
  <2>2. CASE l # w
    BY <1>0, <2>2, <1>10, ChildFailsDoes DEF Moves, Carries, WorkMoves, WorkRenamed, WorkEnds
  <2> QED BY <2>1, <2>2
<1>11. ASSUME NEW w \in Workers, ChildEnds(w)
      PROVE  Moves(l)
  <2>1. CASE l = w
    BY <1>0, <2>1, <1>11, ChildEndsDoes DEF Moves, Carries, WorkMoves, WorkRenamed, WorkEnds
  <2>2. CASE l # w
    BY <1>0, <2>2, <1>11, ChildEndsDoes DEF Moves, Carries, WorkMoves, WorkRenamed, WorkEnds
  <2> QED BY <2>1, <2>2
<1>12. ASSUME NEW w \in Workers, Answer(w)
      PROVE  Moves(l)
  <2>1. CASE l = w
    BY <1>0, <2>1, <1>12, AnswerDoes DEF Moves, Carries, WorkMoves, WorkRenamed, WorkEnds
  <2>2. CASE l # w
    BY <1>0, <2>2, <1>12, AnswerDoes DEF Moves, Carries, WorkMoves, WorkRenamed, WorkEnds
  <2> QED BY <2>1, <2>2
<1>13. ASSUME NEW w \in Workers, Drop(w)
      PROVE  Moves(l)
  <2>1. CASE l = w
    BY <1>0, <2>1, <1>13, DropDoes DEF Moves, Carries, WorkMoves, WorkRenamed, WorkEnds
  <2>2. CASE l # w
    BY <1>0, <2>2, <1>13, DropDoes DEF Moves, Carries, WorkMoves, WorkRenamed, WorkEnds
  <2> QED BY <2>1, <2>2
<1>14. ASSUME NEW w \in Workers, Resolve(w)
      PROVE  Moves(l)
  <2>1. CASE l = w
    BY <1>0, <2>1, <1>14, ResolveDoes DEF Moves, Carries, WorkMoves, WorkRenamed, WorkEnds
  <2>2. CASE l # w
    BY <1>0, <2>2, <1>14, ResolveDoes DEF Moves, Carries, WorkMoves, WorkRenamed, WorkEnds
  <2> QED BY <2>1, <2>2
<1>15. ASSUME NEW w \in Workers, Land(w)
      PROVE  Moves(l)
  <2>1. CASE l = w
    BY <1>0, <2>1, <1>15, LandDoes DEF Moves, Carries, WorkMoves, WorkRenamed, WorkEnds
  <2>2. CASE l # w
    BY <1>0, <2>2, <1>15, LandDoes DEF Moves, Carries, WorkMoves, WorkRenamed, WorkEnds
  <2> QED BY <2>1, <2>2
<1>16. ASSUME NEW w \in Workers, AskMetadata(w)
      PROVE  Moves(l)
  <2>1. CASE l = w
    BY <1>0, <2>1, <1>16, AskMetadataDoes DEF Moves, Carries, WorkMoves, WorkRenamed, WorkEnds
  <2>2. CASE l # w
    BY <1>0, <2>2, <1>16, AskMetadataDoes DEF Moves, Carries, WorkMoves, WorkRenamed, WorkEnds
  <2> QED BY <2>1, <2>2
<1>17. ASSUME NEW w \in Workers, Finish(w)
      PROVE  Moves(l)
  <2>1. CASE l = w
    BY <1>0, <2>1, <1>17, FinishDoes DEF Moves, Carries, WorkMoves, WorkRenamed, WorkEnds
  <2>2. CASE l # w
    BY <1>0, <2>2, <1>17, FinishDoes DEF Moves, Carries, WorkMoves, WorkRenamed, WorkEnds
  <2> QED BY <2>1, <2>2
<1>18. ASSUME NEW w \in Workers, Done(w)
      PROVE  Moves(l)
  <2>1. CASE l = w
    BY <1>0, <2>1, <1>18, DoneDoes DEF Moves, Carries, WorkMoves, WorkRenamed, WorkEnds
  <2>2. CASE l # w
    BY <1>0, <2>2, <1>18, DoneDoes DEF Moves, Carries, WorkMoves, WorkRenamed, WorkEnds
  <2> QED BY <2>1, <2>2
<1>19. CASE Recover
  BY <1>0, <1>19, RecoverDoes DEF Moves, Carries
<1>20. CASE RecoverRow
  BY <1>0, <1>20, RecoverRowDoes DEF Moves, Carries
<1>21. CASE Recovered
  BY <1>0, <1>21, RecoveredDoes DEF Moves, Carries
<1>22. ASSUME NEW waitingOnly \in BOOLEAN, ListDue(waitingOnly)
      PROVE  Moves(l)
  BY <1>0, <1>22, ListDueDoes DEF Moves, Carries
<1>23. CASE RetryRow
  BY <1>0, <1>23, RetryRowDoes DEF Moves, Carries
<1>24. CASE RetryDue
  BY <1>0, <1>24, RetryDueDoes DEF Moves, Carries
<1>25. ASSUME NEW old \in Titles, NEW new \in Titles, moveExtinctGroupDependents(old, new)
      PROVE  Moves(l)
  BY <1>0, <1>25, moveExtinctGroupDependentsDoes DEF Moves, Carries
<1>26. ASSUME NEW t \in Titles, Expire(t)
      PROVE  Moves(l)
  BY <1>0, <1>26, ExpireDoes DEF Moves, Carries
<1>27. CASE Restart
  BY <1>0, <1>27, RestartDoes, SomeoneIsThere DEF Moves
<1>28. CASE UNCHANGED <<vars, history>>
  BY <1>0, <1>28 DEF Moves, Carries, vars
<1> QED
  BY <1>1, <1>2, <1>3, <1>4, <1>5, <1>6, <1>7, <1>8, <1>9, <1>10, <1>11, <1>12, <1>13,
     <1>14, <1>15, <1>16, <1>17, <1>18, <1>19, <1>20, <1>21, <1>22, <1>23, <1>24, <1>25,
     <1>26, <1>27, <1>28
     DEF Next, Enqueue, Run, Schedule, Happens

(* A merge renames the active rows of the title that goes.                 *)
LEMMA LivingStay ==
  ASSUME Types, NEW i \in Ids, rows'[i] = rows[i], rows[i].state \in Active, rows[i].key \in alive, [Next]_<<vars, history>>
  PROVE  rows[i].key \in alive'
<1>0. Types
  OBVIOUS
<1>1. ASSUME NEW a \in Askers, AskSave(a)
      PROVE  rows[i].key \in alive'
  BY <1>0, <1>1, AskSaveDoes
<1>2. ASSUME NEW a \in Askers, AskSend(a)
      PROVE  rows[i].key \in alive'
  BY <1>0, <1>2, AskSendDoes
<1>3. ASSUME NEW a \in Askers, AskFull(a)
      PROVE  rows[i].key \in alive'
  BY <1>0, <1>3, AskFullDoes
<1>4. ASSUME NEW a \in Askers, AskGiveUp(a)
      PROVE  rows[i].key \in alive'
  BY <1>0, <1>4, AskGiveUpDoes
<1>5. ASSUME NEW c \in Callers, AskSaveFails(c)
      PROVE  rows[i].key \in alive'
  BY <1>0, <1>5, AskSaveFailsDoes
<1>6. ASSUME NEW c \in Callers, CallerAsks(c)
      PROVE  rows[i].key \in alive'
  BY <1>0, <1>6, CallerAsksDoes
<1>7. ASSUME NEW w \in Workers, Take(w)
      PROVE  rows[i].key \in alive'
  BY <1>0, <1>7, TakeDoes
<1>8. ASSUME NEW w \in Workers, Start(w)
      PROVE  rows[i].key \in alive'
  BY <1>0, <1>8, StartDoes
<1>9. ASSUME NEW w \in Workers, ChildStart(w)
      PROVE  rows[i].key \in alive'
  BY <1>0, <1>9, ChildStartDoes
<1>10. ASSUME NEW w \in Workers, ChildFails(w)
      PROVE  rows[i].key \in alive'
  BY <1>0, <1>10, ChildFailsDoes
<1>11. ASSUME NEW w \in Workers, ChildEnds(w)
      PROVE  rows[i].key \in alive'
  BY <1>0, <1>11, ChildEndsDoes
<1>12. ASSUME NEW w \in Workers, Answer(w)
      PROVE  rows[i].key \in alive'
  BY <1>0, <1>12, AnswerDoes
<1>13. ASSUME NEW w \in Workers, Drop(w)
      PROVE  rows[i].key \in alive'
  BY <1>0, <1>13, DropDoes
<1>14. ASSUME NEW w \in Workers, Resolve(w)
      PROVE  rows[i].key \in alive'
  BY <1>0, <1>14, ResolveDoes
<1>15. ASSUME NEW w \in Workers, Land(w)
      PROVE  rows[i].key \in alive'
  BY <1>0, <1>15, LandDoes
<1>16. ASSUME NEW w \in Workers, AskMetadata(w)
      PROVE  rows[i].key \in alive'
  BY <1>0, <1>16, AskMetadataDoes
<1>17. ASSUME NEW w \in Workers, Finish(w)
      PROVE  rows[i].key \in alive'
  BY <1>0, <1>17, FinishDoes
<1>18. ASSUME NEW w \in Workers, Done(w)
      PROVE  rows[i].key \in alive'
  BY <1>0, <1>18, DoneDoes
<1>19. CASE Recover
  BY <1>0, <1>19, RecoverDoes
<1>20. CASE RecoverRow
  BY <1>0, <1>20, RecoverRowDoes
<1>21. CASE Recovered
  BY <1>0, <1>21, RecoveredDoes
<1>22. ASSUME NEW waitingOnly \in BOOLEAN, ListDue(waitingOnly)
      PROVE  rows[i].key \in alive'
  BY <1>0, <1>22, ListDueDoes
<1>23. CASE RetryRow
  BY <1>0, <1>23, RetryRowDoes
<1>24. CASE RetryDue
  BY <1>0, <1>24, RetryDueDoes
<1>25. ASSUME NEW old \in Titles, NEW new \in Titles, moveExtinctGroupDependents(old, new)
      PROVE  rows[i].key \in alive'
  <2>1. CASE rows[i].key = old /\ rows[i].state \in Active
    <3>1. rows'[i] = Absent(i) \/ (rows'[i] = [rows[i] EXCEPT !.key = new] /\ new # old)
      BY <2>1, <1>25, moveExtinctGroupDependentsDoes DEF Retargeted
    <3>2. Absent(i).state = "absent" /\ rows[i] \in Row
      BY DEF Absent, Job, Types, RowsOK
    <3> QED BY <2>1, <3>1, <3>2 DEF Active, Row
  <2>2. CASE ~(rows[i].key = old /\ rows[i].state \in Active)
    BY <2>2, <1>25, moveExtinctGroupDependentsDoes
  <2> QED BY <2>1, <2>2
<1>26. ASSUME NEW t \in Titles, Expire(t)
      PROVE  rows[i].key \in alive'
  BY <1>0, <1>26, ExpireDoes
<1>27. CASE Restart
  BY <1>0, <1>27, RestartDoes
<1>28. CASE UNCHANGED <<vars, history>>
  BY <1>28 DEF vars
<1> QED
  BY <1>1, <1>2, <1>3, <1>4, <1>5, <1>6, <1>7, <1>8, <1>9, <1>10, <1>11, <1>12, <1>13,
     <1>14, <1>15, <1>16, <1>17, <1>18, <1>19, <1>20, <1>21, <1>22, <1>23, <1>24, <1>25,
     <1>26, <1>27, <1>28
     DEF Next, Enqueue, Run, Schedule, Happens

(* The inductive invariant of LandsOnLiving: unless it is stray, a lookup  *)
(* has a row that a merge will rename, or has yet to write the row it read.*)
Lands(w) ==
  /\ work[w].at \in {"start", "work", "resolve"} /\ w \notin stray /\ Found(work[w].id)
  => \/ rows[work[w].id].key \in alive /\ rows[work[w].id].state \in Active
     \/ /\ work[w].at = "start" /\ rows[work[w].id].key = work[w].key
        /\ rows[work[w].id].state \notin Active

LEMMA LandsStep ==
  ASSUME Types, NEW w \in Lookups, Lands(w), [Next]_<<vars, history>>
  PROVE  Lands(w)'
<1> SUFFICES ASSUME work'[w].at \in {"start", "work", "resolve"}, w \notin stray',
                    Found(work[w].id)'
             PROVE  \/ rows'[work'[w].id].key \in alive' /\ rows'[work'[w].id].state \in Active
                    \/ /\ work'[w].at = "start" /\ rows'[work'[w].id].key = work'[w].key
                       /\ rows'[work'[w].id].state \notin Active
  BY DEF Lands
<1> DEFINE id == work'[w].id
<1>1. id \in Ids /\ rows'[id].state # "absent"
  <2>1. WorkOK' /\ w \in Workers
    BY TypesStep DEF Types, Workers
  <2> QED BY <2>1 DEF WorkOK, Work, Found, GetJob
<1>2. CASE UNCHANGED <<vars, history>>
  BY <1>2 DEF vars, history, Lands, Found, GetJob
<1>3. CASE HistoryStep
  <2>1. w \notin stray /\ ~Undoes(id) /\ ~TakesDead(w)
    BY <1>3 DEF HistoryStep
  <2>2. CASE rows'[id] # rows[id]
    BY <1>1, <2>1, <2>2 DEF Undoes
  <2>3. CASE rows'[id] = rows[id]
    <3>1. Found(id)
      BY <1>1, <2>3 DEF Found, GetJob
    <3>2. Moves(w)
      BY LookupMoves
    <3>3. CASE Carries(w) /\ work[w].at # "idle" /\ ~(work[w].at = "start" /\ work'[w].at = "work")
      <4>1. work[w].at \in {"start", "work", "resolve"} /\ work[w].id = id
            /\ (work[w].at # "start" => work'[w].at # "start")
            /\ (work[w].at = "start" => work'[w].at = "start")
        BY <3>2, <3>3 DEF Moves, Carries
      <4>2. \/ rows[id].key \in alive /\ rows[id].state \in Active
            \/ work[w].at = "start" /\ rows[id].key = work[w].key /\ rows[id].state \notin Active
        BY <2>1, <3>1, <4>1 DEF Lands
      <4>3. rows[id].key \in alive /\ rows[id].state \in Active => rows[id].key \in alive'
        BY <1>1, <2>3, LivingStay
      <4> QED BY <2>3, <3>3, <4>1, <4>2, <4>3 DEF Carries
    <3>4. CASE /\ Carries(w) /\ work[w].at = "start" /\ work'[w].at = "work"
               /\ Saves(work[w].id, work[w].key, "running")
      <4>1. work[w].id = id /\ Saves(id, work[w].key, "running")
        BY <3>4 DEF Carries
      <4>2. ~(rows[id].key = work[w].key /\ rows[id].state \notin Active)
        BY <2>3, <3>1, <4>1 DEF Saves, Found, GetJob, Active
      <4>3. rows[id].key \in alive /\ rows[id].state \in Active
        BY <2>1, <3>1, <3>4, <4>1, <4>2 DEF Lands
      <4>4. rows[id].key \in alive'
        BY <1>1, <2>3, <4>3, LivingStay
      <4> QED BY <2>3, <4>3, <4>4
    <3>5. CASE /\ work[w].at = "idle" /\ work'[w].at = "start"
               /\ work'[w].key = rows[id].key
      <4>1. rows[id].key \in alive
        BY <2>1, <3>1, <3>5 DEF TakesDead, GetJob
      <4>2. rows[id].state \in Active => rows[id].key \in alive'
        BY <1>1, <2>3, <4>1, LivingStay
      <4> QED BY <2>3, <3>5, <4>2
    <3> QED BY <3>1, <3>2, <3>3, <3>4, <3>5 DEF Moves
  <2> QED BY <2>2, <2>3
<1> QED BY <1>2, <1>3 DEF Next

(* A lookup that read its row again, to find the title that its own was    *)
(* merged into, lands on a title of the catalog, unless somebody wrote the *)
(* row back as it was before the merge.                                    *)
THEOREM LandingTheorem == Spec => LandsOnLiving
<1> DEFINE Landing == \A w \in Lookups : Lands(w)
<1>1. Init => JobsInv /\ Landing
  <2>1. Init => \A w \in Workers : work[w].at = "idle"
    BY SomeoneIsThere DEF Init
  <2> QED BY <2>1, JobsInit, ActorsAre DEF Lands
<1>2. JobsInv /\ Landing /\ [Next]_<<vars, history>> => (JobsInv /\ Landing)'
  <2> SUFFICES ASSUME JobsInv, Landing, [Next]_<<vars, history>>
               PROVE  (JobsInv /\ Landing)'
    OBVIOUS
  <2>1. \A w \in Lookups : Lands(w)'
    BY LandsStep DEF JobsInv
  <2> QED BY <2>1, JobsStep
<1>3. ASSUME JobsInv, Landing, [Next]_<<vars, history>>, NEW w \in Lookups,
             work[w].at = "resolve", work'[w].at = "land"
      PROVE  work'[w].key \in alive \/ w \in stray
  <2>1. Moves(w)
    BY <1>3, LookupMoves DEF JobsInv
  <2>2. Found(work[w].id) /\ work'[w].key = rows[work[w].id].key
    BY <1>3, <2>1 DEF Moves
  <2> QED BY <1>3, <2>2 DEF Lands
<1>4. JobsInv /\ Landing /\ [Next]_<<vars, history>> =>
        [\A w \in Lookups : work[w].at = "resolve" /\ work'[w].at = "land" =>
           work'[w].key \in alive \/ w \in stray]_vars
  BY <1>3
<1> HIDE DEF Landing
<1> QED BY <1>1, <1>2, <1>4, PTL DEF Spec, LandsOnLiving
================================================================================
