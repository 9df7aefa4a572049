------------------------------ MODULE QBittorrent ------------------------------
(***************************************************************************)
(* The qBittorrent adapter (internal/adapters/qbittorrent) and its         *)
(* operations on one info hash; its session is in QBSession.  The daemon   *)
(* is external and has other clients.  It answers every request, and an    *)
(* answer may be lost on the way: the request took effect and the caller   *)
(* saw an error.  It lists a torrent some time after it accepted it and    *)
(* deletes one some time after it was told to.  A change of priorities     *)
(* flattens the special priority of the first and last pieces, which       *)
(* toggling the flag off and on sets again.                                *)
(***************************************************************************)
EXTENDS Naturals, FiniteSets

CONSTANTS
    QBCallers,     \* requests and passes that use the adapter
    QBOps,         \* the operations they perform
    MaxQBOps,      \* bound: operations
    MaxLost        \* bound: answers lost

ASSUME QBAssumption ==
    /\ QBOps \subseteq {"add", "resolve", "prepare", "remove"} /\ "free" \notin QBCallers
    /\ MaxQBOps \in Nat /\ MaxLost \in Nat

VARIABLES
    torrent,     \* the daemon's torrent of the hash
    ready,       \* Client.ready holds the hash
    qbGate,      \* the caller that holds the hash's gate, or "free"
    qbLock,      \* the caller that holds the hash's prepare lock, or "free"
    call,        \* caller -> [op, at, changed (priorities)]
    promised,    \* an Add has succeeded and no Remove has begun since
    streaming,   \* the last PrepareFiles to succeed found the daemon so
    qbGaps,      \* what has happened that the adapter does not provide for
    qbCount      \* bounds: [ops, lost]

qbVars == <<torrent, ready, qbGate, qbLock, call, promised, streaming, qbGaps, qbCount>>

NoTorrent == [there |-> FALSE, by |-> "app", listed |-> FALSE, meta |-> FALSE,
              selected |-> FALSE, seq |-> FALSE, firstLast |-> FALSE, edges |-> FALSE,
              doomed |-> "no"]
Resting == [op |-> "none", at |-> "rest", changed |-> FALSE]

QBInit ==
    /\ torrent = NoTorrent /\ ready = FALSE /\ qbGate = "free" /\ qbLock = "free"
    /\ call = [c \in QBCallers |-> Resting] /\ streaming = TRUE /\ qbGaps = {}
    /\ promised = FALSE /\ qbCount = [ops |-> 0, lost |-> 0]

(********************************* the daemon ******************************)

Listed == torrent.there /\ torrent.listed

DaemonWorks ==
    /\ torrent.there
    /\ \/ ~torrent.listed /\ torrent' = [torrent EXCEPT !.listed = TRUE]
       \/ ~torrent.meta /\ torrent' = [torrent EXCEPT !.meta = TRUE]
       \/ torrent.doomed # "no" /\ torrent' = NoTorrent
    /\ UNCHANGED <<ready, qbGate, qbLock, call, promised, streaming, qbGaps, qbCount>>

(* A command to the daemon: it takes effect and is answered, takes effect  *)
(* with the answer lost, or fails.  ok is what the caller sees.            *)
Commanded(result, ok) ==
    \/ torrent' = result /\ ok /\ UNCHANGED qbCount
    \/ /\ torrent' = result /\ ~ok /\ qbCount.lost < MaxLost
       /\ qbCount' = [qbCount EXCEPT !.lost = @ + 1]
    \/ torrent' = torrent /\ ~ok /\ UNCHANGED qbCount

Doomed(by) == IF torrent.there THEN [torrent EXCEPT !.doomed = by] ELSE torrent

QBTo(c, at) == call' = [call EXCEPT ![c].at = at]
QBAt(c, op, at) == call[c].op = op /\ call[c].at = at
Rests(c) == call' = [call EXCEPT ![c] = Resting]

(* The application prepares and removes only torrents it has added.        *)
QBBegin(c, op) ==
    /\ call[c].op = "none" /\ qbCount.ops < MaxQBOps
    /\ op \in {"prepare", "remove"} => promised
    /\ qbCount' = [qbCount EXCEPT !.ops = @ + 1]
    /\ call' = [call EXCEPT ![c] = [Resting EXCEPT !.op = op, !.at = "wait"]]
    /\ qbGaps' = qbGaps
          \cup {"overlap" : d \in {e \in QBCallers : /\ call[e].op # "none"
                                                  /\ "remove" \in {op, call[e].op}}}
          \cup (IF torrent.doomed = "remove" THEN {"slow removal"} ELSE {})
    /\ promised' = (promised /\ op # "remove")
    /\ UNCHANGED <<torrent, ready, qbGate, qbLock, streaming>>

(*********************************** Add ***********************************)

AcquireGate(c) ==
    /\ call[c].op \in {"add", "resolve"} /\ call[c].at = "wait" /\ qbGate = "free"
    /\ qbGate' = c /\ QBTo(c, "gated")
    /\ UNCHANGED <<torrent, ready, qbLock, promised, streaming, qbGaps, qbCount>>

(* Add: the torrent is not prepared any more; a rejection as a duplicate   *)
(* is a success when Status confirms the torrent.                          *)
QBAdd(c) ==
    /\ QBAt(c, "add", "gated") /\ ready' = FALSE
    /\ \E ok \in BOOLEAN :
          /\ IF torrent.there
             THEN (ok => Listed) /\ UNCHANGED <<torrent, qbCount>>
             ELSE Commanded([NoTorrent EXCEPT !.there = TRUE, !.meta = TRUE,
                                              !.seq = TRUE, !.firstLast = TRUE], ok)
          /\ promised' = (promised \/ ok)
    /\ Rests(c) /\ qbGate' = "free"
    /\ UNCHANGED <<qbLock, streaming, qbGaps>>

(******************************** ResolveMagnet ****************************)

ResolveEnds(c) == Rests(c) /\ qbGate' = "free"

(* The preflight: a torrent that is there is exported as it is.            *)
Preflight(c) ==
    /\ QBAt(c, "resolve", "gated")
    /\ \/ /\ Listed /\ QBTo(c, "export") /\ UNCHANGED qbGate
       \/ /\ ~Listed /\ QBTo(c, "addMagnet") /\ UNCHANGED qbGate
       \/ ResolveEnds(c)
    /\ UNCHANGED <<torrent, ready, qbLock, promised, streaming, qbGaps, qbCount>>

(* The magnet is added to stop once its metadata is there.  An error ends  *)
(* the call: whether the torrent was added is not looked at.               *)
AddMagnet(c) ==
    /\ QBAt(c, "resolve", "addMagnet")
    /\ \E ok \in BOOLEAN :
          /\ IF torrent.there THEN torrent' = torrent /\ UNCHANGED qbCount
             ELSE Commanded([NoTorrent EXCEPT !.there = TRUE, !.by = "resolver"], ok)
          /\ IF ok
             THEN QBTo(c, "look") /\ UNCHANGED <<qbGate, qbGaps>>
             ELSE /\ ResolveEnds(c)
                  /\ qbGaps' = IF torrent' # torrent THEN qbGaps \cup {"lost add"}
                               ELSE qbGaps
    /\ UNCHANGED <<ready, qbLock, promised, streaming>>

(* The listing is polled a few times, and its tag says whose it is.  Not   *)
(* seen in time, or cancelled, the call ends with its torrent added.       *)
LookForAdded(c) ==
    /\ QBAt(c, "resolve", "look")
    /\ \/ /\ Listed /\ QBTo(c, IF torrent.by = "resolver" THEN "poll" ELSE "export")
          /\ UNCHANGED <<qbGate, qbGaps>>
       \/ /\ ResolveEnds(c)
          /\ qbGaps' = IF torrent.there THEN qbGaps \cup {"not listed"} ELSE qbGaps
    /\ UNCHANGED <<torrent, ready, qbLock, promised, streaming, qbCount>>

(* exportPreexisting and exportAndVerify: nothing is changed.              *)
ExportPreexisting(c) ==
    /\ QBAt(c, "resolve", "export") /\ ResolveEnds(c)
    /\ UNCHANGED <<torrent, ready, qbLock, promised, streaming, qbGaps, qbCount>>

(* The metadata is there, or the call is cancelled, or one of the requests *)
(* fails: the owned torrent is cleaned up either way.                      *)
PollMetadata(c) ==
    /\ QBAt(c, "resolve", "poll") /\ QBTo(c, "cleanup")
    /\ UNCHANGED <<torrent, ready, qbGate, qbLock, promised, streaming, qbGaps,
                   qbCount>>

\* Mutant: the cleanup does not wait for the removal.
CleanupNoWait(c) ==
    /\ QBAt(c, "resolve", "cleanup")
    /\ torrent' = Doomed("resolver")
    /\ ResolveEnds(c)
    /\ UNCHANGED <<ready, qbLock, promised, streaming, qbGaps, qbCount>>

(* cleanup: delete, whatever became of the call's context.                 *)
CleanupRemoves(c) ==
    /\ QBAt(c, "resolve", "cleanup") /\ QBTo(c, "removing")
    /\ \E ok \in BOOLEAN :
          /\ Commanded(Doomed("resolver"), ok)
          /\ qbGaps' = IF ok THEN qbGaps ELSE qbGaps \cup {"cleanup"}
    /\ UNCHANGED <<ready, qbGate, qbLock, promised, streaming>>

(* ... and wait until it is gone from the list, or for ten seconds.        *)
CleanupWaits(c) ==
    /\ QBAt(c, "resolve", "removing") /\ ResolveEnds(c)
    /\ qbGaps' = IF Listed THEN qbGaps \cup {"cleanup"} ELSE qbGaps
    /\ UNCHANGED <<torrent, ready, qbLock, promised, streaming, qbCount>>

(******************************* PrepareFiles ******************************)

PrepareFails(c) == Rests(c) /\ qbLock' = "free"

TakeLock(c) ==
    /\ QBAt(c, "prepare", "wait") /\ qbLock = "free" /\ qbLock' = c /\ QBTo(c, "files")
    /\ UNCHANGED <<torrent, ready, qbGate, promised, streaming, qbGaps, qbCount>>

(* Files and filePrio, the unwanted and then the wanted: only priorities   *)
(* that differ are sent.                                                   *)
SetFilePrio(c) ==
    /\ QBAt(c, "prepare", "files")
    /\ \/ /\ Listed /\ torrent.selected /\ QBTo(c, "status")
          /\ UNCHANGED <<torrent, qbLock, qbGaps, qbCount>>
       \/ /\ Listed /\ ~torrent.selected
          /\ \E ok, all \in BOOLEAN :
                /\ ok => all
                /\ Commanded([torrent EXCEPT !.selected = all, !.edges = FALSE], ok)
                /\ IF ok
                   THEN /\ call' = [call EXCEPT ![c].at = "status", ![c].changed = TRUE]
                        /\ UNCHANGED <<qbLock, qbGaps>>
                   ELSE PrepareFails(c) /\ qbGaps' = qbGaps \cup {"half prepared"}
       \/ PrepareFails(c) /\ UNCHANGED <<torrent, qbGaps, qbCount>>
    /\ UNCHANGED <<ready, qbGate, promised, streaming>>

(* The scheduler flags are turned off and on again after a change and on   *)
(* the first preparation, and turned on where they are off.                *)
Toggled(k, again) == [k EXCEPT !.seq = TRUE, !.firstLast = TRUE,
                               !.edges = @ \/ again \/ ~k.firstLast]

\* Mutant: a change of the priorities does not set the schedulers again.
ReapplyOnce(c) == ~ready

Reapply(c) == call[c].changed \/ ~ready

(* The toggles are commands of their own: one that is lost or fails ends   *)
(* the call with the flags as they are then.                               *)
ToggleSchedulers(c) ==
    /\ QBAt(c, "prepare", "status")
    /\ \/ /\ Listed /\ QBTo(c, "verify") /\ torrent' = Toggled(torrent, Reapply(c))
          /\ UNCHANGED <<qbLock, qbGaps>>
       \/ /\ PrepareFails(c)
          /\ \E seq, firstLast \in BOOLEAN :
                torrent' = IF Listed THEN [torrent EXCEPT !.seq = seq,
                                                          !.firstLast = firstLast]
                           ELSE torrent
          /\ qbGaps' = IF call[c].changed THEN qbGaps \cup {"half prepared"} ELSE qbGaps
    /\ UNCHANGED <<ready, qbGate, promised, streaming, qbCount>>

VerifySchedulers(c) ==
    /\ QBAt(c, "prepare", "verify") /\ PrepareFails(c)
    /\ IF Listed /\ torrent.seq /\ torrent.firstLast
       THEN /\ ready' = TRUE
            /\ streaming' = (torrent.selected /\ torrent.edges)
       ELSE UNCHANGED <<ready, promised, streaming>>
    /\ UNCHANGED <<torrent, qbGate, promised, qbGaps, qbCount>>

(* Remove takes neither the gate nor the lock.                             *)
QBRemove(c) ==
    /\ QBAt(c, "remove", "wait") /\ Rests(c)
    /\ \E ok \in BOOLEAN :
          Commanded(Doomed("remove"), ok)
    /\ UNCHANGED <<ready, qbGate, qbLock, promised, streaming, qbGaps>>

(* Another client of the daemon selects other files.                       *)
ForeignSelects ==
    /\ Listed /\ torrent.selected
    /\ torrent' = [torrent EXCEPT !.selected = FALSE, !.edges = FALSE]
    /\ qbGaps' = IF qbLock = "free" THEN qbGaps ELSE qbGaps \cup {"overlap"}
    /\ UNCHANGED <<ready, qbGate, qbLock, call, promised, streaming, qbCount>>

QBOperation(c) ==
    \/ AcquireGate(c) \/ QBAdd(c) \/ Preflight(c) \/ AddMagnet(c) \/ LookForAdded(c)
    \/ ExportPreexisting(c) \/ PollMetadata(c) \/ CleanupRemoves(c) \/ CleanupWaits(c)
    \/ TakeLock(c) \/ SetFilePrio(c) \/ ToggleSchedulers(c) \/ VerifySchedulers(c)
    \/ QBRemove(c) \/ \E op \in QBOps : QBBegin(c, op)

QBNext == DaemonWorks \/ ForeignSelects \/ \E c \in QBCallers : QBOperation(c)

(* The types of the variables, with who may hold the gate and the lock.    *)
QBTypeOK ==
    /\ torrent \in [there: BOOLEAN, by: {"app", "resolver"}, listed: BOOLEAN, meta: BOOLEAN,
                    selected: BOOLEAN, seq: BOOLEAN, firstLast: BOOLEAN, edges: BOOLEAN,
                    doomed: {"no", "remove", "resolver"}]
    /\ {ready, promised, streaming} \subseteq BOOLEAN
    /\ qbGate = "free" \/ call[qbGate].op \in {"add", "resolve"}
    /\ qbLock = "free" \/ call[qbLock].op = "prepare"
    /\ \A c \in QBCallers : call[c].op \in QBOps \cup {"none"} /\ call[c].changed \in BOOLEAN
    /\ qbCount \in [ops: 0..MaxQBOps, lost: 0..MaxLost]

(* A resolver leaves no torrent of its own behind and takes none that is   *)
(* not its own: a torrent that Add has answered for stays until a Remove,  *)
(* and is the one Add asked for; and with nobody at work on the hash the   *)
(* daemon has no other.  A lost answer to the magnet, a listing that came  *)
(* too late, a cleanup that failed or timed out, a removal that took its   *)
(* time and removals that met other operations are not provided for.       *)
ResolverCleansUp ==
    qbGaps = {} =>
       /\ promised => torrent.there /\ torrent.by = "app" /\ torrent.doomed = "no"
       /\ (\A c \in QBCallers : call[c].op # "resolve") =>
             (torrent.there => torrent.by = "app")

(* A preparation that succeeds leaves the file selected and its first and  *)
(* last pieces scheduled, unless an earlier one stopped between the two or *)
(* another operation met it.                                               *)
PreparedStreams == (qbGaps = {}) => streaming

(* The adapter leaves the daemon with the torrents that were asked for,    *)
(* ready to be streamed.                                                   *)
QBittorrentSafe == QBTypeOK /\ ResolverCleansUp /\ PreparedStreams
================================================================================
