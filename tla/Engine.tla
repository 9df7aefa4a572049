--------------------------------- MODULE Engine --------------------------------
(***************************************************************************)
(* The native torrent engine's bookkeeping of one info hash                *)
(* (internal/adapters/nativetorrent): the live torrent, the maps of        *)
(* Client, the session file it is restored from, the piece-completion      *)
(* database and the bytes on disk.                                         *)
(*                                                                         *)
(* Add and ResolveMagnet hold the hash's gate; every operation looks the   *)
(* torrent up under c.mu and most let go of it before they act on what     *)
(* they found, so a handle may be that of a torrent dropped meanwhile.     *)
(* The torrent library is external: it downloads what is selected and      *)
(* allowed, verifies what it finds on disk when a torrent is added, and    *)
(* trusts the completion database.                                         *)
(***************************************************************************)
EXTENDS Naturals, FiniteSets

CONSTANTS
    Threads,       \* requests and passes that use the engine
    Selections,    \* selections of files of the torrent
    EngineOps,     \* the operations they perform
    MaxEngineOps,  \* bound: operations performed
    MaxSaveErrors, \* bound: writes of the session file that fail
    MaxRestarts    \* bound: restarts of the server

ASSUME EngineAssumption ==
    /\ "free" \notin Threads
    /\ EngineOps \subseteq {"add", "prepare", "pause", "resume", "remove", "resolve"}
    /\ MaxEngineOps \in Nat /\ MaxSaveErrors \in Nat /\ MaxRestarts \in Nat

NoSel == "no selection"

VARIABLES
    live,       \* the library's torrent: "none", "managed" or "transient"
    prio,       \* the selection its file priorities express
    allowed,    \* data transfer is allowed
    selected,   \* Client.selected
    paused,     \* Client.paused
    entry,      \* sessionStore.entries: [there, meta, sel, paused]
    disk,       \* the same in session.json
    data,       \* the torrent's bytes are under dataDir
    completion, \* the completion database says the pieces are there
    gate,       \* the thread that holds the hash's gate, or "free"
    thread,     \* thread -> [op, at, handle, sel]
    owned,      \* an Add has succeeded and no Remove has begun since
    engineGaps, \* what has happened that the code does not provide for
    engineCount \* bounds: [ops, saveErrors, restarts]

engineVars == <<live, prio, allowed, selected, paused, entry, disk, data,
                completion, gate, thread, owned, engineGaps, engineCount>>

NoEntry == [there |-> FALSE, meta |-> FALSE, sel |-> NoSel, paused |-> FALSE]

AtRest == [op |-> "none", at |-> "rest", handle |-> FALSE, sel |-> NoSel]

EngineInit ==
    /\ live = "none" /\ prio = NoSel /\ allowed = TRUE
    /\ selected = NoSel /\ paused = FALSE
    /\ entry = NoEntry /\ disk = NoEntry
    /\ data = FALSE /\ completion = FALSE /\ gate = "free"
    /\ thread = [t \in Threads |-> AtRest]
    /\ owned = FALSE /\ engineGaps = {}
    /\ engineCount = [ops |-> 0, saveErrors |-> 0, restarts |-> 0]

(* Operations of one hash that get in each other's way: a removal and any  *)
(* other, two selections, a pause and a resume.                            *)
Clash(a, b) ==
    \/ "remove" \in {a, b} /\ a # "none" /\ b # "none"
    \/ a = "prepare" /\ b = "prepare"
    \/ {a, b} = {"pause", "resume"}

(* The application selects, pauses and resumes only torrents it has added. *)
Begin(t, op, s) ==
    /\ thread[t].op = "none"
    /\ op \in {"prepare", "pause", "resume"} => owned
    /\ engineCount.ops < MaxEngineOps
    /\ engineCount' = [engineCount EXCEPT !.ops = @ + 1]
    /\ thread' = [thread EXCEPT ![t] = [op |-> op, at |-> "look", handle |-> FALSE,
                                        sel |-> s]]
    /\ engineGaps' = engineGaps \cup
          {"overlap" : u \in {v \in Threads \ {t} : Clash(op, thread[v].op)}}
    /\ owned' = (owned /\ op # "remove")
    /\ UNCHANGED <<live, prio, allowed, selected, paused, entry, disk, data,
                   completion, gate>>

(* sessionStore.save: the entries in memory change, the file may not.      *)
Save(e, ok) ==
    /\ entry' = e
    /\ IF ok THEN disk' = e /\ UNCHANGED <<engineCount>>
       ELSE /\ engineCount.saveErrors < MaxSaveErrors
            /\ engineCount' = [engineCount EXCEPT !.saveErrors = @ + 1]
            /\ UNCHANGED disk
    /\ engineGaps' = IF ok THEN engineGaps ELSE engineGaps \cup {"unsaved"}

Done(t) == thread' = [thread EXCEPT ![t] = AtRest]

To(t, at) == thread' = [thread EXCEPT ![t].at = at]

(* The library drops the torrent: every handle to it is dead.              *)
Dropped ==
    /\ live' = "none" /\ prio' = NoSel /\ allowed' = TRUE

(********************************** Add ************************************)

AcquireHashGate(t) ==
    /\ thread[t].at = "look" /\ thread[t].op \in {"add", "resolve"}
    /\ gate = "free" /\ gate' = t
    /\ To(t, "gated")
    /\ UNCHANGED <<live, prio, allowed, selected, paused, entry, disk, data,
                   completion, owned, engineGaps, engineCount>>

(* Add under gate and c.mu.  A torrent the engine holds is answered for as *)
(* it is; a new one is registered, found data verified, and persisted.     *)
Add(t) ==
    /\ thread[t].op = "add" /\ thread[t].at = "gated"
    /\ gate' = "free" /\ Done(t)
    /\ \/ /\ live # "none"
          /\ owned' = TRUE
          /\ UNCHANGED <<live, prio, allowed, entry, disk, completion,
                         engineGaps, engineCount>>
       \/ /\ live = "none"
          /\ live' = "managed" /\ prio' = NoSel /\ allowed' = TRUE
          /\ completion' = (completion \/ data)
          /\ \E ok \in BOOLEAN :
                /\ Save([entry EXCEPT !.there = TRUE, !.meta = TRUE], ok)
                /\ owned' = ok
    /\ UNCHANGED <<selected, paused, data>>

(* waitInfo runs out of time or context: registered, but not persisted.    *)
AddTimesOut(t) ==
    /\ thread[t].op = "add" /\ thread[t].at = "gated" /\ live = "none"
    /\ gate' = "free" /\ Done(t)
    /\ live' = "managed" /\ prio' = NoSel /\ allowed' = TRUE
    /\ engineGaps' = engineGaps \cup {"unsaved"}
    /\ engineCount.saveErrors < MaxSaveErrors
    /\ engineCount' = [engineCount EXCEPT !.saveErrors = @ + 1]
    /\ UNCHANGED <<selected, paused, entry, disk, data, completion, owned>>

(****************************** ResolveMagnet ******************************)

\* Mutant: the resolver takes no part in the gate while it waits.
ResolveAddsUngated(t) ==
    /\ thread[t].op = "resolve" /\ thread[t].at = "gated"
    /\ gate' = "free"
    /\ \/ live # "none" /\ Done(t) /\ UNCHANGED <<live, prio, allowed>>
       \/ /\ live = "none" /\ live' = "transient"
          /\ prio' = NoSel /\ allowed' = TRUE /\ To(t, "waiting")
    /\ UNCHANGED <<selected, paused, entry, disk, data, completion, owned,
                   engineGaps, engineCount>>

(* A torrent the engine holds is exported; otherwise a transient one is    *)
(* added, under the gate until it is dropped again.                        *)
ResolveAdds(t) ==
    /\ thread[t].op = "resolve" /\ thread[t].at = "gated"
    /\ \/ /\ live # "none" /\ gate' = "free" /\ Done(t)
          /\ UNCHANGED <<live, prio, allowed>>
       \/ /\ live = "none" /\ live' = "transient" /\ UNCHANGED gate
          /\ prio' = NoSel /\ allowed' = TRUE /\ To(t, "waiting")
    /\ UNCHANGED <<selected, paused, entry, disk, data, completion, owned,
                   engineGaps, engineCount>>

(* The metadata arrived or the context ended: the resolver drops what it   *)
(* added and lets go of the gate.                                          *)
ResolveDrops(t) ==
    /\ thread[t].op = "resolve" /\ thread[t].at = "waiting"
    /\ gate' = (IF gate = t THEN "free" ELSE gate) /\ Done(t)
    /\ Dropped
    /\ UNCHANGED <<selected, paused, entry, disk, data, completion, owned,
                   engineGaps, engineCount>>

(************************ PrepareFiles, Pause, Resume **********************)

(* c.torrent(hash): the operation ends when there is none.                 *)
Lookup(t) ==
    /\ thread[t].at = "look" /\ thread[t].op \in {"prepare", "pause", "resume"}
    /\ IF live = "none" THEN Done(t)
       ELSE thread' = [thread EXCEPT ![t].at = "act", ![t].handle = TRUE]
    /\ UNCHANGED <<live, prio, allowed, selected, paused, entry, disk, data,
                   completion, gate, owned, engineGaps, engineCount>>

(* What is done to the torrent itself, outside c.mu; one that was dropped  *)
(* meanwhile takes it without effect: the file priorities ...              *)
SetPriorities(t) ==
    /\ thread[t].at = "act" /\ thread[t].op = "prepare" /\ To(t, "record")
    /\ prio' = IF live # "none" THEN thread[t].sel ELSE prio
    /\ UNCHANGED <<live, allowed, selected, paused, entry, disk, data, completion,
                   gate, owned, engineGaps, engineCount>>

(* ... or whether it may transfer data.                                    *)
SetTransfer(t) ==
    /\ thread[t].at = "act" /\ thread[t].op \in {"pause", "resume"} /\ To(t, "record")
    /\ allowed' = IF live # "none" THEN thread[t].op = "resume" ELSE allowed
    /\ UNCHANGED <<live, prio, selected, paused, entry, disk, data, completion,
                   gate, owned, engineGaps, engineCount>>

\* Mutant: the selection is kept in memory only.
RecordInMemory(t) ==
    /\ thread[t].at = "record" /\ thread[t].op = "prepare" /\ Done(t)
    /\ selected' = thread[t].sel
    /\ UNCHANGED <<live, prio, allowed, paused, entry, disk, data, completion, gate,
                   owned, engineGaps, engineCount>>

(* What is recorded under c.mu, in the session first: a selection whose    *)
(* save fails is not taken over ...                                        *)
RecordSelection(t) ==
    /\ thread[t].at = "record" /\ thread[t].op = "prepare" /\ Done(t)
    /\ \E ok \in BOOLEAN :
          /\ Save([entry EXCEPT !.there = TRUE, !.sel = thread[t].sel], ok)
          /\ selected' = IF ok THEN thread[t].sel ELSE selected
    /\ UNCHANGED <<live, prio, allowed, paused, data, completion, gate, owned>>

(* ... a pause is.                                                         *)
RecordPause(t) ==
    /\ thread[t].at = "record" /\ thread[t].op \in {"pause", "resume"} /\ Done(t)
    /\ paused' = (thread[t].op = "pause")
    /\ \E ok \in BOOLEAN : Save([entry EXCEPT !.there = TRUE, !.paused = paused'], ok)
    /\ UNCHANGED <<live, prio, allowed, selected, data, completion, gate, owned>>

(********************************* Remove **********************************)

(* The maps are cleared under c.mu ...                                     *)
RemoveForgets(t) ==
    /\ thread[t].op = "remove" /\ thread[t].at = "look"
    /\ thread' = [thread EXCEPT ![t].at = "clear", ![t].handle = live # "none"]
    /\ selected' = NoSel /\ paused' = FALSE
    /\ UNCHANGED <<live, prio, allowed, entry, disk, data, completion, gate,
                   owned, engineGaps, engineCount>>

\* Mutant: the completion rows outlive the bytes.
RemoveKeepsCompletion(t) ==
    /\ thread[t].op = "remove" /\ thread[t].at = "clear" /\ To(t, "drop")
    /\ UNCHANGED <<live, prio, allowed, selected, paused, entry, disk, data,
                   completion, gate, owned, engineGaps, engineCount>>

(* ... then, without a lock, the completion rows are cleared ...           *)
RemoveClearsCompletion(t) ==
    /\ thread[t].op = "remove" /\ thread[t].at = "clear" /\ To(t, "drop")
    /\ completion' = (completion /\ ~thread[t].handle)
    /\ UNCHANGED <<live, prio, allowed, selected, paused, entry, disk, data, gate,
                   owned, engineGaps, engineCount>>

(* ... the torrent is dropped ...                                          *)
RemoveDrops(t) ==
    /\ thread[t].op = "remove" /\ thread[t].at = "drop" /\ To(t, "forget")
    /\ IF thread[t].handle THEN Dropped ELSE UNCHANGED <<live, prio, allowed>>
    /\ UNCHANGED <<selected, paused, entry, disk, data, completion, gate, owned,
                   engineGaps, engineCount>>

(* ... the session forgets it ...                                          *)
RemoveForgetsSession(t) ==
    /\ thread[t].op = "remove" /\ thread[t].at = "forget" /\ To(t, "delete")
    /\ \E ok \in BOOLEAN : Save(NoEntry, ok)
    /\ UNCHANGED <<live, prio, allowed, selected, paused, data, completion, gate,
                   owned>>

(* ... and the bytes are deleted.                                          *)
RemoveDeletes(t) ==
    /\ thread[t].op = "remove" /\ thread[t].at = "delete" /\ Done(t)
    /\ data' = FALSE
    /\ UNCHANGED <<live, prio, allowed, selected, paused, entry, disk, completion,
                   gate, owned, engineGaps, engineCount>>

(******************************* environment *******************************)

(* The library verifies a piece.  One that is verified after a removal has *)
(* cleared the completion rows, and before it drops the torrent, is        *)
(* recorded again.                                                         *)
Download ==
    /\ live = "managed" /\ prio # NoSel /\ allowed /\ ~(data /\ completion)
    /\ data' = TRUE /\ completion' = TRUE
    /\ engineGaps' = engineGaps \cup
          {"late" : t \in {u \in Threads : thread[u].op = "remove"}}
    /\ UNCHANGED <<live, prio, allowed, selected, paused, entry, disk, gate,
                   thread, owned, engineCount>>

\* Mutant: a restored torrent starts again although it was paused.
RestoreUnpaused ==
    /\ engineCount.restarts < MaxRestarts
    /\ engineCount' = [engineCount EXCEPT !.restarts = @ + 1]
    /\ entry' = disk
    /\ live' = IF disk.meta THEN "managed" ELSE "none"
    /\ prio' = IF disk.meta THEN disk.sel ELSE NoSel
    /\ selected' = prio' /\ paused' = FALSE /\ allowed' = TRUE
    /\ gate' = "free" /\ thread' = [t \in Threads |-> AtRest]
    /\ completion' = (completion \/ (disk.meta /\ data))
    /\ UNCHANGED <<disk, data, owned, engineGaps>>

(* The server ends, at any moment, and loadSession restores every entry    *)
(* that has its metainfo, with its selection and pause.                    *)
Restart ==
    /\ engineCount.restarts < MaxRestarts
    /\ engineCount' = [engineCount EXCEPT !.restarts = @ + 1]
    /\ entry' = disk
    /\ live' = IF disk.meta THEN "managed" ELSE "none"
    /\ prio' = IF disk.meta THEN disk.sel ELSE NoSel
    /\ selected' = prio'
    /\ paused' = (disk.meta /\ disk.paused) /\ allowed' = ~paused'
    /\ gate' = "free" /\ thread' = [t \in Threads |-> AtRest]
    /\ completion' = (completion \/ (disk.meta /\ data))
    /\ UNCHANGED <<disk, data, owned, engineGaps>>

ThreadStep(t) ==
    \/ AcquireHashGate(t) \/ Add(t) \/ AddTimesOut(t)
    \/ ResolveAdds(t) \/ ResolveDrops(t)
    \/ Lookup(t) \/ SetPriorities(t) \/ SetTransfer(t)
    \/ RecordSelection(t) \/ RecordPause(t)
    \/ RemoveForgets(t) \/ RemoveClearsCompletion(t) \/ RemoveDrops(t)
    \/ RemoveForgetsSession(t) \/ RemoveDeletes(t)

EngineNext ==
    \/ \E t \in Threads :
          \/ \E op \in EngineOps \ {"prepare"} : Begin(t, op, NoSel)
          \/ \E s \in Selections : Begin(t, "prepare", s)
          \/ ThreadStep(t)
    \/ Download \/ Restart

EngineTypeOK ==
    /\ live \in {"none", "managed", "transient"}
    /\ {prio, selected, entry.sel, disk.sel} \subseteq Selections \cup {NoSel}
    /\ {allowed, paused, entry.there, entry.meta, entry.paused, disk.there,
        disk.meta, disk.paused, data, completion, owned} \subseteq BOOLEAN
    /\ gate \in Threads \cup {"free"}
    /\ engineGaps \subseteq {"overlap", "unsaved", "late"}

Quiet == \A t \in Threads : thread[t].op = "none"

(* A torrent that Add has answered for is in the session file, so that the *)
(* next start has it again, whatever resolvers and restarts do: unless a   *)
(* save failed before, or a removal overlapped another operation.          *)
AddedIsKept == owned => disk.meta \/ engineGaps \cap {"unsaved", "overlap"} # {}

(* When no operation is under way the parts agree: the library has the     *)
(* torrent the session has, with the selection and the pause that the      *)
(* client reports and the next start will restore, and no completion row   *)
(* speaks of bytes that were deleted.  The gaps are removals or selections *)
(* of one hash that overlap, a failed save, and a piece verified while a   *)
(* removal was under way.                                                  *)
PartsAgree ==
    Quiet /\ engineGaps = {} =>
       /\ live = (IF disk.meta THEN "managed" ELSE "none") /\ entry = disk
       /\ disk.meta => prio = disk.sel /\ selected = disk.sel
                       /\ paused = disk.paused /\ allowed = ~disk.paused
       /\ completion => data

(* The torrent engine keeps what it was given: an added torrent is in the  *)
(* session file, and the parts agree whenever nothing is under way.        *)
EngineSafe == EngineTypeOK /\ AddedIsKept /\ PartsAgree
================================================================================
