----------------------------- MODULE StoresProofs ------------------------------
(***************************************************************************)
(* Proofs about what the service keeps outside its own process memory: the *)
(* native engine, whose library, maps, session file and completion         *)
(* database agree when nothing is under way; the session with the          *)
(* qBittorrent daemon; the rows of the details caches; the bytes a stream  *)
(* reads from a file another program writes; and the rows and job slots of *)
(* synchronizations and searches, whose slots are returned on every way    *)
(* out, which leave a disabled tracker alone, and whose rows that say      *)
(* running are in somebody's hands; and the catalog, whose releases have   *)
(* the titles that their families' evidence gives, and whose favourites    *)
(* follow the titles that they are of.                                     *)
(***************************************************************************)
EXTENDS Engine, QBSession, Infos, Streaming, CatalogSync, Catalog, FiniteSetTheorems,
        NaturalsInduction, WellFoundedInduction, TLAPS
-----------------------------------------------------------------------------
(* The torrent engine: the inductive invariant.                            *)

Entries == [there : BOOLEAN, meta : BOOLEAN, sel : Selections \cup {NoSel}, paused : BOOLEAN]

EngineCalls == {"add", "prepare", "pause", "resume", "remove", "resolve"}
EngineStages == {"rest", "look", "gated", "waiting", "act", "record", "clear", "drop", "forget",
                 "delete"}
Calls == [op : EngineCalls \cup {"none"}, at : EngineStages, handle : BOOLEAN,
          sel : Selections \cup {NoSel}]

(* Which stages an operation goes through, and which it holds the gate in. *)
StagesInv == \A t \in Threads :
    /\ thread[t].op = "none" <=> thread[t].at = "rest"
    /\ thread[t].at = "gated" => thread[t].op \in {"add", "resolve"}
    /\ thread[t].at = "waiting" => thread[t].op = "resolve"
    /\ thread[t].at \in {"act", "record"} => thread[t].op \in {"prepare", "pause", "resume"}
    /\ thread[t].at \in {"clear", "drop", "forget", "delete"} => thread[t].op = "remove"
    /\ thread[t].at \in {"gated", "waiting"} => gate = t

EngineTypes ==
    /\ EngineTypeOK
    /\ entry \in Entries /\ disk \in Entries
    /\ thread \in [Threads -> Calls]
    /\ StagesInv

(* No write has failed and no two operations got in each other's way.      *)
Mild == engineGaps \cap {"unsaved", "overlap"} = {}

Apart == \A t, u \in Threads : t # u => ~Clash(thread[t].op, thread[u].op)

(* The application uses what it has added; what it has added is kept.      *)
Known == \A t \in Threads :
    /\ thread[t].op \in {"prepare", "pause", "resume"} => owned
    /\ thread[t].op = "remove" => ~owned
Kept == owned => disk.meta

OnDisk == entry = disk /\ (~disk.meta => disk = NoEntry)

(* The resolver's torrent is there while it waits for the metadata.        *)
TransientInv ==
    /\ live = "transient" => ~disk.meta /\ \E t \in Threads : thread[t].at = "waiting"
    /\ \A t \in Threads : thread[t].at = "waiting" => live = "transient"

Removing(t) == thread[t].at \in {"clear", "drop", "forget", "delete"}

Recording(t, ops) == thread[t].at = "record" /\ thread[t].op \in ops

(* While nothing is being removed the library, the client and the session  *)
(* agree, up to what an operation is about to record.                      *)
SelectionAgrees ==
    /\ selected = disk.sel
    /\ \A t \in Threads : Recording(t, {"prepare"}) => prio = thread[t].sel
    /\ (\A t \in Threads : ~Recording(t, {"prepare"})) => prio = disk.sel
PauseAgrees ==
    /\ paused <=> disk.paused
    /\ \A t \in Threads :
         Recording(t, {"pause", "resume"}) => (allowed <=> thread[t].op = "resume")
    /\ (\A t \in Threads : ~Recording(t, {"pause", "resume"})) => (allowed <=> ~disk.paused)
Blank == selected = NoSel /\ ~paused /\ prio = NoSel /\ allowed
Agreed ==
    (\A t \in Threads : ~Removing(t)) =>
       /\ live = "managed" <=> disk.meta
       /\ IF disk.meta THEN SelectionAgrees /\ PauseAgrees ELSE Blank

(* What a removal has taken away so far.                                   *)
Taken == \A t \in Threads : Removing(t) =>
    /\ selected = NoSel /\ ~paused
    /\ thread[t].at \in {"clear", "drop"} =>
         IF thread[t].handle THEN live = "managed" /\ disk.meta
         ELSE live = "none" /\ ~disk.meta /\ prio = NoSel /\ allowed
    /\ thread[t].at \in {"forget", "delete"} => live = "none" /\ prio = NoSel /\ allowed
    /\ thread[t].at = "delete" => ~disk.meta

(* A completion row speaks of bytes that are there and of a torrent.       *)
Recorded ==
    /\ completion => data /\ live = "managed"
    /\ \A t \in Threads : Removing(t) /\ thread[t].at # "clear" => ~completion

EngineInv ==
    /\ EngineTypes
    /\ Mild => Apart /\ Known /\ Kept /\ OnDisk /\ TransientInv /\ Agreed /\ Taken
    /\ engineGaps = {} => Recorded

(* What the steps do, field by field.                                      *)
OthersStay(t) == \A u \in Threads \ {t} : thread'[u] = thread[u]
CallEnds(t) == thread'[t].op = "none" /\ thread'[t].at = "rest" /\ OthersStay(t)
CallMoves(t, at) ==
    /\ thread'[t].op = thread[t].op /\ thread'[t].at = at /\ thread'[t].sel = thread[t].sel
    /\ thread'[t].handle = thread[t].handle /\ OthersStay(t)

LEMMA CallSteps ==
  ASSUME EngineTypes, NEW t \in Threads
  PROVE  /\ Done(t) => CallEnds(t)
         /\ \A at : To(t, at) => CallMoves(t, at)
         /\ thread[t] \in Calls /\ entry \in Entries
<1>1. thread \in [Threads -> Calls] /\ entry \in Entries
  BY DEF EngineTypes
<1>2. ASSUME Done(t)
      PROVE  CallEnds(t)
  BY <1>1, <1>2 DEF Done, AtRest, CallEnds, OthersStay
<1>3. ASSUME NEW at, To(t, at)
      PROVE  CallMoves(t, at)
  BY <1>1, <1>3 DEF To, Calls, CallMoves, OthersStay
<1> QED BY <1>1, <1>2, <1>3

LEMMA BeginDoes ==
  ASSUME EngineTypes, NEW t \in Threads, NEW op, NEW s, Begin(t, op, s)
  PROVE  /\ thread[t].op = "none" /\ thread'[t].op = op /\ thread'[t].at = "look" /\ OthersStay(t)
         /\ op \in {"prepare", "pause", "resume"} => owned
         /\ engineGaps \subseteq engineGaps'
         /\ \A u \in Threads \ {t} : Clash(op, thread[u].op) => "overlap" \in engineGaps'
         /\ owned' <=> owned /\ op # "remove"
         /\ UNCHANGED <<live, prio, allowed, selected, paused, entry, disk, data, completion,
                        gate>>
BY DEF EngineTypes, Begin, OthersStay

LEMMA AcquireHashGateDoes ==
  ASSUME EngineTypes, NEW t \in Threads, AcquireHashGate(t)
  PROVE  /\ thread[t].at = "look" /\ thread[t].op \in {"add", "resolve"}
         /\ gate = "free" /\ gate' = t
         /\ CallMoves(t, "gated")
         /\ UNCHANGED <<live, prio, allowed, selected, paused, entry, disk, data, completion, owned,
                      engineGaps>>
BY CallSteps DEF AcquireHashGate, Entries

LEMMA AddDoes ==
  ASSUME EngineTypes, NEW t \in Threads, Add(t)
  PROVE  /\ thread[t].op = "add" /\ thread[t].at = "gated" /\ gate' = "free"
         /\ \/ live # "none" /\ owned' /\ UNCHANGED <<live, prio, allowed, entry, disk, completion, engineGaps>>
            \/ /\ live = "none" /\ live' = "managed" /\ prio' = NoSel /\ allowed'
               /\ completion' \in BOOLEAN /\ (completion' => completion \/ data)
               /\ entry'.there /\ entry'.meta /\ entry'.sel = entry.sel /\ entry'.paused = entry.paused
               /\ \/ owned' /\ disk' = entry' /\ engineGaps' = engineGaps
                  \/ ~owned' /\ disk' = disk /\ engineGaps' = engineGaps \cup {"unsaved"}
         /\ CallEnds(t)
         /\ UNCHANGED <<selected, paused, data>>
<1>1. CASE live # "none" /\ owned' = TRUE
  BY <1>1, CallSteps DEF Add
<1>2. CASE live = "none"
  <2>1. /\ live' = "managed" /\ prio' = NoSel /\ allowed' = TRUE
        /\ completion' = (completion \/ data) /\ gate' = "free" /\ CallEnds(t)
        /\ entry' = [entry EXCEPT !.there = TRUE, !.meta = TRUE]
        /\ UNCHANGED <<selected, paused, data>>
        /\ thread[t].op = "add" /\ thread[t].at = "gated"
    BY <1>2, CallSteps DEF Add, Save
  <2>2. \/ owned' = TRUE /\ disk' = entry' /\ engineGaps' = engineGaps
        \/ owned' = FALSE /\ disk' = disk /\ engineGaps' = engineGaps \cup {"unsaved"}
    BY <1>2 DEF Add, Save
  <2>3. /\ entry'.there /\ entry'.meta /\ entry'.sel = entry.sel /\ entry'.paused = entry.paused
    BY <2>1, CallSteps DEF Entries
  <2>4. completion' \in BOOLEAN /\ (completion' => completion \/ data)
    BY <2>1
  <2> QED BY <1>2, <2>1, <2>2, <2>3, <2>4
<1> QED BY <1>1, <1>2 DEF Add

LEMMA AddTimesOutDoes ==
  ASSUME EngineTypes, NEW t \in Threads, AddTimesOut(t)
  PROVE  /\ thread[t].op = "add" /\ thread[t].at = "gated" /\ gate' = "free"
         /\ live = "none" /\ live' = "managed" /\ prio' = NoSel /\ allowed'
         /\ engineGaps' = engineGaps \cup {"unsaved"}
         /\ CallEnds(t)
         /\ UNCHANGED <<selected, paused, entry, disk, data, completion, owned>>
BY CallSteps DEF AddTimesOut, Entries

LEMMA ResolveAddsDoes ==
  ASSUME EngineTypes, NEW t \in Threads, ResolveAdds(t)
  PROVE  /\ thread[t].op = "resolve" /\ thread[t].at = "gated"
         /\ \/ /\ live # "none" /\ gate' = "free" /\ CallEnds(t) /\ UNCHANGED <<live, prio, allowed>>
            \/ /\ live = "none" /\ live' = "transient" /\ gate' = gate /\ prio' = NoSel /\ allowed'
               /\ CallMoves(t, "waiting")
         /\ UNCHANGED <<selected, paused, entry, disk, data, completion, owned, engineGaps>>
BY CallSteps DEF ResolveAdds, Entries

LEMMA ResolveDropsDoes ==
  ASSUME EngineTypes, NEW t \in Threads, ResolveDrops(t)
  PROVE  /\ thread[t].op = "resolve" /\ thread[t].at = "waiting"
         /\ gate' = (IF gate = t THEN "free" ELSE gate)
         /\ live' = "none" /\ prio' = NoSel /\ allowed'
         /\ CallEnds(t)
         /\ UNCHANGED <<selected, paused, entry, disk, data, completion, owned, engineGaps>>
BY CallSteps DEF ResolveDrops, Dropped, Entries

LEMMA LookupDoes ==
  ASSUME EngineTypes, NEW t \in Threads, Lookup(t)
  PROVE  /\ thread[t].at = "look" /\ thread[t].op \in {"prepare", "pause", "resume"}
         /\ \/ live = "none" /\ CallEnds(t)
            \/ /\ live # "none" /\ thread'[t].op = thread[t].op /\ thread'[t].at = "act"
               /\ thread'[t].sel = thread[t].sel /\ OthersStay(t)
         /\ UNCHANGED <<live, prio, allowed, selected, paused, entry, disk, data, completion, gate,
                      owned, engineGaps>>
<1>1. thread \in [Threads -> Calls]
  BY DEF EngineTypes
<1>2. CASE live = "none"
  BY <1>2, CallSteps DEF Lookup
<1>3. CASE thread' = [thread EXCEPT ![t].at = "act", ![t].handle = TRUE]
  BY <1>1, <1>3, CallSteps DEF Lookup, Calls, OthersStay
<1> QED BY <1>2, <1>3 DEF Lookup

LEMMA SetPrioritiesDoes ==
  ASSUME EngineTypes, NEW t \in Threads, SetPriorities(t)
  PROVE  /\ thread[t].at = "act" /\ thread[t].op = "prepare"
         /\ prio' = (IF live # "none" THEN thread[t].sel ELSE prio)
         /\ CallMoves(t, "record")
         /\ UNCHANGED <<live, allowed, selected, paused, entry, disk, data, completion, gate, owned,
                      engineGaps>>
BY CallSteps DEF SetPriorities, Entries

LEMMA SetTransferDoes ==
  ASSUME EngineTypes, NEW t \in Threads, SetTransfer(t)
  PROVE  /\ thread[t].at = "act" /\ thread[t].op \in {"pause", "resume"}
         /\ live # "none" => (allowed' <=> thread[t].op = "resume")
         /\ live = "none" => allowed' = allowed
         /\ CallMoves(t, "record")
         /\ UNCHANGED <<live, prio, selected, paused, entry, disk, data, completion, gate, owned,
                      engineGaps>>
BY CallSteps DEF SetTransfer, Entries

LEMMA RecordSelectionDoes ==
  ASSUME EngineTypes, NEW t \in Threads, RecordSelection(t)
  PROVE  /\ thread[t].at = "record" /\ thread[t].op = "prepare"
         /\ entry'.meta = entry.meta /\ entry'.paused = entry.paused /\ entry'.sel = thread[t].sel
         /\ \/ disk' = entry' /\ selected' = thread[t].sel /\ engineGaps' = engineGaps
            \/ disk' = disk /\ selected' = selected /\ engineGaps' = engineGaps \cup {"unsaved"}
         /\ CallEnds(t)
         /\ UNCHANGED <<live, prio, allowed, paused, data, completion, gate, owned>>
BY CallSteps DEF RecordSelection, Save, Entries

LEMMA RecordPauseDoes ==
  ASSUME EngineTypes, NEW t \in Threads, RecordPause(t)
  PROVE  /\ thread[t].at = "record" /\ thread[t].op \in {"pause", "resume"}
         /\ (paused' <=> thread[t].op = "pause") /\ entry'.paused = paused'
         /\ entry'.meta = entry.meta /\ entry'.sel = entry.sel
         /\ \/ disk' = entry' /\ engineGaps' = engineGaps
            \/ disk' = disk /\ engineGaps' = engineGaps \cup {"unsaved"}
         /\ CallEnds(t)
         /\ UNCHANGED <<live, prio, allowed, selected, data, completion, gate, owned>>
BY CallSteps DEF RecordPause, Save, Entries

LEMMA RemoveForgetsDoes ==
  ASSUME EngineTypes, NEW t \in Threads, RemoveForgets(t)
  PROVE  /\ thread[t].at = "look" /\ thread[t].op = "remove"
         /\ thread'[t].op = "remove" /\ thread'[t].at = "clear" /\ OthersStay(t)
         /\ thread'[t].handle <=> live # "none"
         /\ selected' = NoSel /\ ~paused'
         /\ UNCHANGED <<live, prio, allowed, entry, disk, data, completion, gate, owned, engineGaps>>
<1>1. thread \in [Threads -> Calls]
  BY DEF EngineTypes
<1>2. thread'[t] = [thread[t] EXCEPT !.at = "clear", !.handle = live # "none"]
  BY <1>1 DEF RemoveForgets
<1>3. thread'[t].op = "remove" /\ thread'[t].at = "clear" /\ OthersStay(t)
  BY <1>1, <1>2 DEF RemoveForgets, Calls, OthersStay
<1>4. thread'[t].handle = (live # "none")
  BY <1>1, <1>2 DEF Calls
<1> QED BY <1>3, <1>4 DEF RemoveForgets

LEMMA RemoveClearsCompletionDoes ==
  ASSUME EngineTypes, NEW t \in Threads, RemoveClearsCompletion(t)
  PROVE  /\ thread[t].op = "remove" /\ thread[t].at = "clear"
         /\ completion' <=> completion /\ ~thread[t].handle
         /\ CallMoves(t, "drop")
         /\ UNCHANGED <<live, prio, allowed, selected, paused, entry, disk, data, gate, owned,
                      engineGaps>>
BY CallSteps DEF RemoveClearsCompletion, Entries

LEMMA RemoveDropsDoes ==
  ASSUME EngineTypes, NEW t \in Threads, RemoveDrops(t)
  PROVE  /\ thread[t].op = "remove" /\ thread[t].at = "drop"
         /\ thread[t].handle => live' = "none" /\ prio' = NoSel /\ allowed'
         /\ ~thread[t].handle => UNCHANGED <<live, prio, allowed>>
         /\ CallMoves(t, "forget")
         /\ UNCHANGED <<selected, paused, entry, disk, data, completion, gate, owned, engineGaps>>
BY CallSteps DEF RemoveDrops, Dropped, Entries

LEMMA RemoveForgetsSessionDoes ==
  ASSUME EngineTypes, NEW t \in Threads, RemoveForgetsSession(t)
  PROVE  /\ thread[t].op = "remove" /\ thread[t].at = "forget"
         /\ \/ entry' = NoEntry /\ disk' = NoEntry /\ engineGaps' = engineGaps
            \/ entry' = NoEntry /\ disk' = disk /\ engineGaps' = engineGaps \cup {"unsaved"}
         /\ CallMoves(t, "delete")
         /\ UNCHANGED <<live, prio, allowed, selected, paused, data, completion, gate, owned>>
BY CallSteps DEF RemoveForgetsSession, Save, Entries

LEMMA RemoveDeletesDoes ==
  ASSUME EngineTypes, NEW t \in Threads, RemoveDeletes(t)
  PROVE  /\ thread[t].op = "remove" /\ thread[t].at = "delete" /\ data' = FALSE
         /\ CallEnds(t)
         /\ UNCHANGED <<live, prio, allowed, selected, paused, entry, disk, completion, gate, owned,
                      engineGaps>>
BY CallSteps DEF RemoveDeletes, Entries

LEMMA EngineGapsGrow ==
  ASSUME EngineTypes, [EngineNext]_engineVars
  PROVE  engineGaps \subseteq engineGaps'
BY DEF EngineNext, ThreadStep, Begin, AcquireHashGate, Add, AddTimesOut, ResolveAdds, ResolveDrops,
       Lookup, SetPriorities, SetTransfer, RecordSelection, RecordPause, RemoveForgets,
       RemoveClearsCompletion, RemoveDrops, RemoveForgetsSession, RemoveDeletes, Download, Restart,
       Save, engineVars

(* The stages of an operation, and who holds the gate.                     *)
LEMMA StagesStep ==
  ASSUME EngineTypes, [EngineNext]_engineVars
  PROVE  StagesInv'
<1>0. EngineTypes /\ StagesInv
  BY DEF EngineTypes
<1> USE DEF StagesInv, EngineCalls, OthersStay, CallEnds, CallMoves, AtRest
<1>1. ASSUME NEW t \in Threads, NEW op \in EngineCalls, NEW s \in Selections \cup {NoSel},
             Begin(t, op, s)
      PROVE  StagesInv'
  BY <1>0, <1>1, BeginDoes DEF EngineCalls
<1>2. ASSUME NEW t \in Threads, AcquireHashGate(t)
      PROVE  StagesInv'
  BY <1>0, <1>2, AcquireHashGateDoes, EngineAssumption
<1>3. ASSUME NEW t \in Threads, Add(t)
      PROVE  StagesInv'
  BY <1>0, <1>3, AddDoes
<1>4. ASSUME NEW t \in Threads, AddTimesOut(t)
      PROVE  StagesInv'
  BY <1>0, <1>4, AddTimesOutDoes
<1>5. ASSUME NEW t \in Threads, ResolveAdds(t)
      PROVE  StagesInv'
  BY <1>0, <1>5, ResolveAddsDoes
<1>6. ASSUME NEW t \in Threads, ResolveDrops(t)
      PROVE  StagesInv'
  BY <1>0, <1>6, ResolveDropsDoes
<1>7. ASSUME NEW t \in Threads, Lookup(t)
      PROVE  StagesInv'
  BY <1>0, <1>7, LookupDoes
<1>8. ASSUME NEW t \in Threads, SetPriorities(t)
      PROVE  StagesInv'
  BY <1>0, <1>8, SetPrioritiesDoes
<1>9. ASSUME NEW t \in Threads, SetTransfer(t)
      PROVE  StagesInv'
  BY <1>0, <1>9, SetTransferDoes
<1>10. ASSUME NEW t \in Threads, RecordSelection(t)
      PROVE  StagesInv'
  BY <1>0, <1>10, RecordSelectionDoes
<1>11. ASSUME NEW t \in Threads, RecordPause(t)
      PROVE  StagesInv'
  BY <1>0, <1>11, RecordPauseDoes
<1>12. ASSUME NEW t \in Threads, RemoveForgets(t)
      PROVE  StagesInv'
  BY <1>0, <1>12, RemoveForgetsDoes
<1>13. ASSUME NEW t \in Threads, RemoveClearsCompletion(t)
      PROVE  StagesInv'
  BY <1>0, <1>13, RemoveClearsCompletionDoes
<1>14. ASSUME NEW t \in Threads, RemoveDrops(t)
      PROVE  StagesInv'
  BY <1>0, <1>14, RemoveDropsDoes
<1>15. ASSUME NEW t \in Threads, RemoveForgetsSession(t)
      PROVE  StagesInv'
  BY <1>0, <1>15, RemoveForgetsSessionDoes
<1>16. ASSUME NEW t \in Threads, RemoveDeletes(t)
      PROVE  StagesInv'
  BY <1>0, <1>16, RemoveDeletesDoes
<1>17. CASE Download
  BY <1>0, <1>17 DEF Download
<1>18. CASE Restart
  BY <1>0, <1>18 DEF Restart
<1>19. CASE UNCHANGED engineVars
  BY <1>0, <1>19 DEF engineVars
<1> QED
  BY <1>1, <1>2, <1>3, <1>4, <1>5, <1>6, <1>7, <1>8, <1>9, <1>10, <1>11, <1>12, <1>13,
     <1>14, <1>15, <1>16, <1>17, <1>18, <1>19, EngineAssumption
     DEF EngineNext, ThreadStep, EngineCalls

LEMMA ApartStep ==
  ASSUME EngineTypes, Apart, Known, Kept, OnDisk, TransientInv, Agreed, Taken, Mild', [EngineNext]_engineVars
  PROVE  Apart'
<1>0. /\ EngineTypes /\ StagesInv /\ Apart /\ Known /\ Kept /\ OnDisk /\ TransientInv
      /\ Agreed /\ Taken /\ engineGaps \subseteq engineGaps' /\ Mild
  BY EngineGapsGrow DEF EngineTypes, Mild
<1> USE DEF StagesInv, Mild, OthersStay, CallEnds, CallMoves, AtRest, Apart, Clash
<1> SUFFICES ASSUME NEW u \in Threads, NEW v \in Threads, u # v
             PROVE  ~Clash(thread[u].op, thread[v].op)'
  BY DEF Apart
<1>1. ASSUME NEW t \in Threads, NEW op \in EngineCalls, NEW s \in Selections \cup {NoSel},
             Begin(t, op, s)
      PROVE  ~Clash(thread[u].op, thread[v].op)'
  BY <1>0, <1>1, BeginDoes
<1>2. ASSUME NEW t \in Threads, AcquireHashGate(t)
      PROVE  ~Clash(thread[u].op, thread[v].op)'
  BY <1>0, <1>2, AcquireHashGateDoes
<1>3. ASSUME NEW t \in Threads, Add(t)
      PROVE  ~Clash(thread[u].op, thread[v].op)'
  BY <1>0, <1>3, AddDoes
<1>4. ASSUME NEW t \in Threads, AddTimesOut(t)
      PROVE  ~Clash(thread[u].op, thread[v].op)'
  BY <1>0, <1>4, AddTimesOutDoes
<1>5. ASSUME NEW t \in Threads, ResolveAdds(t)
      PROVE  ~Clash(thread[u].op, thread[v].op)'
  BY <1>0, <1>5, ResolveAddsDoes
<1>6. ASSUME NEW t \in Threads, ResolveDrops(t)
      PROVE  ~Clash(thread[u].op, thread[v].op)'
  BY <1>0, <1>6, ResolveDropsDoes
<1>7. ASSUME NEW t \in Threads, Lookup(t)
      PROVE  ~Clash(thread[u].op, thread[v].op)'
  BY <1>0, <1>7, LookupDoes
<1>8. ASSUME NEW t \in Threads, SetPriorities(t)
      PROVE  ~Clash(thread[u].op, thread[v].op)'
  BY <1>0, <1>8, SetPrioritiesDoes
<1>9. ASSUME NEW t \in Threads, SetTransfer(t)
      PROVE  ~Clash(thread[u].op, thread[v].op)'
  BY <1>0, <1>9, SetTransferDoes
<1>10. ASSUME NEW t \in Threads, RecordSelection(t)
      PROVE  ~Clash(thread[u].op, thread[v].op)'
  BY <1>0, <1>10, RecordSelectionDoes
<1>11. ASSUME NEW t \in Threads, RecordPause(t)
      PROVE  ~Clash(thread[u].op, thread[v].op)'
  BY <1>0, <1>11, RecordPauseDoes
<1>12. ASSUME NEW t \in Threads, RemoveForgets(t)
      PROVE  ~Clash(thread[u].op, thread[v].op)'
  BY <1>0, <1>12, RemoveForgetsDoes
<1>13. ASSUME NEW t \in Threads, RemoveClearsCompletion(t)
      PROVE  ~Clash(thread[u].op, thread[v].op)'
  BY <1>0, <1>13, RemoveClearsCompletionDoes
<1>14. ASSUME NEW t \in Threads, RemoveDrops(t)
      PROVE  ~Clash(thread[u].op, thread[v].op)'
  BY <1>0, <1>14, RemoveDropsDoes
<1>15. ASSUME NEW t \in Threads, RemoveForgetsSession(t)
      PROVE  ~Clash(thread[u].op, thread[v].op)'
  BY <1>0, <1>15, RemoveForgetsSessionDoes
<1>16. ASSUME NEW t \in Threads, RemoveDeletes(t)
      PROVE  ~Clash(thread[u].op, thread[v].op)'
  BY <1>0, <1>16, RemoveDeletesDoes
<1>17. CASE Download
  BY <1>0, <1>17 DEF Download
<1>18. CASE Restart
  BY <1>0, <1>18 DEF Restart
<1>19. CASE UNCHANGED engineVars
  BY <1>0, <1>19 DEF engineVars
<1> QED
  BY <1>1, <1>2, <1>3, <1>4, <1>5, <1>6, <1>7, <1>8, <1>9, <1>10, <1>11, <1>12, <1>13,
     <1>14, <1>15, <1>16, <1>17, <1>18, <1>19, EngineAssumption
     DEF EngineNext, ThreadStep, EngineCalls

LEMMA KnownStep ==
  ASSUME EngineTypes, Apart, Known, Kept, OnDisk, TransientInv, Agreed, Taken, Mild', [EngineNext]_engineVars
  PROVE  Known'
<1>0. /\ EngineTypes /\ StagesInv /\ Apart /\ Known /\ Kept /\ OnDisk /\ TransientInv
      /\ Agreed /\ Taken /\ engineGaps \subseteq engineGaps' /\ Mild
  BY EngineGapsGrow DEF EngineTypes, Mild
<1> USE DEF StagesInv, Mild, OthersStay, CallEnds, CallMoves, AtRest, Apart, Clash, Known
<1> SUFFICES ASSUME NEW u \in Threads PROVE Known!(u)'
  BY DEF Known
<1>1. ASSUME NEW t \in Threads, NEW op \in EngineCalls, NEW s \in Selections \cup {NoSel},
             Begin(t, op, s)
      PROVE  Known!(u)'
  BY <1>0, <1>1, BeginDoes
<1>2. ASSUME NEW t \in Threads, AcquireHashGate(t)
      PROVE  Known!(u)'
  BY <1>0, <1>2, AcquireHashGateDoes
<1>3. ASSUME NEW t \in Threads, Add(t)
      PROVE  Known!(u)'
  BY <1>0, <1>3, AddDoes
<1>4. ASSUME NEW t \in Threads, AddTimesOut(t)
      PROVE  Known!(u)'
  BY <1>0, <1>4, AddTimesOutDoes
<1>5. ASSUME NEW t \in Threads, ResolveAdds(t)
      PROVE  Known!(u)'
  BY <1>0, <1>5, ResolveAddsDoes
<1>6. ASSUME NEW t \in Threads, ResolveDrops(t)
      PROVE  Known!(u)'
  BY <1>0, <1>6, ResolveDropsDoes
<1>7. ASSUME NEW t \in Threads, Lookup(t)
      PROVE  Known!(u)'
  BY <1>0, <1>7, LookupDoes
<1>8. ASSUME NEW t \in Threads, SetPriorities(t)
      PROVE  Known!(u)'
  BY <1>0, <1>8, SetPrioritiesDoes
<1>9. ASSUME NEW t \in Threads, SetTransfer(t)
      PROVE  Known!(u)'
  BY <1>0, <1>9, SetTransferDoes
<1>10. ASSUME NEW t \in Threads, RecordSelection(t)
      PROVE  Known!(u)'
  BY <1>0, <1>10, RecordSelectionDoes
<1>11. ASSUME NEW t \in Threads, RecordPause(t)
      PROVE  Known!(u)'
  BY <1>0, <1>11, RecordPauseDoes
<1>12. ASSUME NEW t \in Threads, RemoveForgets(t)
      PROVE  Known!(u)'
  BY <1>0, <1>12, RemoveForgetsDoes
<1>13. ASSUME NEW t \in Threads, RemoveClearsCompletion(t)
      PROVE  Known!(u)'
  BY <1>0, <1>13, RemoveClearsCompletionDoes
<1>14. ASSUME NEW t \in Threads, RemoveDrops(t)
      PROVE  Known!(u)'
  BY <1>0, <1>14, RemoveDropsDoes
<1>15. ASSUME NEW t \in Threads, RemoveForgetsSession(t)
      PROVE  Known!(u)'
  BY <1>0, <1>15, RemoveForgetsSessionDoes
<1>16. ASSUME NEW t \in Threads, RemoveDeletes(t)
      PROVE  Known!(u)'
  BY <1>0, <1>16, RemoveDeletesDoes
<1>17. CASE Download
  BY <1>0, <1>17 DEF Download
<1>18. CASE Restart
  BY <1>0, <1>18 DEF Restart
<1>19. CASE UNCHANGED engineVars
  BY <1>0, <1>19 DEF engineVars
<1> QED
  BY <1>1, <1>2, <1>3, <1>4, <1>5, <1>6, <1>7, <1>8, <1>9, <1>10, <1>11, <1>12, <1>13,
     <1>14, <1>15, <1>16, <1>17, <1>18, <1>19, EngineAssumption
     DEF EngineNext, ThreadStep, EngineCalls

(* Who is beside an operation, and what it finds.                          *)
LEMMA Beside ==
  ASSUME EngineTypes, Apart, Known, Kept, TransientInv, Agreed, NEW t \in Threads
  PROVE  /\ thread[t].op \in {"add", "prepare", "pause", "resume", "resolve"} =>
              \A u \in Threads : ~Removing(u)
         /\ thread[t].op \in {"prepare", "pause", "resume"} =>
              live = "managed" /\ disk.meta /\ SelectionAgrees /\ PauseAgrees
         /\ thread[t].at = "gated" => live # "transient"
         /\ thread[t].op = "remove" => \A u \in Threads \ {t} : thread[u].op = "none"
<1>0. StagesInv
  BY DEF EngineTypes
<1>1. ASSUME thread[t].op \in {"add", "prepare", "pause", "resume", "resolve"}, NEW u \in Threads
      PROVE  ~Removing(u)
  BY <1>0, <1>1 DEF StagesInv, Apart, Clash, Removing
<1>2. ASSUME thread[t].op \in {"prepare", "pause", "resume"}
      PROVE  live = "managed" /\ disk.meta /\ SelectionAgrees /\ PauseAgrees
  <2>1. disk.meta /\ \A u \in Threads : ~Removing(u)
    BY <1>1, <1>2 DEF Known, Kept
  <2> QED BY <2>1 DEF Agreed
<1>3. thread[t].at = "gated" => live # "transient"
  BY <1>0 DEF TransientInv, StagesInv
<1>4. ASSUME thread[t].op = "remove", NEW u \in Threads \ {t}
      PROVE  thread[u].op = "none"
  BY <1>4 DEF Apart, Clash
<1> QED BY <1>1, <1>2, <1>3, <1>4

LEMMA KeptStep ==
  ASSUME EngineTypes, Apart, Known, Kept, OnDisk, TransientInv, Agreed, Taken, Mild', [EngineNext]_engineVars
  PROVE  Kept'
<1>0. /\ EngineTypes /\ StagesInv /\ Apart /\ Known /\ Kept /\ OnDisk /\ TransientInv
      /\ Agreed /\ Taken /\ engineGaps \subseteq engineGaps' /\ Mild
  BY EngineGapsGrow DEF EngineTypes, Mild
<1> USE DEF StagesInv, Mild, OthersStay, CallEnds, CallMoves, AtRest, Kept, OnDisk
<1>1. ASSUME NEW t \in Threads, NEW op \in EngineCalls, NEW s \in Selections \cup {NoSel},
             Begin(t, op, s)
      PROVE  Kept'
  BY <1>0, <1>1, BeginDoes
<1>2. ASSUME NEW t \in Threads, AcquireHashGate(t)
      PROVE  Kept'
  BY <1>0, <1>2, AcquireHashGateDoes
<1>3. ASSUME NEW t \in Threads, Add(t)
      PROVE  Kept'
  <2>1. live # "none" => live = "managed"
    BY <1>0, <1>3, Beside, AddDoes DEF EngineTypes, EngineTypeOK
  <2>2. \A u \in Threads : ~Removing(u)
    BY <1>0, <1>3, Beside, AddDoes
  <2> QED BY <1>0, <1>3, <2>1, <2>2, AddDoes DEF Agreed
<1>4. ASSUME NEW t \in Threads, AddTimesOut(t)
      PROVE  Kept'
  BY <1>0, <1>4, AddTimesOutDoes
<1>5. ASSUME NEW t \in Threads, ResolveAdds(t)
      PROVE  Kept'
  BY <1>0, <1>5, ResolveAddsDoes
<1>6. ASSUME NEW t \in Threads, ResolveDrops(t)
      PROVE  Kept'
  BY <1>0, <1>6, ResolveDropsDoes
<1>7. ASSUME NEW t \in Threads, Lookup(t)
      PROVE  Kept'
  BY <1>0, <1>7, LookupDoes
<1>8. ASSUME NEW t \in Threads, SetPriorities(t)
      PROVE  Kept'
  BY <1>0, <1>8, SetPrioritiesDoes
<1>9. ASSUME NEW t \in Threads, SetTransfer(t)
      PROVE  Kept'
  BY <1>0, <1>9, SetTransferDoes
<1>10. ASSUME NEW t \in Threads, RecordSelection(t)
      PROVE  Kept'
  BY <1>0, <1>10, RecordSelectionDoes
<1>11. ASSUME NEW t \in Threads, RecordPause(t)
      PROVE  Kept'
  BY <1>0, <1>11, RecordPauseDoes
<1>12. ASSUME NEW t \in Threads, RemoveForgets(t)
      PROVE  Kept'
  BY <1>0, <1>12, RemoveForgetsDoes
<1>13. ASSUME NEW t \in Threads, RemoveClearsCompletion(t)
      PROVE  Kept'
  BY <1>0, <1>13, RemoveClearsCompletionDoes
<1>14. ASSUME NEW t \in Threads, RemoveDrops(t)
      PROVE  Kept'
  BY <1>0, <1>14, RemoveDropsDoes
<1>15. ASSUME NEW t \in Threads, RemoveForgetsSession(t)
      PROVE  Kept'
  BY <1>0, <1>15, RemoveForgetsSessionDoes DEF Known
<1>16. ASSUME NEW t \in Threads, RemoveDeletes(t)
      PROVE  Kept'
  BY <1>0, <1>16, RemoveDeletesDoes
<1>17. CASE Download
  BY <1>0, <1>17 DEF Download
<1>18. CASE Restart
  BY <1>0, <1>18 DEF Restart
<1>19. CASE UNCHANGED engineVars
  BY <1>0, <1>19 DEF engineVars
<1> QED
  BY <1>1, <1>2, <1>3, <1>4, <1>5, <1>6, <1>7, <1>8, <1>9, <1>10, <1>11, <1>12, <1>13,
     <1>14, <1>15, <1>16, <1>17, <1>18, <1>19, EngineAssumption
     DEF EngineNext, ThreadStep, EngineCalls

LEMMA OnDiskStep ==
  ASSUME EngineTypes, Apart, Known, Kept, OnDisk, TransientInv, Agreed, Taken, Mild', [EngineNext]_engineVars
  PROVE  OnDisk'
<1>0. /\ EngineTypes /\ StagesInv /\ Apart /\ Known /\ Kept /\ OnDisk /\ TransientInv
      /\ Agreed /\ Taken /\ engineGaps \subseteq engineGaps' /\ Mild
  BY EngineGapsGrow DEF EngineTypes, Mild
<1> USE DEF StagesInv, Mild, OthersStay, CallEnds, CallMoves, AtRest, OnDisk
<1>1. ASSUME NEW t \in Threads, NEW op \in EngineCalls, NEW s \in Selections \cup {NoSel},
             Begin(t, op, s)
      PROVE  OnDisk'
  BY <1>0, <1>1, BeginDoes
<1>2. ASSUME NEW t \in Threads, AcquireHashGate(t)
      PROVE  OnDisk'
  BY <1>0, <1>2, AcquireHashGateDoes
<1>3. ASSUME NEW t \in Threads, Add(t)
      PROVE  OnDisk'
  BY <1>0, <1>3, AddDoes
<1>4. ASSUME NEW t \in Threads, AddTimesOut(t)
      PROVE  OnDisk'
  BY <1>0, <1>4, AddTimesOutDoes
<1>5. ASSUME NEW t \in Threads, ResolveAdds(t)
      PROVE  OnDisk'
  BY <1>0, <1>5, ResolveAddsDoes
<1>6. ASSUME NEW t \in Threads, ResolveDrops(t)
      PROVE  OnDisk'
  BY <1>0, <1>6, ResolveDropsDoes
<1>7. ASSUME NEW t \in Threads, Lookup(t)
      PROVE  OnDisk'
  BY <1>0, <1>7, LookupDoes
<1>8. ASSUME NEW t \in Threads, SetPriorities(t)
      PROVE  OnDisk'
  BY <1>0, <1>8, SetPrioritiesDoes
<1>9. ASSUME NEW t \in Threads, SetTransfer(t)
      PROVE  OnDisk'
  BY <1>0, <1>9, SetTransferDoes
<1>10. ASSUME NEW t \in Threads, RecordSelection(t)
      PROVE  OnDisk'
  BY <1>0, <1>10, RecordSelectionDoes, Beside
<1>11. ASSUME NEW t \in Threads, RecordPause(t)
      PROVE  OnDisk'
  BY <1>0, <1>11, RecordPauseDoes, Beside
<1>12. ASSUME NEW t \in Threads, RemoveForgets(t)
      PROVE  OnDisk'
  BY <1>0, <1>12, RemoveForgetsDoes
<1>13. ASSUME NEW t \in Threads, RemoveClearsCompletion(t)
      PROVE  OnDisk'
  BY <1>0, <1>13, RemoveClearsCompletionDoes
<1>14. ASSUME NEW t \in Threads, RemoveDrops(t)
      PROVE  OnDisk'
  BY <1>0, <1>14, RemoveDropsDoes
<1>15. ASSUME NEW t \in Threads, RemoveForgetsSession(t)
      PROVE  OnDisk'
  BY <1>0, <1>15, RemoveForgetsSessionDoes
<1>16. ASSUME NEW t \in Threads, RemoveDeletes(t)
      PROVE  OnDisk'
  BY <1>0, <1>16, RemoveDeletesDoes
<1>17. CASE Download
  BY <1>0, <1>17 DEF Download
<1>18. CASE Restart
  BY <1>0, <1>18 DEF Restart
<1>19. CASE UNCHANGED engineVars
  BY <1>0, <1>19 DEF engineVars
<1> QED
  BY <1>1, <1>2, <1>3, <1>4, <1>5, <1>6, <1>7, <1>8, <1>9, <1>10, <1>11, <1>12, <1>13,
     <1>14, <1>15, <1>16, <1>17, <1>18, <1>19, EngineAssumption
     DEF EngineNext, ThreadStep, EngineCalls

LEMMA TransientStep ==
  ASSUME EngineTypes, Apart, Known, Kept, OnDisk, TransientInv, Agreed, Taken, Mild', [EngineNext]_engineVars
  PROVE  TransientInv'
<1>0. /\ EngineTypes /\ StagesInv /\ Apart /\ Known /\ Kept /\ OnDisk /\ TransientInv
      /\ Agreed /\ Taken /\ engineGaps \subseteq engineGaps' /\ Mild
  BY EngineGapsGrow DEF EngineTypes, Mild
<1> USE DEF StagesInv, Mild, OthersStay, CallEnds, CallMoves, AtRest, TransientInv
<1>1. ASSUME NEW t \in Threads, NEW op \in EngineCalls, NEW s \in Selections \cup {NoSel},
             Begin(t, op, s)
      PROVE  TransientInv'
  BY <1>0, <1>1, BeginDoes
<1>2. ASSUME NEW t \in Threads, AcquireHashGate(t)
      PROVE  TransientInv'
  BY <1>0, <1>2, AcquireHashGateDoes
<1>3. ASSUME NEW t \in Threads, Add(t)
      PROVE  TransientInv'
  BY <1>0, <1>3, AddDoes, Beside
<1>4. ASSUME NEW t \in Threads, AddTimesOut(t)
      PROVE  TransientInv'
  BY <1>0, <1>4, AddTimesOutDoes
<1>5. ASSUME NEW t \in Threads, ResolveAdds(t)
      PROVE  TransientInv'
  BY <1>0, <1>5, ResolveAddsDoes, Beside DEF Agreed
<1>6. ASSUME NEW t \in Threads, ResolveDrops(t)
      PROVE  TransientInv'
  BY <1>0, <1>6, ResolveDropsDoes
<1>7. ASSUME NEW t \in Threads, Lookup(t)
      PROVE  TransientInv'
  BY <1>0, <1>7, LookupDoes
<1>8. ASSUME NEW t \in Threads, SetPriorities(t)
      PROVE  TransientInv'
  BY <1>0, <1>8, SetPrioritiesDoes
<1>9. ASSUME NEW t \in Threads, SetTransfer(t)
      PROVE  TransientInv'
  BY <1>0, <1>9, SetTransferDoes
<1>10. ASSUME NEW t \in Threads, RecordSelection(t)
      PROVE  TransientInv'
  BY <1>0, <1>10, RecordSelectionDoes, Beside
<1>11. ASSUME NEW t \in Threads, RecordPause(t)
      PROVE  TransientInv'
  BY <1>0, <1>11, RecordPauseDoes, Beside
<1>12. ASSUME NEW t \in Threads, RemoveForgets(t)
      PROVE  TransientInv'
  BY <1>0, <1>12, RemoveForgetsDoes
<1>13. ASSUME NEW t \in Threads, RemoveClearsCompletion(t)
      PROVE  TransientInv'
  BY <1>0, <1>13, RemoveClearsCompletionDoes
<1>14. ASSUME NEW t \in Threads, RemoveDrops(t)
      PROVE  TransientInv'
  BY <1>0, <1>14, RemoveDropsDoes, Beside
<1>15. ASSUME NEW t \in Threads, RemoveForgetsSession(t)
      PROVE  TransientInv'
  BY <1>0, <1>15, RemoveForgetsSessionDoes, Beside
<1>16. ASSUME NEW t \in Threads, RemoveDeletes(t)
      PROVE  TransientInv'
  BY <1>0, <1>16, RemoveDeletesDoes
<1>17. CASE Download
  BY <1>0, <1>17 DEF Download
<1>18. CASE Restart
  BY <1>0, <1>18 DEF Restart
<1>19. CASE UNCHANGED engineVars
  BY <1>0, <1>19 DEF engineVars
<1> QED
  BY <1>1, <1>2, <1>3, <1>4, <1>5, <1>6, <1>7, <1>8, <1>9, <1>10, <1>11, <1>12, <1>13,
     <1>14, <1>15, <1>16, <1>17, <1>18, <1>19, EngineAssumption
     DEF EngineNext, ThreadStep, EngineCalls

LEMMA ManagedStep ==
  ASSUME EngineTypes, Apart, Known, Kept, OnDisk, TransientInv, Agreed, Taken, Mild', \A u \in Threads : ~Removing(u)', [EngineNext]_engineVars
  PROVE  (live = "managed" <=> disk.meta)'
<1>0. /\ EngineTypes /\ StagesInv /\ Apart /\ Known /\ Kept /\ OnDisk /\ TransientInv
      /\ Agreed /\ Taken /\ engineGaps \subseteq engineGaps' /\ Mild /\ \A u \in Threads : ~Removing(u)'
  BY EngineGapsGrow DEF EngineTypes, Mild
<1> USE DEF StagesInv, Mild, OthersStay, CallEnds, CallMoves, AtRest, Removing, Agreed
<1>1. ASSUME NEW t \in Threads, NEW op \in EngineCalls, NEW s \in Selections \cup {NoSel},
             Begin(t, op, s)
      PROVE  (live = "managed" <=> disk.meta)'
  BY <1>0, <1>1, BeginDoes
<1>2. ASSUME NEW t \in Threads, AcquireHashGate(t)
      PROVE  (live = "managed" <=> disk.meta)'
  BY <1>0, <1>2, AcquireHashGateDoes, Beside
<1>3. ASSUME NEW t \in Threads, Add(t)
      PROVE  (live = "managed" <=> disk.meta)'
  BY <1>0, <1>3, AddDoes, Beside
<1>4. ASSUME NEW t \in Threads, AddTimesOut(t)
      PROVE  (live = "managed" <=> disk.meta)'
  BY <1>0, <1>4, AddTimesOutDoes
<1>5. ASSUME NEW t \in Threads, ResolveAdds(t)
      PROVE  (live = "managed" <=> disk.meta)'
  BY <1>0, <1>5, ResolveAddsDoes, Beside
<1>6. ASSUME NEW t \in Threads, ResolveDrops(t)
      PROVE  (live = "managed" <=> disk.meta)'
  BY <1>0, <1>6, ResolveDropsDoes, Beside DEF TransientInv
<1>7. ASSUME NEW t \in Threads, Lookup(t)
      PROVE  (live = "managed" <=> disk.meta)'
  BY <1>0, <1>7, LookupDoes, Beside
<1>8. ASSUME NEW t \in Threads, SetPriorities(t)
      PROVE  (live = "managed" <=> disk.meta)'
  BY <1>0, <1>8, SetPrioritiesDoes, Beside
<1>9. ASSUME NEW t \in Threads, SetTransfer(t)
      PROVE  (live = "managed" <=> disk.meta)'
  BY <1>0, <1>9, SetTransferDoes, Beside
<1>10. ASSUME NEW t \in Threads, RecordSelection(t)
      PROVE  (live = "managed" <=> disk.meta)'
  BY <1>0, <1>10, RecordSelectionDoes, Beside DEF OnDisk
<1>11. ASSUME NEW t \in Threads, RecordPause(t)
      PROVE  (live = "managed" <=> disk.meta)'
  BY <1>0, <1>11, RecordPauseDoes, Beside DEF OnDisk
<1>12. ASSUME NEW t \in Threads, RemoveForgets(t)
      PROVE  (live = "managed" <=> disk.meta)'
  BY <1>0, <1>12, RemoveForgetsDoes, Beside
<1>13. ASSUME NEW t \in Threads, RemoveClearsCompletion(t)
      PROVE  (live = "managed" <=> disk.meta)'
  BY <1>0, <1>13, RemoveClearsCompletionDoes, Beside
<1>14. ASSUME NEW t \in Threads, RemoveDrops(t)
      PROVE  (live = "managed" <=> disk.meta)'
  BY <1>0, <1>14, RemoveDropsDoes, Beside
<1>15. ASSUME NEW t \in Threads, RemoveForgetsSession(t)
      PROVE  (live = "managed" <=> disk.meta)'
  BY <1>0, <1>15, RemoveForgetsSessionDoes, Beside
<1>16. ASSUME NEW t \in Threads, RemoveDeletes(t)
      PROVE  (live = "managed" <=> disk.meta)'
  BY <1>0, <1>16, RemoveDeletesDoes, Beside DEF Taken
<1>17. CASE Download
  BY <1>0, <1>17 DEF Download
<1>18. CASE Restart
  BY <1>0, <1>18 DEF Restart
<1>19. CASE UNCHANGED engineVars
  BY <1>0, <1>19 DEF engineVars
<1> QED
  BY <1>1, <1>2, <1>3, <1>4, <1>5, <1>6, <1>7, <1>8, <1>9, <1>10, <1>11, <1>12, <1>13,
     <1>14, <1>15, <1>16, <1>17, <1>18, <1>19, EngineAssumption
     DEF EngineNext, ThreadStep, EngineCalls

LEMMA SelectionStep ==
  ASSUME EngineTypes, Apart, Known, Kept, OnDisk, TransientInv, Agreed, Taken, Mild', \A u \in Threads : ~Removing(u)', [EngineNext]_engineVars
  PROVE  (disk.meta => SelectionAgrees)'
<1>0. /\ EngineTypes /\ StagesInv /\ Apart /\ Known /\ Kept /\ OnDisk /\ TransientInv
      /\ Agreed /\ Taken /\ engineGaps \subseteq engineGaps' /\ Mild /\ \A u \in Threads : ~Removing(u)'
  BY EngineGapsGrow DEF EngineTypes, Mild
<1> USE DEF StagesInv, Mild, OthersStay, CallEnds, CallMoves, AtRest, Removing, Agreed,
            SelectionAgrees, Recording
<1>1. ASSUME NEW t \in Threads, NEW op \in EngineCalls, NEW s \in Selections \cup {NoSel},
             Begin(t, op, s)
      PROVE  (disk.meta => SelectionAgrees)'
  BY <1>0, <1>1, BeginDoes
<1>2. ASSUME NEW t \in Threads, AcquireHashGate(t)
      PROVE  (disk.meta => SelectionAgrees)'
  BY <1>0, <1>2, AcquireHashGateDoes, Beside
<1>3. ASSUME NEW t \in Threads, Add(t)
      PROVE  (disk.meta => SelectionAgrees)'
  BY <1>0, <1>3, AddDoes, Beside DEF Known, Kept, OnDisk, Blank, NoEntry
<1>4. ASSUME NEW t \in Threads, AddTimesOut(t)
      PROVE  (disk.meta => SelectionAgrees)'
  BY <1>0, <1>4, AddTimesOutDoes
<1>5. ASSUME NEW t \in Threads, ResolveAdds(t)
      PROVE  (disk.meta => SelectionAgrees)'
  BY <1>0, <1>5, ResolveAddsDoes, Beside
<1>6. ASSUME NEW t \in Threads, ResolveDrops(t)
      PROVE  (disk.meta => SelectionAgrees)'
  BY <1>0, <1>6, ResolveDropsDoes, Beside DEF TransientInv
<1>7. ASSUME NEW t \in Threads, Lookup(t)
      PROVE  (disk.meta => SelectionAgrees)'
  BY <1>0, <1>7, LookupDoes, Beside
<1>8. ASSUME NEW t \in Threads, SetPriorities(t)
      PROVE  (disk.meta => SelectionAgrees)'
  BY <1>0, <1>8, SetPrioritiesDoes, Beside DEF Apart, Clash
<1>9. ASSUME NEW t \in Threads, SetTransfer(t)
      PROVE  (disk.meta => SelectionAgrees)'
  BY <1>0, <1>9, SetTransferDoes, Beside
<1>10. ASSUME NEW t \in Threads, RecordSelection(t)
      PROVE  (disk.meta => SelectionAgrees)'
  BY <1>0, <1>10, RecordSelectionDoes, Beside DEF OnDisk, Apart, Clash
<1>11. ASSUME NEW t \in Threads, RecordPause(t)
      PROVE  (disk.meta => SelectionAgrees)'
  BY <1>0, <1>11, RecordPauseDoes, Beside DEF OnDisk
<1>12. ASSUME NEW t \in Threads, RemoveForgets(t)
      PROVE  (disk.meta => SelectionAgrees)'
  BY <1>0, <1>12, RemoveForgetsDoes, Beside
<1>13. ASSUME NEW t \in Threads, RemoveClearsCompletion(t)
      PROVE  (disk.meta => SelectionAgrees)'
  BY <1>0, <1>13, RemoveClearsCompletionDoes, Beside
<1>14. ASSUME NEW t \in Threads, RemoveDrops(t)
      PROVE  (disk.meta => SelectionAgrees)'
  BY <1>0, <1>14, RemoveDropsDoes, Beside
<1>15. ASSUME NEW t \in Threads, RemoveForgetsSession(t)
      PROVE  (disk.meta => SelectionAgrees)'
  BY <1>0, <1>15, RemoveForgetsSessionDoes, Beside
<1>16. ASSUME NEW t \in Threads, RemoveDeletes(t)
      PROVE  (disk.meta => SelectionAgrees)'
  BY <1>0, <1>16, RemoveDeletesDoes, Beside DEF Taken
<1>17. CASE Download
  BY <1>0, <1>17 DEF Download
<1>18. CASE Restart
  BY <1>0, <1>18 DEF Restart
<1>19. CASE UNCHANGED engineVars
  BY <1>0, <1>19 DEF engineVars
<1> QED
  BY <1>1, <1>2, <1>3, <1>4, <1>5, <1>6, <1>7, <1>8, <1>9, <1>10, <1>11, <1>12, <1>13,
     <1>14, <1>15, <1>16, <1>17, <1>18, <1>19, EngineAssumption
     DEF EngineNext, ThreadStep, EngineCalls

LEMMA PauseStep ==
  ASSUME EngineTypes, Apart, Known, Kept, OnDisk, TransientInv, Agreed, Taken, Mild', \A u \in Threads : ~Removing(u)', [EngineNext]_engineVars
  PROVE  (disk.meta => PauseAgrees)'
<1>0. /\ EngineTypes /\ StagesInv /\ Apart /\ Known /\ Kept /\ OnDisk /\ TransientInv
      /\ Agreed /\ Taken /\ engineGaps \subseteq engineGaps' /\ Mild /\ \A u \in Threads : ~Removing(u)'
  BY EngineGapsGrow DEF EngineTypes, Mild
<1> USE DEF StagesInv, Mild, OthersStay, CallEnds, CallMoves, AtRest, Removing, Agreed,
            PauseAgrees, Recording
<1>1. ASSUME NEW t \in Threads, NEW op \in EngineCalls, NEW s \in Selections \cup {NoSel},
             Begin(t, op, s)
      PROVE  (disk.meta => PauseAgrees)'
  BY <1>0, <1>1, BeginDoes
<1>2. ASSUME NEW t \in Threads, AcquireHashGate(t)
      PROVE  (disk.meta => PauseAgrees)'
  BY <1>0, <1>2, AcquireHashGateDoes, Beside
<1>3. ASSUME NEW t \in Threads, Add(t)
      PROVE  (disk.meta => PauseAgrees)'
  BY <1>0, <1>3, AddDoes, Beside DEF Known, Kept, OnDisk, Blank, NoEntry
<1>4. ASSUME NEW t \in Threads, AddTimesOut(t)
      PROVE  (disk.meta => PauseAgrees)'
  BY <1>0, <1>4, AddTimesOutDoes
<1>5. ASSUME NEW t \in Threads, ResolveAdds(t)
      PROVE  (disk.meta => PauseAgrees)'
  BY <1>0, <1>5, ResolveAddsDoes, Beside
<1>6. ASSUME NEW t \in Threads, ResolveDrops(t)
      PROVE  (disk.meta => PauseAgrees)'
  BY <1>0, <1>6, ResolveDropsDoes, Beside DEF TransientInv
<1>7. ASSUME NEW t \in Threads, Lookup(t)
      PROVE  (disk.meta => PauseAgrees)'
  BY <1>0, <1>7, LookupDoes, Beside
<1>8. ASSUME NEW t \in Threads, SetPriorities(t)
      PROVE  (disk.meta => PauseAgrees)'
  BY <1>0, <1>8, SetPrioritiesDoes, Beside
<1>9. ASSUME NEW t \in Threads, SetTransfer(t)
      PROVE  (disk.meta => PauseAgrees)'
  BY <1>0, <1>9, SetTransferDoes, Beside DEF Apart, Clash
<1>10. ASSUME NEW t \in Threads, RecordSelection(t)
      PROVE  (disk.meta => PauseAgrees)'
  BY <1>0, <1>10, RecordSelectionDoes, Beside DEF OnDisk
<1>11. ASSUME NEW t \in Threads, RecordPause(t)
      PROVE  (disk.meta => PauseAgrees)'
  BY <1>0, <1>11, RecordPauseDoes, Beside DEF OnDisk, Apart, Clash
<1>12. ASSUME NEW t \in Threads, RemoveForgets(t)
      PROVE  (disk.meta => PauseAgrees)'
  BY <1>0, <1>12, RemoveForgetsDoes, Beside
<1>13. ASSUME NEW t \in Threads, RemoveClearsCompletion(t)
      PROVE  (disk.meta => PauseAgrees)'
  BY <1>0, <1>13, RemoveClearsCompletionDoes, Beside
<1>14. ASSUME NEW t \in Threads, RemoveDrops(t)
      PROVE  (disk.meta => PauseAgrees)'
  BY <1>0, <1>14, RemoveDropsDoes, Beside
<1>15. ASSUME NEW t \in Threads, RemoveForgetsSession(t)
      PROVE  (disk.meta => PauseAgrees)'
  BY <1>0, <1>15, RemoveForgetsSessionDoes, Beside
<1>16. ASSUME NEW t \in Threads, RemoveDeletes(t)
      PROVE  (disk.meta => PauseAgrees)'
  BY <1>0, <1>16, RemoveDeletesDoes, Beside DEF Taken
<1>17. CASE Download
  BY <1>0, <1>17 DEF Download
<1>18. CASE Restart
  BY <1>0, <1>18 DEF Restart
<1>19. CASE UNCHANGED engineVars
  BY <1>0, <1>19 DEF engineVars
<1> QED
  BY <1>1, <1>2, <1>3, <1>4, <1>5, <1>6, <1>7, <1>8, <1>9, <1>10, <1>11, <1>12, <1>13,
     <1>14, <1>15, <1>16, <1>17, <1>18, <1>19, EngineAssumption
     DEF EngineNext, ThreadStep, EngineCalls

LEMMA BlankStep ==
  ASSUME EngineTypes, Apart, Known, Kept, OnDisk, TransientInv, Agreed, Taken, Mild', \A u \in Threads : ~Removing(u)', [EngineNext]_engineVars
  PROVE  (~disk.meta => Blank)'
<1>0. /\ EngineTypes /\ StagesInv /\ Apart /\ Known /\ Kept /\ OnDisk /\ TransientInv
      /\ Agreed /\ Taken /\ engineGaps \subseteq engineGaps' /\ Mild /\ \A u \in Threads : ~Removing(u)'
  BY EngineGapsGrow DEF EngineTypes, Mild
<1> USE DEF StagesInv, Mild, OthersStay, CallEnds, CallMoves, AtRest, Removing, Agreed,
            Blank
<1>1. ASSUME NEW t \in Threads, NEW op \in EngineCalls, NEW s \in Selections \cup {NoSel},
             Begin(t, op, s)
      PROVE  (~disk.meta => Blank)'
  BY <1>0, <1>1, BeginDoes
<1>2. ASSUME NEW t \in Threads, AcquireHashGate(t)
      PROVE  (~disk.meta => Blank)'
  BY <1>0, <1>2, AcquireHashGateDoes, Beside
<1>3. ASSUME NEW t \in Threads, Add(t)
      PROVE  (~disk.meta => Blank)'
  BY <1>0, <1>3, AddDoes, Beside
<1>4. ASSUME NEW t \in Threads, AddTimesOut(t)
      PROVE  (~disk.meta => Blank)'
  BY <1>0, <1>4, AddTimesOutDoes
<1>5. ASSUME NEW t \in Threads, ResolveAdds(t)
      PROVE  (~disk.meta => Blank)'
  BY <1>0, <1>5, ResolveAddsDoes, Beside
<1>6. ASSUME NEW t \in Threads, ResolveDrops(t)
      PROVE  (~disk.meta => Blank)'
  BY <1>0, <1>6, ResolveDropsDoes, Beside DEF TransientInv
<1>7. ASSUME NEW t \in Threads, Lookup(t)
      PROVE  (~disk.meta => Blank)'
  BY <1>0, <1>7, LookupDoes, Beside
<1>8. ASSUME NEW t \in Threads, SetPriorities(t)
      PROVE  (~disk.meta => Blank)'
  BY <1>0, <1>8, SetPrioritiesDoes, Beside
<1>9. ASSUME NEW t \in Threads, SetTransfer(t)
      PROVE  (~disk.meta => Blank)'
  BY <1>0, <1>9, SetTransferDoes, Beside
<1>10. ASSUME NEW t \in Threads, RecordSelection(t)
      PROVE  (~disk.meta => Blank)'
  BY <1>0, <1>10, RecordSelectionDoes, Beside DEF OnDisk
<1>11. ASSUME NEW t \in Threads, RecordPause(t)
      PROVE  (~disk.meta => Blank)'
  BY <1>0, <1>11, RecordPauseDoes, Beside DEF OnDisk
<1>12. ASSUME NEW t \in Threads, RemoveForgets(t)
      PROVE  (~disk.meta => Blank)'
  BY <1>0, <1>12, RemoveForgetsDoes, Beside
<1>13. ASSUME NEW t \in Threads, RemoveClearsCompletion(t)
      PROVE  (~disk.meta => Blank)'
  BY <1>0, <1>13, RemoveClearsCompletionDoes, Beside
<1>14. ASSUME NEW t \in Threads, RemoveDrops(t)
      PROVE  (~disk.meta => Blank)'
  BY <1>0, <1>14, RemoveDropsDoes, Beside
<1>15. ASSUME NEW t \in Threads, RemoveForgetsSession(t)
      PROVE  (~disk.meta => Blank)'
  BY <1>0, <1>15, RemoveForgetsSessionDoes, Beside
<1>16. ASSUME NEW t \in Threads, RemoveDeletes(t)
      PROVE  (~disk.meta => Blank)'
  <2>1. selected = NoSel /\ ~paused /\ prio = NoSel /\ allowed
    BY <1>0, <1>16, RemoveDeletesDoes DEF Taken
  <2> QED BY <1>16, <2>1, RemoveDeletesDoes
<1>17. CASE Download
  BY <1>0, <1>17 DEF Download
<1>18. CASE Restart
  BY <1>0, <1>18 DEF Restart
<1>19. CASE UNCHANGED engineVars
  BY <1>0, <1>19 DEF engineVars
<1> QED
  BY <1>1, <1>2, <1>3, <1>4, <1>5, <1>6, <1>7, <1>8, <1>9, <1>10, <1>11, <1>12, <1>13,
     <1>14, <1>15, <1>16, <1>17, <1>18, <1>19, EngineAssumption
     DEF EngineNext, ThreadStep, EngineCalls

LEMMA TakenStep ==
  ASSUME EngineTypes, Apart, Known, Kept, OnDisk, TransientInv, Agreed, Taken, Mild', [EngineNext]_engineVars
  PROVE  Taken'
<1>0. /\ EngineTypes /\ StagesInv /\ Apart /\ Known /\ Kept /\ OnDisk /\ TransientInv
      /\ Agreed /\ Taken /\ engineGaps \subseteq engineGaps' /\ Mild
  BY EngineGapsGrow DEF EngineTypes, Mild
<1> USE DEF StagesInv, Mild, OthersStay, CallEnds, CallMoves, AtRest, Removing, Taken
<1> SUFFICES ASSUME NEW u \in Threads PROVE Taken!(u)'
  BY DEF Taken
<1>1. ASSUME NEW t \in Threads, NEW op \in EngineCalls, NEW s \in Selections \cup {NoSel},
             Begin(t, op, s)
      PROVE  Taken!(u)'
  BY <1>0, <1>1, BeginDoes DEF Clash
<1>2. ASSUME NEW t \in Threads, AcquireHashGate(t)
      PROVE  Taken!(u)'
  BY <1>0, <1>2, AcquireHashGateDoes, Beside
<1>3. ASSUME NEW t \in Threads, Add(t)
      PROVE  Taken!(u)'
  BY <1>0, <1>3, AddDoes, Beside
<1>4. ASSUME NEW t \in Threads, AddTimesOut(t)
      PROVE  Taken!(u)'
  BY <1>0, <1>4, AddTimesOutDoes
<1>5. ASSUME NEW t \in Threads, ResolveAdds(t)
      PROVE  Taken!(u)'
  BY <1>0, <1>5, ResolveAddsDoes, Beside
<1>6. ASSUME NEW t \in Threads, ResolveDrops(t)
      PROVE  Taken!(u)'
  BY <1>0, <1>6, ResolveDropsDoes, Beside
<1>7. ASSUME NEW t \in Threads, Lookup(t)
      PROVE  Taken!(u)'
  BY <1>0, <1>7, LookupDoes, Beside
<1>8. ASSUME NEW t \in Threads, SetPriorities(t)
      PROVE  Taken!(u)'
  BY <1>0, <1>8, SetPrioritiesDoes, Beside
<1>9. ASSUME NEW t \in Threads, SetTransfer(t)
      PROVE  Taken!(u)'
  BY <1>0, <1>9, SetTransferDoes, Beside
<1>10. ASSUME NEW t \in Threads, RecordSelection(t)
      PROVE  Taken!(u)'
  BY <1>0, <1>10, RecordSelectionDoes, Beside
<1>11. ASSUME NEW t \in Threads, RecordPause(t)
      PROVE  Taken!(u)'
  BY <1>0, <1>11, RecordPauseDoes, Beside
<1>12. ASSUME NEW t \in Threads, RemoveForgets(t)
      PROVE  Taken!(u)'
  <2>1. \A v \in Threads : ~Removing(v) /\ thread[v].at # "waiting"
    BY <1>0, <1>12, RemoveForgetsDoes, Beside DEF Clash
  <2>2. live # "transient"
    BY <1>0, <2>1 DEF TransientInv
  <2>3. (live = "managed" <=> disk.meta) /\ (~disk.meta => Blank)
    BY <1>0, <2>1 DEF Agreed
  <2>4. live \in {"none", "managed", "transient"}
    BY <1>0 DEF EngineTypes, EngineTypeOK
  <2>5. CASE u = t
    BY <1>0, <1>12, <2>2, <2>3, <2>4, <2>5, RemoveForgetsDoes DEF Blank
  <2> QED BY <1>0, <1>12, <2>1, <2>5, RemoveForgetsDoes
<1>13. ASSUME NEW t \in Threads, RemoveClearsCompletion(t)
      PROVE  Taken!(u)'
  BY <1>0, <1>13, RemoveClearsCompletionDoes, Beside
<1>14. ASSUME NEW t \in Threads, RemoveDrops(t)
      PROVE  Taken!(u)'
  BY <1>0, <1>14, RemoveDropsDoes, Beside
<1>15. ASSUME NEW t \in Threads, RemoveForgetsSession(t)
      PROVE  Taken!(u)'
  BY <1>0, <1>15, RemoveForgetsSessionDoes, Beside DEF NoEntry
<1>16. ASSUME NEW t \in Threads, RemoveDeletes(t)
      PROVE  Taken!(u)'
  BY <1>0, <1>16, RemoveDeletesDoes, Beside
<1>17. CASE Download
  BY <1>0, <1>17 DEF Download
<1>18. CASE Restart
  BY <1>0, <1>18 DEF Restart
<1>19. CASE UNCHANGED engineVars
  BY <1>0, <1>19 DEF engineVars
<1> QED
  BY <1>1, <1>2, <1>3, <1>4, <1>5, <1>6, <1>7, <1>8, <1>9, <1>10, <1>11, <1>12, <1>13,
     <1>14, <1>15, <1>16, <1>17, <1>18, <1>19, EngineAssumption
     DEF EngineNext, ThreadStep, EngineCalls
(* The types.                                                              *)
LEMMA EntriesStep ==
  ASSUME EngineTypes, [EngineNext]_engineVars
  PROVE  (entry \in Entries /\ disk \in Entries)'
<1>0. /\ live \in {"none", "managed", "transient"}
      /\ prio \in Selections \cup {NoSel} /\ selected \in Selections \cup {NoSel}
      /\ allowed \in BOOLEAN /\ paused \in BOOLEAN /\ data \in BOOLEAN
      /\ completion \in BOOLEAN /\ owned \in BOOLEAN
      /\ gate \in Threads \cup {"free"} /\ engineGaps \subseteq {"overlap", "unsaved", "late"}
      /\ entry \in Entries /\ disk \in Entries /\ thread \in [Threads -> Calls]
  BY DEF EngineTypes, EngineTypeOK
<1> USE DEF Calls
<1>1. ASSUME NEW t \in Threads, NEW op \in EngineCalls, NEW s \in Selections \cup {NoSel},
             Begin(t, op, s)
      PROVE  (entry \in Entries /\ disk \in Entries)'
  BY <1>0, <1>1 DEF Begin
<1>2. ASSUME NEW t \in Threads, AcquireHashGate(t)
      PROVE  (entry \in Entries /\ disk \in Entries)'
  BY <1>0, <1>2 DEF AcquireHashGate
<1>3. ASSUME NEW t \in Threads, Add(t)
      PROVE  (entry \in Entries /\ disk \in Entries)'
  BY <1>0, <1>3 DEF Add, Save, Entries
<1>4. ASSUME NEW t \in Threads, AddTimesOut(t)
      PROVE  (entry \in Entries /\ disk \in Entries)'
  BY <1>0, <1>4 DEF AddTimesOut
<1>5. ASSUME NEW t \in Threads, ResolveAdds(t)
      PROVE  (entry \in Entries /\ disk \in Entries)'
  BY <1>0, <1>5 DEF ResolveAdds
<1>6. ASSUME NEW t \in Threads, ResolveDrops(t)
      PROVE  (entry \in Entries /\ disk \in Entries)'
  BY <1>0, <1>6 DEF ResolveDrops, Dropped
<1>7. ASSUME NEW t \in Threads, Lookup(t)
      PROVE  (entry \in Entries /\ disk \in Entries)'
  BY <1>0, <1>7 DEF Lookup
<1>8. ASSUME NEW t \in Threads, SetPriorities(t)
      PROVE  (entry \in Entries /\ disk \in Entries)'
  BY <1>0, <1>8 DEF SetPriorities
<1>9. ASSUME NEW t \in Threads, SetTransfer(t)
      PROVE  (entry \in Entries /\ disk \in Entries)'
  BY <1>0, <1>9 DEF SetTransfer
<1>10. ASSUME NEW t \in Threads, RecordSelection(t)
      PROVE  (entry \in Entries /\ disk \in Entries)'
  BY <1>0, <1>10 DEF RecordSelection, Save, Entries
<1>11. ASSUME NEW t \in Threads, RecordPause(t)
      PROVE  (entry \in Entries /\ disk \in Entries)'
  BY <1>0, <1>11 DEF RecordPause, Save, Entries
<1>12. ASSUME NEW t \in Threads, RemoveForgets(t)
      PROVE  (entry \in Entries /\ disk \in Entries)'
  BY <1>0, <1>12 DEF RemoveForgets
<1>13. ASSUME NEW t \in Threads, RemoveClearsCompletion(t)
      PROVE  (entry \in Entries /\ disk \in Entries)'
  BY <1>0, <1>13 DEF RemoveClearsCompletion
<1>14. ASSUME NEW t \in Threads, RemoveDrops(t)
      PROVE  (entry \in Entries /\ disk \in Entries)'
  BY <1>0, <1>14 DEF RemoveDrops, Dropped
<1>15. ASSUME NEW t \in Threads, RemoveForgetsSession(t)
      PROVE  (entry \in Entries /\ disk \in Entries)'
  <2>1. NoEntry \in Entries
    BY DEF NoEntry, Entries
  <2> QED BY <1>0, <2>1, <1>15 DEF RemoveForgetsSession, Save
<1>16. ASSUME NEW t \in Threads, RemoveDeletes(t)
      PROVE  (entry \in Entries /\ disk \in Entries)'
  BY <1>0, <1>16 DEF RemoveDeletes
<1>17. CASE Download
  BY <1>0, <1>17 DEF Download
<1>18. CASE Restart
  BY <1>0, <1>18 DEF Restart
<1>19. CASE UNCHANGED engineVars
  BY <1>0, <1>19 DEF engineVars
<1> QED
  BY <1>1, <1>2, <1>3, <1>4, <1>5, <1>6, <1>7, <1>8, <1>9, <1>10, <1>11, <1>12, <1>13,
     <1>14, <1>15, <1>16, <1>17, <1>18, <1>19, EngineAssumption
     DEF EngineNext, ThreadStep, EngineCalls

LEMMA CallsStep ==
  ASSUME EngineTypes, [EngineNext]_engineVars
  PROVE  thread' \in [Threads -> Calls]
<1>0. /\ live \in {"none", "managed", "transient"}
      /\ prio \in Selections \cup {NoSel} /\ selected \in Selections \cup {NoSel}
      /\ allowed \in BOOLEAN /\ paused \in BOOLEAN /\ data \in BOOLEAN
      /\ completion \in BOOLEAN /\ owned \in BOOLEAN
      /\ gate \in Threads \cup {"free"} /\ engineGaps \subseteq {"overlap", "unsaved", "late"}
      /\ entry \in Entries /\ disk \in Entries /\ thread \in [Threads -> Calls]
  BY DEF EngineTypes, EngineTypeOK
<1> USE DEF Calls, EngineCalls, EngineStages, Done, To, AtRest
<1>1. ASSUME NEW t \in Threads, NEW op \in EngineCalls, NEW s \in Selections \cup {NoSel},
             Begin(t, op, s)
      PROVE  thread' \in [Threads -> Calls]
  BY <1>0, <1>1 DEF Begin
<1>2. ASSUME NEW t \in Threads, AcquireHashGate(t)
      PROVE  thread' \in [Threads -> Calls]
  BY <1>0, <1>2 DEF AcquireHashGate
<1>3. ASSUME NEW t \in Threads, Add(t)
      PROVE  thread' \in [Threads -> Calls]
  BY <1>0, <1>3 DEF Add, Save
<1>4. ASSUME NEW t \in Threads, AddTimesOut(t)
      PROVE  thread' \in [Threads -> Calls]
  BY <1>0, <1>4 DEF AddTimesOut
<1>5. ASSUME NEW t \in Threads, ResolveAdds(t)
      PROVE  thread' \in [Threads -> Calls]
  <2>1. Done(t) \/ To(t, "waiting")
    BY <1>5 DEF ResolveAdds
  <2>2. CASE Done(t)
    BY <1>0, <2>2
  <2>3. CASE To(t, "waiting")
    BY <1>0, <2>3
  <2> QED BY <2>1, <2>2, <2>3
<1>6. ASSUME NEW t \in Threads, ResolveDrops(t)
      PROVE  thread' \in [Threads -> Calls]
  BY <1>0, <1>6 DEF ResolveDrops, Dropped
<1>7. ASSUME NEW t \in Threads, Lookup(t)
      PROVE  thread' \in [Threads -> Calls]
  <2>1. Done(t)
        \/ thread' = [thread EXCEPT ![t] = [thread[t] EXCEPT !.at = "act", !.handle = TRUE]]
    BY <1>0, <1>7 DEF Lookup
  <2>2. [thread[t] EXCEPT !.at = "act", !.handle = TRUE] \in Calls
    BY <1>0
  <2>3. CASE Done(t)
    BY <1>0, <2>3
  <2> HIDE DEF Calls
  <2> QED BY <1>0, <2>1, <2>2, <2>3
<1>8. ASSUME NEW t \in Threads, SetPriorities(t)
      PROVE  thread' \in [Threads -> Calls]
  BY <1>0, <1>8 DEF SetPriorities
<1>9. ASSUME NEW t \in Threads, SetTransfer(t)
      PROVE  thread' \in [Threads -> Calls]
  BY <1>0, <1>9 DEF SetTransfer
<1>10. ASSUME NEW t \in Threads, RecordSelection(t)
      PROVE  thread' \in [Threads -> Calls]
  BY <1>0, <1>10 DEF RecordSelection, Save
<1>11. ASSUME NEW t \in Threads, RecordPause(t)
      PROVE  thread' \in [Threads -> Calls]
  BY <1>0, <1>11 DEF RecordPause, Save
<1>12. ASSUME NEW t \in Threads, RemoveForgets(t)
      PROVE  thread' \in [Threads -> Calls]
  <2>1. [thread[t] EXCEPT !.at = "clear", !.handle = live # "none"] \in Calls
    BY <1>0
  <2> QED BY <1>0, <2>1, <1>12 DEF RemoveForgets
<1>13. ASSUME NEW t \in Threads, RemoveClearsCompletion(t)
      PROVE  thread' \in [Threads -> Calls]
  BY <1>0, <1>13 DEF RemoveClearsCompletion
<1>14. ASSUME NEW t \in Threads, RemoveDrops(t)
      PROVE  thread' \in [Threads -> Calls]
  BY <1>0, <1>14 DEF RemoveDrops, Dropped
<1>15. ASSUME NEW t \in Threads, RemoveForgetsSession(t)
      PROVE  thread' \in [Threads -> Calls]
  BY <1>0, <1>15 DEF RemoveForgetsSession, Save
<1>16. ASSUME NEW t \in Threads, RemoveDeletes(t)
      PROVE  thread' \in [Threads -> Calls]
  BY <1>0, <1>16 DEF RemoveDeletes
<1>17. CASE Download
  BY <1>0, <1>17 DEF Download
<1>18. CASE Restart
  BY <1>0, <1>18 DEF Restart
<1>19. CASE UNCHANGED engineVars
  BY <1>0, <1>19 DEF engineVars
<1> QED
  BY <1>1, <1>2, <1>3, <1>4, <1>5, <1>6, <1>7, <1>8, <1>9, <1>10, <1>11, <1>12, <1>13,
     <1>14, <1>15, <1>16, <1>17, <1>18, <1>19, EngineAssumption
     DEF EngineNext, ThreadStep, EngineCalls

LEMMA EngineTypeStep ==
  ASSUME EngineTypes, [EngineNext]_engineVars
  PROVE  EngineTypeOK'
<1>0. /\ live \in {"none", "managed", "transient"}
      /\ prio \in Selections \cup {NoSel} /\ selected \in Selections \cup {NoSel}
      /\ allowed \in BOOLEAN /\ paused \in BOOLEAN /\ data \in BOOLEAN
      /\ completion \in BOOLEAN /\ owned \in BOOLEAN
      /\ gate \in Threads \cup {"free"} /\ engineGaps \subseteq {"overlap", "unsaved", "late"}
      /\ entry \in Entries /\ disk \in Entries /\ thread \in [Threads -> Calls]
  BY DEF EngineTypes, EngineTypeOK
<1>a. (entry \in Entries /\ disk \in Entries)'
  BY EntriesStep
<1> SUFFICES /\ live' \in {"none", "managed", "transient"}
             /\ prio' \in Selections \cup {NoSel} /\ selected' \in Selections \cup {NoSel}
             /\ allowed' \in BOOLEAN /\ paused' \in BOOLEAN /\ data' \in BOOLEAN
             /\ completion' \in BOOLEAN /\ owned' \in BOOLEAN
             /\ gate' \in Threads \cup {"free"}
             /\ engineGaps' \subseteq {"overlap", "unsaved", "late"}
  BY <1>a DEF EngineTypeOK, Entries
<1> USE DEF Calls, Entries
<1>1. ASSUME NEW t \in Threads, NEW op \in EngineCalls, NEW s \in Selections \cup {NoSel},
             Begin(t, op, s)
      PROVE  /\ live' \in {"none", "managed", "transient"}
             /\ prio' \in Selections \cup {NoSel} /\ selected' \in Selections \cup {NoSel}
             /\ allowed' \in BOOLEAN /\ paused' \in BOOLEAN /\ data' \in BOOLEAN
             /\ completion' \in BOOLEAN /\ owned' \in BOOLEAN
             /\ gate' \in Threads \cup {"free"}
             /\ engineGaps' \subseteq {"overlap", "unsaved", "late"}
  BY <1>0, <1>1 DEF Begin
<1>2. ASSUME NEW t \in Threads, AcquireHashGate(t)
      PROVE  /\ live' \in {"none", "managed", "transient"}
             /\ prio' \in Selections \cup {NoSel} /\ selected' \in Selections \cup {NoSel}
             /\ allowed' \in BOOLEAN /\ paused' \in BOOLEAN /\ data' \in BOOLEAN
             /\ completion' \in BOOLEAN /\ owned' \in BOOLEAN
             /\ gate' \in Threads \cup {"free"}
             /\ engineGaps' \subseteq {"overlap", "unsaved", "late"}
  BY <1>0, <1>2 DEF AcquireHashGate
<1>3. ASSUME NEW t \in Threads, Add(t)
      PROVE  /\ live' \in {"none", "managed", "transient"}
             /\ prio' \in Selections \cup {NoSel} /\ selected' \in Selections \cup {NoSel}
             /\ allowed' \in BOOLEAN /\ paused' \in BOOLEAN /\ data' \in BOOLEAN
             /\ completion' \in BOOLEAN /\ owned' \in BOOLEAN
             /\ gate' \in Threads \cup {"free"}
             /\ engineGaps' \subseteq {"overlap", "unsaved", "late"}
  BY <1>0, <1>3 DEF Add, Save
<1>4. ASSUME NEW t \in Threads, AddTimesOut(t)
      PROVE  /\ live' \in {"none", "managed", "transient"}
             /\ prio' \in Selections \cup {NoSel} /\ selected' \in Selections \cup {NoSel}
             /\ allowed' \in BOOLEAN /\ paused' \in BOOLEAN /\ data' \in BOOLEAN
             /\ completion' \in BOOLEAN /\ owned' \in BOOLEAN
             /\ gate' \in Threads \cup {"free"}
             /\ engineGaps' \subseteq {"overlap", "unsaved", "late"}
  BY <1>0, <1>4 DEF AddTimesOut
<1>5. ASSUME NEW t \in Threads, ResolveAdds(t)
      PROVE  /\ live' \in {"none", "managed", "transient"}
             /\ prio' \in Selections \cup {NoSel} /\ selected' \in Selections \cup {NoSel}
             /\ allowed' \in BOOLEAN /\ paused' \in BOOLEAN /\ data' \in BOOLEAN
             /\ completion' \in BOOLEAN /\ owned' \in BOOLEAN
             /\ gate' \in Threads \cup {"free"}
             /\ engineGaps' \subseteq {"overlap", "unsaved", "late"}
  BY <1>0, <1>5 DEF ResolveAdds
<1>6. ASSUME NEW t \in Threads, ResolveDrops(t)
      PROVE  /\ live' \in {"none", "managed", "transient"}
             /\ prio' \in Selections \cup {NoSel} /\ selected' \in Selections \cup {NoSel}
             /\ allowed' \in BOOLEAN /\ paused' \in BOOLEAN /\ data' \in BOOLEAN
             /\ completion' \in BOOLEAN /\ owned' \in BOOLEAN
             /\ gate' \in Threads \cup {"free"}
             /\ engineGaps' \subseteq {"overlap", "unsaved", "late"}
  BY <1>0, <1>6 DEF ResolveDrops, Dropped
<1>7. ASSUME NEW t \in Threads, Lookup(t)
      PROVE  /\ live' \in {"none", "managed", "transient"}
             /\ prio' \in Selections \cup {NoSel} /\ selected' \in Selections \cup {NoSel}
             /\ allowed' \in BOOLEAN /\ paused' \in BOOLEAN /\ data' \in BOOLEAN
             /\ completion' \in BOOLEAN /\ owned' \in BOOLEAN
             /\ gate' \in Threads \cup {"free"}
             /\ engineGaps' \subseteq {"overlap", "unsaved", "late"}
  BY <1>0, <1>7 DEF Lookup
<1>8. ASSUME NEW t \in Threads, SetPriorities(t)
      PROVE  /\ live' \in {"none", "managed", "transient"}
             /\ prio' \in Selections \cup {NoSel} /\ selected' \in Selections \cup {NoSel}
             /\ allowed' \in BOOLEAN /\ paused' \in BOOLEAN /\ data' \in BOOLEAN
             /\ completion' \in BOOLEAN /\ owned' \in BOOLEAN
             /\ gate' \in Threads \cup {"free"}
             /\ engineGaps' \subseteq {"overlap", "unsaved", "late"}
  BY <1>0, <1>8 DEF SetPriorities
<1>9. ASSUME NEW t \in Threads, SetTransfer(t)
      PROVE  /\ live' \in {"none", "managed", "transient"}
             /\ prio' \in Selections \cup {NoSel} /\ selected' \in Selections \cup {NoSel}
             /\ allowed' \in BOOLEAN /\ paused' \in BOOLEAN /\ data' \in BOOLEAN
             /\ completion' \in BOOLEAN /\ owned' \in BOOLEAN
             /\ gate' \in Threads \cup {"free"}
             /\ engineGaps' \subseteq {"overlap", "unsaved", "late"}
  BY <1>0, <1>9 DEF SetTransfer
<1>10. ASSUME NEW t \in Threads, RecordSelection(t)
      PROVE  /\ live' \in {"none", "managed", "transient"}
             /\ prio' \in Selections \cup {NoSel} /\ selected' \in Selections \cup {NoSel}
             /\ allowed' \in BOOLEAN /\ paused' \in BOOLEAN /\ data' \in BOOLEAN
             /\ completion' \in BOOLEAN /\ owned' \in BOOLEAN
             /\ gate' \in Threads \cup {"free"}
             /\ engineGaps' \subseteq {"overlap", "unsaved", "late"}
  BY <1>0, <1>10 DEF RecordSelection, Save
<1>11. ASSUME NEW t \in Threads, RecordPause(t)
      PROVE  /\ live' \in {"none", "managed", "transient"}
             /\ prio' \in Selections \cup {NoSel} /\ selected' \in Selections \cup {NoSel}
             /\ allowed' \in BOOLEAN /\ paused' \in BOOLEAN /\ data' \in BOOLEAN
             /\ completion' \in BOOLEAN /\ owned' \in BOOLEAN
             /\ gate' \in Threads \cup {"free"}
             /\ engineGaps' \subseteq {"overlap", "unsaved", "late"}
  BY <1>0, <1>11 DEF RecordPause, Save
<1>12. ASSUME NEW t \in Threads, RemoveForgets(t)
      PROVE  /\ live' \in {"none", "managed", "transient"}
             /\ prio' \in Selections \cup {NoSel} /\ selected' \in Selections \cup {NoSel}
             /\ allowed' \in BOOLEAN /\ paused' \in BOOLEAN /\ data' \in BOOLEAN
             /\ completion' \in BOOLEAN /\ owned' \in BOOLEAN
             /\ gate' \in Threads \cup {"free"}
             /\ engineGaps' \subseteq {"overlap", "unsaved", "late"}
  BY <1>0, <1>12 DEF RemoveForgets
<1>13. ASSUME NEW t \in Threads, RemoveClearsCompletion(t)
      PROVE  /\ live' \in {"none", "managed", "transient"}
             /\ prio' \in Selections \cup {NoSel} /\ selected' \in Selections \cup {NoSel}
             /\ allowed' \in BOOLEAN /\ paused' \in BOOLEAN /\ data' \in BOOLEAN
             /\ completion' \in BOOLEAN /\ owned' \in BOOLEAN
             /\ gate' \in Threads \cup {"free"}
             /\ engineGaps' \subseteq {"overlap", "unsaved", "late"}
  BY <1>0, <1>13 DEF RemoveClearsCompletion
<1>14. ASSUME NEW t \in Threads, RemoveDrops(t)
      PROVE  /\ live' \in {"none", "managed", "transient"}
             /\ prio' \in Selections \cup {NoSel} /\ selected' \in Selections \cup {NoSel}
             /\ allowed' \in BOOLEAN /\ paused' \in BOOLEAN /\ data' \in BOOLEAN
             /\ completion' \in BOOLEAN /\ owned' \in BOOLEAN
             /\ gate' \in Threads \cup {"free"}
             /\ engineGaps' \subseteq {"overlap", "unsaved", "late"}
  BY <1>0, <1>14 DEF RemoveDrops, Dropped
<1>15. ASSUME NEW t \in Threads, RemoveForgetsSession(t)
      PROVE  /\ live' \in {"none", "managed", "transient"}
             /\ prio' \in Selections \cup {NoSel} /\ selected' \in Selections \cup {NoSel}
             /\ allowed' \in BOOLEAN /\ paused' \in BOOLEAN /\ data' \in BOOLEAN
             /\ completion' \in BOOLEAN /\ owned' \in BOOLEAN
             /\ gate' \in Threads \cup {"free"}
             /\ engineGaps' \subseteq {"overlap", "unsaved", "late"}
  BY <1>0, <1>15 DEF RemoveForgetsSession, Save
<1>16. ASSUME NEW t \in Threads, RemoveDeletes(t)
      PROVE  /\ live' \in {"none", "managed", "transient"}
             /\ prio' \in Selections \cup {NoSel} /\ selected' \in Selections \cup {NoSel}
             /\ allowed' \in BOOLEAN /\ paused' \in BOOLEAN /\ data' \in BOOLEAN
             /\ completion' \in BOOLEAN /\ owned' \in BOOLEAN
             /\ gate' \in Threads \cup {"free"}
             /\ engineGaps' \subseteq {"overlap", "unsaved", "late"}
  BY <1>0, <1>16 DEF RemoveDeletes
<1>17. CASE Download
  BY <1>0, <1>17 DEF Download
<1>18. CASE Restart
  BY <1>0, <1>18 DEF Restart
<1>19. CASE UNCHANGED engineVars
  BY <1>0, <1>19 DEF engineVars
<1> QED
  BY <1>1, <1>2, <1>3, <1>4, <1>5, <1>6, <1>7, <1>8, <1>9, <1>10, <1>11, <1>12, <1>13,
     <1>14, <1>15, <1>16, <1>17, <1>18, <1>19, EngineAssumption
     DEF EngineNext, ThreadStep, EngineCalls

LEMMA RowsStep ==
  ASSUME EngineTypes, Apart, Known, Kept, OnDisk, TransientInv, Agreed, Taken, Recorded, engineGaps' = {}, [EngineNext]_engineVars
  PROVE  Recorded'
<1>0. /\ EngineTypes /\ StagesInv /\ Apart /\ Known /\ Kept /\ OnDisk /\ TransientInv
      /\ Agreed /\ Taken /\ engineGaps \subseteq engineGaps' /\ Mild /\ Recorded /\ engineGaps' = {}
  BY EngineGapsGrow DEF EngineTypes, Mild
<1> USE DEF StagesInv, Mild, OthersStay, CallEnds, CallMoves, AtRest, Removing, Recorded
<1>1. ASSUME NEW t \in Threads, NEW op \in EngineCalls, NEW s \in Selections \cup {NoSel},
             Begin(t, op, s)
      PROVE  Recorded'
  BY <1>0, <1>1, BeginDoes
<1>2. ASSUME NEW t \in Threads, AcquireHashGate(t)
      PROVE  Recorded'
  BY <1>0, <1>2, AcquireHashGateDoes, Beside
<1>3. ASSUME NEW t \in Threads, Add(t)
      PROVE  Recorded'
  BY <1>0, <1>3, AddDoes, Beside
<1>4. ASSUME NEW t \in Threads, AddTimesOut(t)
      PROVE  Recorded'
  BY <1>0, <1>4, AddTimesOutDoes
<1>5. ASSUME NEW t \in Threads, ResolveAdds(t)
      PROVE  Recorded'
  BY <1>0, <1>5, ResolveAddsDoes, Beside
<1>6. ASSUME NEW t \in Threads, ResolveDrops(t)
      PROVE  Recorded'
  BY <1>0, <1>6, ResolveDropsDoes, Beside DEF TransientInv
<1>7. ASSUME NEW t \in Threads, Lookup(t)
      PROVE  Recorded'
  BY <1>0, <1>7, LookupDoes, Beside
<1>8. ASSUME NEW t \in Threads, SetPriorities(t)
      PROVE  Recorded'
  BY <1>0, <1>8, SetPrioritiesDoes, Beside
<1>9. ASSUME NEW t \in Threads, SetTransfer(t)
      PROVE  Recorded'
  BY <1>0, <1>9, SetTransferDoes, Beside
<1>10. ASSUME NEW t \in Threads, RecordSelection(t)
      PROVE  Recorded'
  BY <1>0, <1>10, RecordSelectionDoes, Beside
<1>11. ASSUME NEW t \in Threads, RecordPause(t)
      PROVE  Recorded'
  BY <1>0, <1>11, RecordPauseDoes, Beside
<1>12. ASSUME NEW t \in Threads, RemoveForgets(t)
      PROVE  Recorded'
  BY <1>0, <1>12, RemoveForgetsDoes, Beside
<1>13. ASSUME NEW t \in Threads, RemoveClearsCompletion(t)
      PROVE  Recorded'
  BY <1>0, <1>13, RemoveClearsCompletionDoes, Beside DEF Taken
<1>14. ASSUME NEW t \in Threads, RemoveDrops(t)
      PROVE  Recorded'
  BY <1>0, <1>14, RemoveDropsDoes, Beside
<1>15. ASSUME NEW t \in Threads, RemoveForgetsSession(t)
      PROVE  Recorded'
  BY <1>0, <1>15, RemoveForgetsSessionDoes, Beside DEF Taken
<1>16. ASSUME NEW t \in Threads, RemoveDeletes(t)
      PROVE  Recorded'
  BY <1>0, <1>16, RemoveDeletesDoes, Beside
<1>17. CASE Download
  BY <1>0, <1>17 DEF Download
<1>18. CASE Restart
  BY <1>0, <1>18 DEF Restart, Agreed, Taken
<1>19. CASE UNCHANGED engineVars
  BY <1>0, <1>19 DEF engineVars
<1> QED
  BY <1>1, <1>2, <1>3, <1>4, <1>5, <1>6, <1>7, <1>8, <1>9, <1>10, <1>11, <1>12, <1>13,
     <1>14, <1>15, <1>16, <1>17, <1>18, <1>19, EngineAssumption
     DEF EngineNext, ThreadStep, EngineCalls

LEMMA EngineInvStep ==
  ASSUME EngineInv, [EngineNext]_engineVars
  PROVE  EngineInv'
<1>1. EngineTypes'
  BY EntriesStep, CallsStep, EngineTypeStep, StagesStep DEF EngineInv, EngineTypes
<1>2. engineGaps \subseteq engineGaps'
  BY EngineGapsGrow DEF EngineInv
<1>3. ASSUME Mild'
      PROVE  (Apart /\ Known /\ Kept /\ OnDisk /\ TransientInv /\ Agreed /\ Taken)'
  <2>1. EngineTypes /\ Apart /\ Known /\ Kept /\ OnDisk /\ TransientInv /\ Agreed /\ Taken
    BY <1>2, <1>3 DEF EngineInv, Mild
  <2>2. ASSUME \A u \in Threads : ~Removing(u)'
        PROVE  (/\ live = "managed" <=> disk.meta
                /\ IF disk.meta THEN SelectionAgrees /\ PauseAgrees ELSE Blank)'
    BY <1>3, <2>1, <2>2, ManagedStep, SelectionStep, PauseStep, BlankStep
  <2>3. Agreed'
    BY <2>2 DEF Agreed
  <2> QED BY <1>3, <2>1, <2>3, ApartStep, KnownStep, KeptStep, OnDiskStep, TransientStep, TakenStep
<1>4. ASSUME engineGaps' = {}
      PROVE  Recorded'
  <2>1. EngineTypes /\ Apart /\ Known /\ Kept /\ OnDisk /\ TransientInv /\ Agreed /\ Taken
        /\ Recorded
    BY <1>2, <1>4 DEF EngineInv, Mild
  <2> QED BY <1>4, <2>1, RowsStep
<1> QED BY <1>1, <1>3, <1>4 DEF EngineInv

LEMMA EngineInvInit == EngineInit => EngineInv
<1> SUFFICES ASSUME EngineInit PROVE EngineInv
  OBVIOUS
<1>1. \A t \in Threads : thread[t] = AtRest
  BY DEF EngineInit
<1>2. EngineTypes
  <2>1. thread \in [Threads -> Calls]
    BY DEF EngineInit, Calls, AtRest, EngineCalls, EngineStages
  <2>2. EngineTypeOK /\ entry \in Entries /\ disk \in Entries
    BY DEF EngineInit, EngineTypeOK, Entries, NoEntry
  <2>3. StagesInv
    BY <1>1 DEF StagesInv, AtRest
  <2> QED BY <2>1, <2>2, <2>3 DEF EngineTypes
<1>3. Apart /\ Known /\ Kept /\ OnDisk /\ TransientInv
  BY <1>1 DEF EngineInit, Apart, Known, Kept, OnDisk, TransientInv, AtRest, Clash, NoEntry
<1>4. \A t \in Threads : ~Removing(t)
  BY <1>1 DEF Removing, AtRest
<1>5. Agreed
  BY <1>1 DEF EngineInit, Agreed, Blank, NoEntry
<1>6. Taken /\ Recorded
  BY <1>4 DEF EngineInit, Taken, Recorded
<1> QED BY <1>2, <1>3, <1>5, <1>6 DEF EngineInv

LEMMA EngineInvSafe == EngineInv => EngineSafe
<1> SUFFICES ASSUME EngineInv PROVE EngineSafe
  OBVIOUS
<1>1. EngineTypeOK
  BY DEF EngineInv, EngineTypes
<1>2. AddedIsKept
  <2>1. CASE Mild
    BY <2>1 DEF EngineInv, Kept, AddedIsKept
  <2>2. CASE ~Mild
    BY <2>2 DEF Mild, AddedIsKept
  <2> QED BY <2>1, <2>2
<1>3. ASSUME Quiet, engineGaps = {}
      PROVE  PartsAgree
  <2>1. Mild /\ StagesInv /\ OnDisk /\ TransientInv /\ Agreed /\ Recorded
    BY <1>3 DEF EngineInv, EngineTypes, Mild
  <2>2. \A t \in Threads : thread[t].at = "rest"
    BY <1>3, <2>1 DEF Quiet, StagesInv
  <2>3. \A t \in Threads : ~Removing(t)
    BY <2>2 DEF Removing
  <2>4. entry = disk /\ (completion => data)
    BY <2>1 DEF OnDisk, Recorded
  <2>5. live = (IF disk.meta THEN "managed" ELSE "none")
    <3>1. live # "transient" /\ (live = "managed" <=> disk.meta)
      BY <2>1, <2>2, <2>3 DEF TransientInv, Agreed
    <3> QED BY <1>1, <3>1 DEF EngineTypeOK
  <2>6. ASSUME disk.meta
        PROVE  prio = disk.sel /\ selected = disk.sel
    <3>1. SelectionAgrees
      BY <2>1, <2>3, <2>6 DEF Agreed
    <3> QED BY <2>2, <3>1 DEF SelectionAgrees, Recording
  <2>7. ASSUME disk.meta
        PROVE  paused = disk.paused /\ allowed = ~disk.paused
    <3>1. PauseAgrees
      BY <2>1, <2>3, <2>7 DEF Agreed
    <3>2. (paused <=> disk.paused) /\ (allowed <=> ~disk.paused)
      BY <2>2, <3>1 DEF PauseAgrees, Recording
    <3>3. paused \in BOOLEAN /\ allowed \in BOOLEAN /\ disk.paused \in BOOLEAN
      BY <1>1 DEF EngineTypeOK
    <3> QED BY <3>2, <3>3
  <2> QED BY <2>4, <2>5, <2>6, <2>7 DEF PartsAgree
<1> QED BY <1>1, <1>2, <1>3 DEF EngineSafe, PartsAgree

(* A torrent Add has answered for is in the session file unless a save     *)
(* failed or operations overlapped, and with nothing under way the         *)
(* library, the client, the session and the completion database agree, for *)
(* any number of threads, operations, failures and restarts.               *)
THEOREM EngineTheorem == EngineInit /\ [][EngineNext]_engineVars => []EngineSafe
BY EngineInvInit, EngineInvStep, EngineInvSafe, PTL
--------------------------------------------------------------------------------

(***************************************************************************)
(* The session of the qBittorrent adapter, for any number of changes of    *)
(* the settings and of sessions that the daemon ends.  A request whose     *)
(* settings let it in gets through because a 403 drops the session before  *)
(* the second login: the second request is then sent with a session that   *)
(* is new, or not sent at all because the settings are wrong.              *)
(***************************************************************************)

(* The login that follows a 403 finds no session to reuse, ...             *)
AgainIsLoggedOut ==
    request.at = "again" /\ request.clean =>
       ~login.logged /\ login.set # "none needed"

(* ... so what the second request carries is new.                          *)
ResendIsAdmitted ==
    request.at = "resend" /\ request.clean /\ login.set = "good" => login.valid

(* What the steps rely on of the types.                                    *)
Entered == {"good", "wrong", "half", "none needed", "none"}

SessionTypeOK ==
    /\ login \in [set: Entered, seen: Entered, logged: BOOLEAN, authless: BOOLEAN,
                  cookie: BOOLEAN, valid: BOOLEAN]
    /\ request \in [at: {"rest", "login", "again", "send", "resend", "answered", "rejected"},
                    clean: BOOLEAN]

SessionInv ==
    SessionTypeOK /\ AgainIsLoggedOut /\ ResendIsAdmitted /\ RejectedForCause

--------------------------------------------------------------------------------

LEMMA SessionInitHolds == QBSessionInit => SessionInv
  BY DEF QBSessionInit, SessionInv, SessionTypeOK, Entered, AgainIsLoggedOut, ResendIsAdmitted,
         RejectedForCause

(* A login: with right settings it is never refused, and it leaves a valid *)
(* session for the request that is sent again.                             *)
LEMMA LoginKeeps ==
  ASSUME SessionInv, Login
  PROVE  SessionInv'
<1> USE DEF SessionInv, SessionTypeOK, Entered
<1>1. request.at \in {"login", "again"}
  BY DEF Login
<1>2. CASE StillLogged /\ UNCHANGED login /\ Sends
  <2>1. request.clean => request.at = "login"
    BY <1>1, <1>2 DEF StillLogged, AgainIsLoggedOut
  <2> QED BY <1>1, <1>2, <2>1
    DEF Sends, AgainIsLoggedOut, ResendIsAdmitted, RejectedForCause
<1>3. CASE /\ ~StillLogged /\ login.set \in {"none", "none needed"}
           /\ Logged(TRUE, TRUE, login.cookie, login.valid) /\ Sends
  <2>1. request.at = "again" /\ request.clean => login.set = "none"
    BY <1>3 DEF AgainIsLoggedOut
  <2> QED BY <1>1, <1>3, <2>1
    DEF Logged, Sends, AgainIsLoggedOut, ResendIsAdmitted, RejectedForCause
<1>4. CASE /\ ~StillLogged /\ login.set = "good"
           /\ Logged(TRUE, FALSE, TRUE, TRUE) /\ Sends
  BY <1>1, <1>4 DEF Logged, Sends, AgainIsLoggedOut, ResendIsAdmitted, RejectedForCause
<1>5. CASE /\ ~StillLogged /\ login.set = "wrong"
           /\ Logged(login.cookie, FALSE, login.cookie, login.valid)
           /\ IF login.cookie THEN Sends ELSE Refused
  BY <1>1, <1>5
  DEF Logged, Sends, Refused, AgainIsLoggedOut, ResendIsAdmitted, RejectedForCause
<1>6. CASE /\ ~StillLogged /\ login.set = "half"
           /\ Refused /\ Logged(FALSE, FALSE, login.cookie, login.valid)
  BY <1>6 DEF Logged, Refused, AgainIsLoggedOut, ResendIsAdmitted, RejectedForCause
<1> QED BY <1>2, <1>3, <1>4, <1>5, <1>6 DEF Login

LEMMA SessionNextHolds == SessionInv /\ [QBSessionNext]_qbSessionVars => SessionInv'
<1> SUFFICES ASSUME SessionInv, [QBSessionNext]_qbSessionVars PROVE SessionInv'
  OBVIOUS
<1> USE DEF SessionInv, SessionTypeOK, Entered
<1>1. CASE SettingsChange
  BY <1>1 DEF SettingsChange, AgainIsLoggedOut, ResendIsAdmitted, RejectedForCause
<1>2. CASE RequestBegins
  BY <1>2 DEF RequestBegins, AgainIsLoggedOut, ResendIsAdmitted, RejectedForCause
<1>7. CASE RequestEnds
  BY <1>7 DEF RequestEnds, AgainIsLoggedOut, ResendIsAdmitted, RejectedForCause
<1>3. CASE Login
  BY <1>3, LoginKeeps
<1>4. CASE Send /\ Answers
  BY <1>4 DEF Send, AgainIsLoggedOut, ResendIsAdmitted, RejectedForCause
<1>5. CASE Send /\ ~Answers
  <2>1. login.set # "none needed" /\ ~login.valid
    BY <1>5 DEF Answers
  <2>2. CASE request.at = "send"
    BY <1>5, <2>1, <2>2 DEF Send, AgainIsLoggedOut, ResendIsAdmitted, RejectedForCause
  <2>3. CASE request.at = "resend"
    BY <1>5, <2>1, <2>3
    DEF Send, Refused, AgainIsLoggedOut, ResendIsAdmitted, RejectedForCause
  <2> QED BY <1>5, <2>2, <2>3 DEF Send
<1>6. CASE UNCHANGED qbSessionVars
  <2>1. login' = login /\ request' = request
    BY <1>6 DEF qbSessionVars
  <2>2. SessionTypeOK'
    BY <2>1
  <2>3. AgainIsLoggedOut' /\ ResendIsAdmitted' /\ RejectedForCause'
    BY <2>1 DEF AgainIsLoggedOut, ResendIsAdmitted, RejectedForCause
  <2> QED BY <2>2, <2>3
<1> QED BY <1>1, <1>2, <1>3, <1>4, <1>5, <1>6, <1>7 DEF QBSessionNext

(* A request that the household's settings let in is not refused for its   *)
(* session, whatever was logged in, forgotten or entered before it         *)
(* (qbittorrent.Client: login, do).                                        *)
THEOREM SessionTheorem == QBSessionSpec => []RejectedForCause
<1>1. QBSessionSpec => []SessionInv
  BY SessionInitHolds, SessionNextHolds, PTL DEF QBSessionSpec
<1>2. SessionInv => RejectedForCause
  BY DEF SessionInv
<1> QED BY <1>1, <1>2, PTL

-----------------------------------------------------------------------------
(* The caches of details: the inductive invariant of RefreshTakes.  Unless *)
(* something crossed a refresh, whoever may write a row back read one that *)
(* is no older than the refresh.                                           *)

Readers == [at: {"idle", "decided", "waiting", "loaded", "storing"}, cached: Rows]
Fetches == [at: {"none", "fetching", "saved"}, cached: Rows, usable: BOOLEAN]
InfosTypes ==
    /\ upstream \in 0..MaxUpstream /\ floor \in 0..MaxUpstream
    /\ row \in Rows /\ crossed \in BOOLEAN
    /\ fetch \in Fetches /\ reader \in [InfoCallers -> Readers]

Current(r) == r.available => r.version >= floor

InfosInv ==
    /\ InfosTypes /\ floor <= upstream
    /\ fetch.at = "none" => fetch = NoFetch
    /\ ~crossed =>
         /\ Current(row) /\ Current(fetch.cached)
         /\ \A c \in InfoCallers :
              reader[c].at \in {"decided", "storing"} => Current(reader[c].cached)

LEMMA NoRowIsRow ==
  NoRow \in Rows /\ ~NoRow.available /\ NoFetch.cached = NoRow /\ NoFetch.at = "none"
BY InfosAssumption DEF NoRow, Rows, NoFetch

LEMMA InfosInvInit == InfosInit => InfosInv
<1> SUFFICES ASSUME InfosInit PROVE InfosInv
  OBVIOUS
<1>1. Away \in Readers
      /\ Away.at = "idle"
  BY NoRowIsRow DEF Away, Readers
<1>2. NoFetch \in Fetches
  BY NoRowIsRow DEF NoFetch, Fetches
<1>3. \A c \in InfoCallers : reader[c] = Away
  BY DEF InfosInit
<1>4. InfosTypes
  <2>1. upstream \in 0..MaxUpstream /\ floor \in 0..MaxUpstream
    BY InfosAssumption DEF InfosInit
  <2>2. row \in Rows /\ fetch \in Fetches /\ reader \in [InfoCallers -> Readers]
    BY <1>1, <1>2, NoRowIsRow DEF InfosInit
  <2>3. crossed \in BOOLEAN
    BY Zenon DEF InfosInit
  <2> QED BY <2>1, <2>2, <2>3 DEF InfosTypes
<1> QED BY <1>1, <1>3, <1>4, NoRowIsRow DEF InfosInit, InfosInv, Current

(* What one caller does to its entry of the readers.                       *)
LEMMA ReaderMoves ==
  ASSUME InfosInv, NEW c \in InfoCallers, NEW new,
         new \in Readers,
         ~crossed /\ new.at \in {"decided", "storing"} => Current(new.cached),
         reader' = [reader EXCEPT ![c] = new],
         UNCHANGED <<upstream, row, fetch, floor, crossed, counts>>
  PROVE  InfosInv'
<1>1. \A d \in InfoCallers : reader'[d] = IF d = c THEN new ELSE reader[d]
  BY DEF InfosInv, InfosTypes
<1>2. InfosTypes'
  BY DEF InfosInv, InfosTypes
<1> QED BY <1>1, <1>2 DEF InfosInv, Current

LEMMA InfosInvStep == InfosInv /\ [InfosNext]_infosVars => InfosInv'
<1> SUFFICES ASSUME InfosInv, [InfosNext]_infosVars PROVE InfosInv'
  OBVIOUS
<1>0. /\ InfosTypes /\ floor \in Nat /\ upstream \in Nat /\ MaxUpstream \in Nat /\ row \in Rows
      /\ fetch.cached \in Rows /\ fetch.usable \in BOOLEAN
      /\ \A c \in InfoCallers : reader[c].cached \in Rows
  BY InfosAssumption DEF InfosInv, InfosTypes, Readers, Fetches
<1>1. ASSUME NEW c \in InfoCallers, ReadCache(c) PROVE InfosInv'
  <2> DEFINE new == [at |-> IF row.fresh THEN (IF row.available THEN "loaded" ELSE "idle")
                            ELSE "decided", cached |-> row]
  <2>1. /\ new \in Readers
        /\ ~crossed /\ new.at \in {"decided", "storing"} => Current(new.cached)
    BY <1>0 DEF InfosInv, Readers
  <2>2. /\ reader' = [reader EXCEPT ![c] = new]
        /\ UNCHANGED <<upstream, row, fetch, floor, crossed, counts>>
    BY <1>1 DEF ReadCache
  <2> HIDE DEF new
  <2> QED BY <2>1, <2>2, ReaderMoves
<1>2. ASSUME NEW c \in InfoCallers, JoinFlight(c) PROVE InfosInv'
  <2>1. /\ \A d \in InfoCallers : reader'[d] = IF d = c THEN [at |-> "waiting", cached |-> NoRow]
                                               ELSE reader[d]
        /\ reader' \in [InfoCallers ->
             Readers]
    BY <1>0, <1>2, NoRowIsRow DEF JoinFlight, InfosTypes, Readers
  <2>2. \/ fetch' = fetch
        \/ /\ fetch'.at = "fetching" /\ fetch'.cached = reader[c].cached
           /\ fetch' = [at |-> "fetching", cached |-> reader[c].cached, usable |-> FALSE]
    BY <1>2 DEF JoinFlight, NoFetch
  <2>3. fetch' \in Fetches
    <3>1. reader[c].cached \in Rows /\ fetch \in Fetches
      BY <1>0 DEF InfosTypes
    <3>2. [at |-> "fetching", cached |-> reader[c].cached, usable |-> FALSE] \in Fetches
      BY <3>1 DEF Fetches
    <3> QED BY <2>2, <3>1, <3>2
  <2> QED BY <1>0, <1>2, <2>1, <2>2, <2>3 DEF JoinFlight, InfosInv, InfosTypes, Current
<1>3. ASSUME NEW c \in InfoCallers, WaiterLeaves(c) \/ LoadedReturns(c) PROVE InfosInv'
  <2>1. Away \in Readers
        /\ Away.at = "idle"
    BY NoRowIsRow DEF Away, Readers
  <2> QED BY <1>3, <2>1, ReaderMoves DEF WaiterLeaves, LoadedReturns
<1>4. ASSUME NEW c \in InfoCallers, StoreReads(c) PROVE InfosInv'
  <2> DEFINE new == IF row.available THEN [at |-> "storing", cached |-> row] ELSE Away
  <2>1. /\ new \in Readers
        /\ ~crossed /\ new.at \in {"decided", "storing"} => Current(new.cached)
    BY <1>0, NoRowIsRow DEF InfosInv, Away, Readers
  <2>2. /\ reader' = [reader EXCEPT ![c] = new]
        /\ UNCHANGED <<upstream, row, fetch, floor, crossed, counts>>
    BY <1>4 DEF StoreReads
  <2> HIDE DEF new
  <2> QED BY <2>1, <2>2, ReaderMoves
<1>5. ASSUME NEW c \in InfoCallers, StoreWrites(c) PROVE InfosInv'
  <2>1. /\ \A d \in InfoCallers : reader'[d] = IF d = c THEN Away ELSE reader[d]
        /\ reader' \in [InfoCallers ->
             Readers]
        /\ Away.at = "idle"
    BY <1>0, <1>5, NoRowIsRow DEF StoreWrites, InfosTypes, Readers, Away
  <2>2. row' \in Rows /\ (~crossed => Current(row'))
    BY <1>0, <1>5 DEF StoreWrites, InfosInv
  <2> QED BY <1>0, <1>5, <2>1, <2>2 DEF StoreWrites, InfosInv, InfosTypes, Current
<1>6. ASSUME FetchSucceeds \/ FetchFails \/ FetchTimesOut PROVE InfosInv'
  <2>1. /\ fetch'.at = "saved" /\ fetch'.cached = fetch.cached
        /\ fetch' \in Fetches
    BY <1>0, <1>6 DEF FetchSucceeds, FetchFails, FetchTimesOut, Saves, InfosTypes, Fetches, Rows
  <2>2. row' \in Rows
    <3>1. CASE FetchSucceeds
      <4>1. upstream \in 0..MaxUpstream
        BY <1>0 DEF InfosTypes
      <4> QED BY <3>1, <4>1 DEF FetchSucceeds, Saves, Rows
    <3>2. CASE FetchFails
      <4>1. [fetch.cached EXCEPT !.fresh = TRUE] \in Rows /\ [NoRow EXCEPT !.fresh = TRUE] \in Rows
        BY <1>0, NoRowIsRow DEF Rows
      <4> QED BY <3>2, <4>1 DEF FetchFails, Saves
    <3> QED BY <1>0, <1>6, <3>1, <3>2 DEF FetchTimesOut
  <2>3. \/ row'.available /\ row'.version = upstream
        \/ row'.version = fetch.cached.version /\ fetch.cached.available
        \/ ~row'.available \/ row' = row
    BY <1>0, <1>6, NoRowIsRow
       DEF FetchSucceeds, FetchFails, FetchTimesOut, Saves, InfosTypes, Rows, NoRow
  <2>4. UNCHANGED <<upstream, reader, floor, crossed>>
    BY <1>6 DEF FetchSucceeds, FetchFails, FetchTimesOut
  <2> QED BY <1>0, <2>1, <2>2, <2>3, <2>4 DEF InfosInv, InfosTypes, Current
<1>7. ASSUME FlightEnds PROVE InfosInv'
  <2>1. /\ \A c \in InfoCallers : \/ reader'[c] = reader[c]
                                  \/ reader'[c].at \in {"idle", "loaded"}
        /\ reader' \in [InfoCallers ->
             Readers]
    BY <1>0, <1>7, NoRowIsRow DEF FlightEnds, InfosTypes, Readers, Away
  <2>2. fetch' = NoFetch /\ NoFetch \in Fetches
    BY <1>7, NoRowIsRow DEF FlightEnds, NoFetch, Fetches
  <2>3. UNCHANGED <<upstream, row, floor, crossed, counts>>
    BY <1>7 DEF FlightEnds
  <2>4. InfosTypes'
    BY <1>0, <2>1, <2>2, <2>3 DEF InfosTypes
  <2> QED BY <1>0, <2>1, <2>2, <2>3, <2>4, NoRowIsRow DEF InfosInv, Current
<1>8. ASSUME ExpireTitleInfo PROVE InfosInv'
  <2>1. crossed' \in BOOLEAN
    BY <1>8, Zenon DEF ExpireTitleInfo
  <2>2. /\ ~crossed' => /\ ~crossed /\ fetch.at = "none"
                        /\ \A c \in InfoCallers : reader[c].at \notin {"decided", "storing"}
        /\ row' = NoRow /\ floor' = upstream /\ UNCHANGED <<upstream, fetch, reader>>
    BY <1>8, Zenon DEF ExpireTitleInfo
  <2>3. InfosTypes'
    BY <1>0, <2>1, <2>2, NoRowIsRow DEF InfosTypes
  <2> QED BY <1>0, <2>2, <2>3, NoRowIsRow DEF InfosInv, Current
<1>9. ASSUME RowAges PROVE InfosInv'
  <2>1. row' \in Rows /\ row'.available = row.available /\ row'.version = row.version
    BY <1>0, <1>9 DEF RowAges, Rows
  <2> QED BY <1>9, <2>1 DEF RowAges, InfosInv, InfosTypes, Current
<1>10. ASSUME UpstreamChanges PROVE InfosInv'
  BY <1>0, <1>10 DEF UpstreamChanges, InfosInv, InfosTypes, Current
<1>11. ASSUME UNCHANGED infosVars PROVE InfosInv'
  BY <1>11 DEF infosVars, InfosInv, InfosTypes, Current
<1> QED BY <1>1, <1>2, <1>3, <1>4, <1>5, <1>6, <1>7, <1>8, <1>9, <1>10, <1>11
        DEF InfosNext, FetchStep

(* A fetch that fails keeps the details it knows of: the four ways a       *)
(* flight saves.                                                           *)
LEMMA FailureStep ==
  ASSUME InfosInv, [InfosNext]_infosVars,
         fetch.at = "fetching", fetch'.at = "saved", row.available
  PROVE  row'.available \/ ~fetch.cached.available
<1>1. FetchSucceeds \/ FetchFails \/ FetchTimesOut
  BY DEF InfosNext, FetchStep, infosVars, ReadCache, JoinFlight, WaiterLeaves, LoadedReturns, StoreReads,
         StoreWrites, FlightEnds, ExpireTitleInfo, RowAges, UpstreamChanges
<1>2. fetch.cached \in Rows
  BY DEF InfosInv, InfosTypes, Fetches
<1> QED BY <1>1, <1>2 DEF FetchSucceeds, FetchFails, FetchTimesOut, Saves, Rows

(* After a forced refresh the cache never goes back behind it unless       *)
(* something crossed it, and a failed fetch keeps the details: for any     *)
(* number of callers, changes, refreshes and failures (titleinfo.go,       *)
(* seasoninfo.go, singleflight.go).                                        *)
THEOREM InfosTheorem == InfosInit /\ [][InfosNext]_infosVars => InfosKept
<1>1. InfosInv => InfosTypeOK /\ RefreshTakes
  <2> SUFFICES ASSUME InfosInv PROVE InfosTypeOK /\ RefreshTakes
    OBVIOUS
  <2>0. InfosTypeOK
    BY DEF InfosInv, InfosTypes, InfosTypeOK, Readers, Fetches
  <2>1. row.version \in Nat /\ floor \in Nat
    BY InfosAssumption DEF InfosInv, InfosTypes, Rows
  <2> QED BY <2>0, <2>1 DEF InfosInv, RefreshTakes, Current
<1>2. InfosInv /\ [InfosNext]_infosVars =>
        [fetch.at = "fetching" /\ fetch'.at = "saved" /\ row.available
           => row'.available \/ ~fetch.cached.available]_infosVars
  BY FailureStep
<1> QED BY <1>1, <1>2, InfosInvInit, InfosInvStep, PTL DEF InfosKept, FailureKeepsDetails

-----------------------------------------------------------------------------
(* Streams: bytes and pieces.                                              *)

(* A set of natural numbers that is not empty has a least element, and one *)
(* that is bounded a greatest.                                             *)
LEMMA LeastOf ==
  ASSUME NEW S \in SUBSET Nat, S # {}
  PROVE  \E m \in S : \A n \in S : m <= n
<1>1. PICK m \in S : \A n \in S : ~(<<n, m>> \in OpToRel(<, Nat))
  BY NatLessThanWellFounded, WFMin, Zenon
<1>2. \A n \in S : ~(n < m)
  BY <1>1 DEF OpToRel
<1> QED BY <1>2

LEMMA MaxOf ==
  ASSUME NEW N \in Nat, NEW S \in SUBSET (0..N), S # {}
  PROVE  Max(S) \in S /\ \A y \in S : y <= Max(S)
<1> DEFINE T == {N - y : y \in S}
<1>0. \A y \in S : y \in Nat /\ y <= N /\ N - y \in Nat
  OBVIOUS
<1>1. T \in SUBSET Nat /\ T # {}
  BY <1>0
<1>2. PICK t \in T : \A u \in T : t <= u
  <2> HIDE DEF T
  <2> QED BY <1>1, LeastOf
<1>3. PICK m \in S : t = N - m
  BY <1>2
<1>4. \A y \in S : m >= y
  <2> SUFFICES ASSUME NEW y \in S PROVE m >= y
    OBVIOUS
  <2>1. N - y \in T
    OBVIOUS
  <2>2. N - m <= N - y
    BY <1>2, <1>3, <2>1
  <2> QED BY <1>0, <2>2
<1> QED BY <1>3, <1>4 DEF Max

LEMMA MinOfThree ==
  ASSUME NEW a \in Nat, NEW b \in Nat, NEW c \in Nat
  PROVE  /\ Min({a, b, c}) \in {a, b, c}
         /\ Min({a, b, c}) <= a /\ Min({a, b, c}) <= b /\ Min({a, b, c}) <= c
<1> DEFINE S == {a, b, c}
<1>1. PICK m \in S : \A y \in S : m <= y
  <2>1. S \in SUBSET Nat /\ S # {}
    OBVIOUS
  <2> HIDE DEF S
  <2> QED BY <2>1, LeastOf
<1>2. Min(S) \in S /\ \A y \in S : Min(S) <= y
  <2> HIDE DEF S
  <2> QED BY <1>1 DEF Min
<1> QED BY <1>2

(* The piece of a byte: division, and what follows from it alone.          *)
LEMMA Division ==
  ASSUME NEW a \in Nat, NEW n \in Nat \ {0}
  PROVE  /\ a \div n \in Nat
         /\ n * (a \div n) <= a /\ a < n * (a \div n) + n
OBVIOUS

LEMMA DivisionMonotone ==
  ASSUME NEW a \in Nat, NEW b \in Nat, NEW n \in Nat \ {0}, a <= b
  PROVE  a \div n <= b \div n
<1> DEFINE p == a \div n
           q == b \div n
<1>1. /\ p \in Nat /\ n * p <= a /\ q \in Nat /\ b < n * q + n
  BY Division
<1> HIDE DEF p, q
<1>2. n * p < n * (q + 1)
  BY <1>1
<1>3. ~(q + 1 <= p)
  BY <1>1, <1>2
<1>4. p <= q
  BY <1>1, <1>3
<1> QED BY <1>4 DEF p, q

LEMMA DivisionBound ==
  ASSUME NEW a \in Nat, NEW n \in Nat \ {0}, NEW p \in Nat
  PROVE  /\ a \div n >= p <=> a >= n * p
         /\ (n * p) \div n = p
<1> DEFINE q == a \div n
<1>1. /\ q \in Nat /\ n * q <= a /\ a < n * q + n
  BY Division
<1>2. n * p \in Nat /\ n * (q + 1) = n * q + n
  BY <1>1
<1>3. q >= p => a >= n * p
  <2> HIDE DEF q
  <2>1. ASSUME q >= p PROVE n * q >= n * p
    BY <1>1, <2>1
  <2> QED BY <1>1, <1>2, <2>1
<1>4. ~(q >= p) => ~(a >= n * p)
  <2> HIDE DEF q
  <2>1. ASSUME q + 1 <= p PROVE n * (q + 1) <= n * p
    BY <1>1, <2>1
  <2> QED BY <1>1, <1>2, <2>1
<1>5. (n * p) \div n = p
  <2> DEFINE d == (n * p) \div n
  <2>1. d \in Nat /\ n * d <= n * p /\ n * p < n * d + n
    BY <1>2, Division
  <2> HIDE DEF d
  <2>2. ASSUME d + 1 <= p PROVE FALSE
    <3>1. n * (d + 1) <= n * p /\ n * (d + 1) = n * d + n
      BY <2>1, <2>2
    <3> QED BY <2>1, <3>1
  <2>3. ASSUME p + 1 <= d PROVE FALSE
    <3>1. n * (p + 1) <= n * d /\ n * (p + 1) = n * p + n
      BY <2>1, <2>3
    <3> QED BY <1>2, <2>1, <3>1
  <2>4. d = p
    BY <2>1, <2>2, <2>3
  <2> QED BY <2>4 DEF d
<1> HIDE DEF q
<1>6. q >= p <=> a >= n * p
  BY <1>3, <1>4
<1> QED BY <1>5, <1>6 DEF q

LEMMA PieceType ==
  /\ FileSize \in Nat \ {0} /\ FileOffset \in Nat /\ PieceSize \in Nat \ {0}
  /\ StreamStart \in Nat \ {0} /\ ReadAhead \in Nat \ {0}
  /\ \A b \in Nat : PieceOf(b) \in Nat
  /\ \A b, c \in Nat : b <= c => PieceOf(b) <= PieceOf(c)
  /\ \A b \in 0..FileSize - 1 : PieceOf(b) \in Pieces
<1>1. /\ FileSize \in Nat \ {0} /\ FileOffset \in Nat /\ PieceSize \in Nat \ {0}
      /\ StreamStart \in Nat \ {0} /\ ReadAhead \in Nat \ {0}
  BY StreamingAssumption
<1>2. \A b \in Nat : PieceOf(b) \in Nat
  <2> SUFFICES ASSUME NEW b \in Nat PROVE PieceOf(b) \in Nat
    OBVIOUS
  <2>1. FileOffset + b \in Nat
    BY <1>1
  <2> QED BY <1>1, <2>1, Division DEF PieceOf
<1>3. ASSUME NEW b \in Nat, NEW c \in Nat, b <= c PROVE PieceOf(b) <= PieceOf(c)
  <2>1. FileOffset + b \in Nat /\ FileOffset + c \in Nat /\ FileOffset + b <= FileOffset + c
    BY <1>1, <1>3
  <2> QED BY <1>1, <2>1, DivisionMonotone DEF PieceOf
<1>4. ASSUME NEW b \in 0..FileSize - 1 PROVE PieceOf(b) \in Pieces
  <2>1. b \in Nat /\ 0 <= b /\ b <= FileSize - 1 /\ FileSize - 1 \in Nat /\ 0 \in Nat
    BY <1>1
  <2>2. /\ PieceOf(0) <= PieceOf(b) /\ PieceOf(b) <= PieceOf(FileSize - 1)
        /\ PieceOf(0) \in Nat /\ PieceOf(b) \in Nat /\ PieceOf(FileSize - 1) \in Nat
    BY <1>2, <1>3, <2>1
  <2> QED BY <2>2 DEF Pieces
<1> QED BY <1>1, <1>2, <1>3, <1>4

(* The pieces of the bytes from b to c are those from the piece of b to    *)
(* the piece of c: no more, and no fewer.                                  *)
LEMMA PiecesOfBytes ==
  ASSUME NEW b \in Nat, NEW c \in Nat, b <= c
  PROVE  {PieceOf(x) : x \in b..c} = PieceOf(b)..PieceOf(c)
<1>0. /\ FileOffset \in Nat /\ PieceSize \in Nat \ {0} /\ PieceOf(b) \in Nat /\ PieceOf(c) \in Nat
  BY PieceType
<1>1. \A x \in b..c : PieceOf(x) \in PieceOf(b)..PieceOf(c)
  <2> SUFFICES ASSUME NEW x \in b..c PROVE PieceOf(x) \in PieceOf(b)..PieceOf(c)
    OBVIOUS
  <2>1. x \in Nat /\ b <= x /\ x <= c
    OBVIOUS
  <2>2. PieceOf(x) \in Nat /\ PieceOf(b) <= PieceOf(x) /\ PieceOf(x) <= PieceOf(c)
    BY <2>1, PieceType
  <2> QED BY <1>0, <2>2
<1>2. ASSUME NEW p \in PieceOf(b)..PieceOf(c) PROVE \E x \in b..c : PieceOf(x) = p
  <2>0. p \in Nat /\ PieceOf(b) <= p /\ p <= PieceOf(c)
    BY <1>0
  <2>1. CASE p = PieceOf(b)
    BY <2>1
  <2>2. CASE p # PieceOf(b)
    <3> DEFINE m == PieceSize * p
    <3>1. m \in Nat /\ m \div PieceSize = p
      BY <1>0, <2>0, DivisionBound
    <3>2. FileOffset + c >= m
      BY <1>0, <2>0, DivisionBound DEF PieceOf
    <3>3. ~(FileOffset + b >= m)
      <4>1. ~((FileOffset + b) \div PieceSize >= p)
        BY <1>0, <2>0, <2>2 DEF PieceOf
      <4> QED BY <1>0, <2>0, <4>1, DivisionBound
    <3> HIDE DEF m
    <3>4. m - FileOffset \in b..c /\ FileOffset + (m - FileOffset) = m
      BY <1>0, <3>1, <3>2, <3>3
    <3>5. PieceOf(m - FileOffset) = p
      BY <3>1, <3>4 DEF PieceOf
    <3> QED BY <3>4, <3>5
  <2> QED BY <2>1, <2>2
<1> QED BY <1>1, <1>2

(* A range that parses is the bytes that were asked for, and there is one. *)
LEMMA RangeIsRequested ==
  ASSUME NEW r \in [first : -1..FileSize + 1, last : -1..FileSize + 1], parseRange(r).ok
  PROVE  /\ parseRange(r).start \in 0..FileSize - 1 /\ parseRange(r).end \in 0..FileSize - 1
         /\ parseRange(r).start <= parseRange(r).end
         /\ parseRange(r).start..parseRange(r).end = Requested(r)
<1>0. r.first \in -1..FileSize + 1 /\ r.last \in -1..FileSize + 1 /\ FileSize \in Nat \ {0}
  BY PieceType
<1> DEFINE st == parseRange(r).start
           en == parseRange(r).end
<1>1. CASE r.first = -1 /\ r.last = -1
  BY <1>0, <1>1 DEF parseRange, Requested
<1>2. CASE r.first = -1 /\ r.last # -1
  <2>1. /\ r.last > 0 /\ en = FileSize - 1
        /\ st = FileSize - (IF r.last > FileSize THEN FileSize ELSE r.last)
    BY <1>0, <1>2 DEF parseRange
  <2>2. Requested(r) = {b \in 0..FileSize - 1 : b >= FileSize - r.last}
    BY <1>2 DEF Requested
  <2> HIDE DEF st, en
  <2>3. st \in 0..FileSize - 1 /\ st <= en
    BY <1>0, <2>1
  <2>4. st..en = {b \in 0..FileSize - 1 : b >= FileSize - r.last}
    BY <1>0, <2>1
  <2> QED BY <1>0, <2>1, <2>2, <2>3, <2>4 DEF st, en
<1>3. CASE r.first # -1
  <2>1. /\ r.first < FileSize /\ (r.last = -1 \/ r.last >= r.first)
        /\ st = r.first /\ en = IF r.last = -1 \/ r.last >= FileSize THEN FileSize - 1 ELSE r.last
    BY <1>0, <1>3 DEF parseRange
  <2>2. Requested(r) = {b \in 0..FileSize - 1 : b >= r.first /\ (r.last = -1 \/ b <= r.last)}
    BY <1>3 DEF Requested
  <2> HIDE DEF st, en
  <2>3. st \in 0..FileSize - 1 /\ en \in 0..FileSize - 1 /\ st <= en
    BY <1>0, <1>3, <2>1
  <2>4. st..en = {b \in 0..FileSize - 1 : b >= r.first /\ (r.last = -1 \/ b <= r.last)}
    BY <1>0, <1>3, <2>1
  <2> QED BY <2>2, <2>3, <2>4 DEF st, en
<1> QED BY <1>1, <1>2, <1>3

(* The inductive invariant.  What the records are:                         *)
StreamAts == {"rest", "ask", "steer", "wait", "probe", "copy", "sent"}
Paths == {"none", "temp", "final"}
Headers == [first : -1..FileSize + 1, last : -1..FileSize + 1]
StreamType ==
    [at : StreamAts, range : Headers, start : 0..FileSize, end : -1..FileSize, pos : 0..FileSize,
     chunk : 0..FileSize, path : Paths, complete : BOOLEAN, rowPath : Paths,
     wrong : BOOLEAN, upset : BOOLEAN, moved : BOOLEAN]

(* A request has parsed its range, and its chunk lies in what is left.     *)
Asked(r) ==
    r.at # "rest" =>
      /\ parseRange(r.range).ok /\ r.start = parseRange(r.range).start
      /\ r.end = parseRange(r.range).end /\ r.rowPath # "none"
      /\ r.start <= r.pos /\ r.pos + r.chunk <= r.end + 1
      /\ IF r.at = "sent" THEN r.pos = r.end + 1 ELSE r.chunk > 0
      /\ r.at \in {"steer", "wait", "probe", "copy"} => r.path # "none"

(* What a request relies on while its torrent is the one it began with:    *)
(* the whole file when its row said so, the pieces it has waited for.      *)
Relies(r, good, known) ==
    /\ r.wrong => r.upset
    /\ ~r.upset /\ known /\ r.at # "rest" =>
         /\ r.complete => good = Pieces
         /\ r.at \in {"probe", "copy"} =>
              \A b \in r.pos..r.pos + r.chunk - 1 : PieceOf(b) \in good

Steered(r, urgent, known) ==
    r.at = "wait" /\ known =>
      \/ PieceOf(r.pos)..PieceOf(r.pos + r.chunk - 1) \subseteq urgent
      \/ r.moved \/ r.upset

TorrentOK ==
    /\ pieces \in [Pieces -> {"missing", "partial", "complete"}]
    /\ media \in [at: Paths, length: 0..FileSize, good: SUBSET Pieces]
    /\ swarm \in [known: BOOLEAN, temp: BOOLEAN, rooted: BOOLEAN]
    /\ raised = window /\ window \subseteq Pieces
    /\ \A p \in Pieces : pieces[p] = "complete" => p \in media.good
    /\ ~swarm.known => media.at = "none"

StreamOK(r) == /\ r \in StreamType /\ Asked(r)
               /\ Relies(r, media.good, swarm.known) /\ Steered(r, raised, swarm.known)

StreamingInv ==
    /\ TorrentOK
    /\ stream \in [Streams -> StreamType]
    /\ \A s \in Streams : StreamOK(stream[s])

LEMMA NoStreamIsOK ==
  /\ NoStream \in StreamType /\ NoStream.at = "rest"
  /\ \A good, urgent, known : /\ Asked(NoStream) /\ Relies(NoStream, good, known)
                              /\ Steered(NoStream, urgent, known)
<1>1. NoStream \in StreamType
  BY PieceType DEF NoStream, StreamType, StreamAts, Paths, Headers
<1>2. NoStream.at = "rest" /\ NoStream.wrong = FALSE
  BY DEF NoStream
<1> QED BY <1>1, <1>2 DEF Asked, Relies, Steered

(* The bytes of a chunk are of the file, and their pieces of the torrent.  *)
LEMMA ChunkInFile ==
  ASSUME NEW r \in StreamType, Asked(r), r.at # "rest"
  PROVE  /\ r.start \in 0..FileSize - 1 /\ r.end \in 0..FileSize - 1
         /\ r.start..r.end = Requested(r.range)
         /\ r.pos \in Nat /\ r.chunk \in Nat
         /\ r.pos..r.pos + r.chunk - 1 \subseteq r.start..r.end
         /\ r.start..r.end \subseteq 0..FileSize - 1
         /\ \A b \in r.pos..r.pos + r.chunk - 1 : PieceOf(b) \in Pieces
         /\ r.at # "sent" =>
              /\ {PieceOf(b) : b \in r.pos..r.pos + r.chunk - 1}
                   = PieceOf(r.pos)..PieceOf(r.pos + r.chunk - 1)
              /\ r.pos + r.chunk <= FileSize
<1>1. /\ r.range \in Headers /\ r.pos \in 0..FileSize /\ r.chunk \in 0..FileSize
      /\ FileSize \in Nat \ {0}
  BY PieceType DEF StreamType
<1>2. /\ r.start \in 0..FileSize - 1 /\ r.end \in 0..FileSize - 1
      /\ r.start..r.end = Requested(r.range)
  BY <1>1, RangeIsRequested DEF Asked, Headers
<1>3. /\ r.start <= r.pos /\ r.pos + r.chunk <= r.end + 1
      /\ r.at # "sent" => r.chunk > 0
  BY DEF Asked
<1>4. /\ r.pos \in Nat /\ r.chunk \in Nat /\ r.pos + r.chunk <= FileSize
      /\ r.pos..r.pos + r.chunk - 1 \subseteq r.start..r.end
      /\ r.start..r.end \subseteq 0..FileSize - 1
  BY <1>1, <1>2, <1>3
<1>5. \A b \in r.pos..r.pos + r.chunk - 1 : PieceOf(b) \in Pieces
  BY <1>4, PieceType
<1>6. ASSUME r.at # "sent"
      PROVE  {PieceOf(b) : b \in r.pos..r.pos + r.chunk - 1}
               = PieceOf(r.pos)..PieceOf(r.pos + r.chunk - 1)
  <2>1. r.pos + r.chunk - 1 \in Nat /\ r.pos <= r.pos + r.chunk - 1
    BY <1>3, <1>4, <1>6
  <2> QED BY <1>4, <2>1, PiecesOfBytes
<1> QED BY <1>2, <1>4, <1>5, <1>6

(* A step that replaces one request.                                       *)
LEMMA StreamReplaced ==
  ASSUME StreamingInv, NEW s \in Streams, NEW new, StreamOK(new),
         stream' = [stream EXCEPT ![s] = new],
         UNCHANGED <<pieces, media, swarm, raised, window>>
  PROVE  StreamingInv'
<1>1. /\ stream' \in [Streams -> StreamType]
      /\ \A t \in Streams : stream'[t] = IF t = s THEN new ELSE stream[t]
  BY DEF StreamingInv, StreamOK
<1>2. TorrentOK'
  BY DEF StreamingInv, TorrentOK
<1>3. \A t \in Streams : StreamOK(stream[t])
  BY DEF StreamingInv
<1>4. ASSUME NEW t \in Streams PROVE StreamOK(stream[t])'
  <2>1. StreamOK(stream'[t])
    BY <1>1, <1>3
  <2> QED BY <2>1 DEF StreamOK
<1> QED BY <1>1, <1>2, <1>4 DEF StreamingInv

LEMMA StreamingFrame ==
  ASSUME StreamingInv, UNCHANGED <<pieces, media, swarm, raised, window, stream>>
  PROVE  StreamingInv'
BY DEF StreamingInv, TorrentOK, StreamOK

LEMMA StreamEndsOK ==
  ASSUME StreamingInv, NEW s \in Streams, StreamEnds(s),
         UNCHANGED <<pieces, media, swarm, raised, window>>
  PROVE  StreamingInv'
<1>1. StreamOK(NoStream)
  BY NoStreamIsOK DEF StreamOK
<1> QED BY <1>1, StreamReplaced DEF StreamEnds

(* A request goes on to another call, with the chunk that it has.          *)
LEMMA StreamGoes ==
  ASSUME StreamingInv, NEW s \in Streams, NEW at \in {"steer", "probe", "copy"},
         NEW path \in {"temp", "final"}, stream[s].at \notin {"rest", "sent"},
         at \in {"probe", "copy"} /\ ~stream[s].upset /\ swarm.known =>
           \A b \in stream[s].pos..stream[s].pos + stream[s].chunk - 1 : PieceOf(b) \in media.good,
         stream' = [stream EXCEPT ![s] = [stream[s] EXCEPT !.at = at, !.path = path]],
         UNCHANGED <<pieces, media, swarm, raised, window>>
  PROVE  StreamingInv'
<1> DEFINE r == stream[s]
           new == [r EXCEPT !.at = at, !.path = path]
<1>1. r \in StreamType /\ Asked(r) /\ Relies(r, media.good, swarm.known)
  BY DEF StreamingInv, StreamOK
<1>2. /\ new \in StreamType /\ new.at = at /\ new.path = path
      /\ new.range = r.range /\ new.start = r.start /\ new.end = r.end /\ new.pos = r.pos
      /\ new.chunk = r.chunk /\ new.rowPath = r.rowPath /\ new.complete = r.complete
      /\ new.wrong = r.wrong /\ new.upset = r.upset
  <2> HIDE DEF r
  <2> QED BY <1>1 DEF StreamType, StreamAts, Paths
<1>3. Asked(new)
  <2> HIDE DEF r, new
  <2>1. r.at \notin {"rest", "sent"}
    BY DEF r
  <2> QED BY <1>1, <1>2, <2>1 DEF Asked
<1>4. Relies(new, media.good, swarm.known)
  <2>1. r.at # "rest"
    OBVIOUS
  <2>2. at \in {"probe", "copy"} /\ ~r.upset /\ swarm.known =>
          \A b \in r.pos..r.pos + r.chunk - 1 : PieceOf(b) \in media.good
    OBVIOUS
  <2> HIDE DEF r, new
  <2> QED BY <1>1, <1>2, <2>1, <2>2 DEF Relies
<1>5. Steered(new, raised, swarm.known)
  <2> HIDE DEF new
  <2> QED BY <1>2 DEF Steered
<1>6. StreamOK(new) /\ stream' = [stream EXCEPT ![s] = new]
  <2>1. StreamOK(new)
    <3> HIDE DEF new
    <3> QED BY <1>2, <1>3, <1>4, <1>5 DEF StreamOK
  <2> QED BY <2>1
<1> HIDE DEF new
<1> QED BY <1>6, StreamReplaced

(* All pieces of a torrent that is complete are good, and it is known when *)
(* its file is there.                                                      *)
LEMMA TorrentFacts ==
  ASSUME StreamingInv
  PROVE  /\ AllComplete => media.good = Pieces
         /\ media.at # "none" => swarm.known
         /\ media.good \subseteq Pieces
         /\ safeQBContentPath \in {"temp", "final"}
         /\ \A s \in Streams : /\ stream[s] \in StreamType /\ Asked(stream[s])
                               /\ Relies(stream[s], media.good, swarm.known)
                               /\ Steered(stream[s], raised, swarm.known)
BY DEF StreamingInv, TorrentOK, AllComplete, safeQBContentPath, StreamOK

LEMMA OpenStreamOK ==
  ASSUME StreamingInv, NEW s \in Streams, OpenStream(s)
  PROVE  StreamingInv'
<1>1. PICK r \in Ranges :
        IF parseRange(r).ok /\ swarm.rooted
        THEN stream' = [stream EXCEPT ![s] =
               [NoStream EXCEPT !.at = "ask", !.range = r,
                  !.start = parseRange(r).start, !.end = parseRange(r).end,
                  !.pos = parseRange(r).start,
                  !.chunk = IF StreamStart > parseRange(r).end - parseRange(r).start + 1
                            THEN parseRange(r).end - parseRange(r).start + 1 ELSE StreamStart,
                  !.complete = AllComplete, !.rowPath = safeQBContentPath]]
        ELSE UNCHANGED stream
  BY DEF OpenStream
<1>2. UNCHANGED <<pieces, media, swarm, raised, window>>
  BY DEF OpenStream
<1>3. CASE ~(parseRange(r).ok /\ swarm.rooted)
  BY <1>1, <1>2, <1>3, StreamingFrame
<1>4. CASE parseRange(r).ok /\ swarm.rooted
  <2> DEFINE st == parseRange(r).start
             en == parseRange(r).end
             ch == IF StreamStart > en - st + 1 THEN en - st + 1 ELSE StreamStart
             whole == AllComplete
             new == [NoStream EXCEPT !.at = "ask", !.range = r, !.start = st, !.end = en,
                       !.pos = st, !.chunk = ch, !.complete = whole, !.rowPath = safeQBContentPath]
  <2>1. r \in Headers
    BY StreamingAssumption DEF Headers
  <2>2. /\ st \in 0..FileSize - 1 /\ en \in 0..FileSize - 1 /\ st <= en
    BY <1>4, <2>1, RangeIsRequested DEF Headers
  <2>3. ch \in 1..FileSize /\ st + ch <= en + 1
    <3> HIDE DEF st, en
    <3> QED BY <2>2, PieceType
  <2>4. whole \in BOOLEAN
    BY Zenon DEF AllComplete
  <2>5. safeQBContentPath \in {"temp", "final"} /\ (whole => media.good = Pieces)
    BY TorrentFacts
  <2>6. stream' = [stream EXCEPT ![s] = new]
    BY <1>1, <1>4
  <2>a. /\ parseRange(r).ok /\ st = parseRange(r).start /\ en = parseRange(r).end
    BY <1>4
  <2> HIDE DEF st, en, ch, whole
  <2>7. /\ new \in StreamType /\ new.at = "ask" /\ new.range = r /\ new.start = st /\ new.end = en
        /\ new.pos = st /\ new.chunk = ch /\ new.complete = whole
        /\ new.rowPath = safeQBContentPath /\ new.wrong = NoStream.wrong
    <3>0. NoStream \in StreamType
      BY NoStreamIsOK
    <3>1. st \in 0..FileSize /\ en \in -1..FileSize /\ ch \in 0..FileSize
      BY <2>2, <2>3, PieceType
    <3> QED BY <3>0, <3>1, <2>1, <2>4, <2>5 DEF StreamType, StreamAts, Paths
  <2> HIDE DEF new
  <2>8. Asked(new)
    BY <2>a, <2>2, <2>3, <2>5, <2>7 DEF Asked
  <2>9. Relies(new, media.good, swarm.known)
    <3>1. NoStream.wrong = FALSE
      BY DEF NoStream
    <3> QED BY <2>5, <2>7, <3>1 DEF Relies
  <2>10. Steered(new, raised, swarm.known)
    BY <2>7 DEF Steered
  <2>11. StreamOK(new)
    BY <2>7, <2>8, <2>9, <2>10 DEF StreamOK
  <2> QED BY <1>2, <2>6, <2>11, StreamReplaced
<1> QED BY <1>3, <1>4

LEMMA LocalPathOK ==
  ASSUME StreamingInv, NEW s \in Streams, LocalPath(s)
  PROVE  StreamingInv'
<1>1. /\ stream[s].at = "ask" /\ stream[s].complete /\ media.at = stream[s].rowPath
      /\ UNCHANGED <<pieces, media, swarm, raised, window>>
  BY DEF LocalPath, completedLocalFile
<1>2. CASE ~swarm.rooted
  BY <1>1, <1>2, StreamEndsOK DEF LocalPath
<1>3. CASE swarm.rooted
  <2>1. /\ stream[s] \in StreamType /\ Asked(stream[s])
        /\ Relies(stream[s], media.good, swarm.known)
    BY TorrentFacts
  <2>2. stream[s].rowPath \in {"temp", "final"}
    BY <1>1, <2>1 DEF Asked, StreamType, Paths
  <2>3. ~stream[s].upset /\ swarm.known =>
          \A b \in stream[s].pos..stream[s].pos + stream[s].chunk - 1 : PieceOf(b) \in media.good
    BY <1>1, <2>1, ChunkInFile DEF Relies
  <2>4. stream' = [stream EXCEPT ![s] = [stream[s] EXCEPT !.at = "copy",
                                                          !.path = stream[s].rowPath]]
    BY <1>3, <2>1 DEF LocalPath, StreamingInv
  <2> QED BY <1>1, <2>2, <2>3, <2>4, StreamGoes
<1> QED BY <1>2, <1>3

LEMMA AskStatusOK ==
  ASSUME StreamingInv, NEW s \in Streams, AskStatus(s)
  PROVE  StreamingInv'
<1>1. stream[s].at = "ask" /\ UNCHANGED <<pieces, media, swarm, raised, window>>
  BY DEF AskStatus
<1>2. CASE ~(swarm.known /\ swarm.rooted)
  BY <1>1, <1>2, StreamEndsOK DEF AskStatus
<1>3. CASE swarm.known /\ swarm.rooted
  <2>1. safeQBContentPath \in {"temp", "final"}
    BY TorrentFacts
  <2>2. stream' = [stream EXCEPT ![s] = [stream[s] EXCEPT !.at = "steer",
                                                          !.path = safeQBContentPath]]
    BY <1>3 DEF AskStatus, StreamingInv
  <2> QED BY <1>1, <2>1, <2>2, StreamGoes
<1> QED BY <1>2, <1>3

LEMMA WaitRangeOK ==
  ASSUME StreamingInv, NEW s \in Streams, WaitRange(s)
  PROVE  StreamingInv'
<1>1. stream[s].at = "wait" /\ UNCHANGED <<pieces, media, swarm, raised, window>>
  BY DEF WaitRange
<1>2. CASE ~swarm.known
  BY <1>1, <1>2, StreamEndsOK DEF WaitRange
<1>3. CASE swarm.known
  <2>1. stream[s] \in StreamType /\ Asked(stream[s])
    BY TorrentFacts
  <2>2. stream[s].path \in {"temp", "final"}
    BY <1>1, <2>1 DEF Asked, StreamType, Paths
  <2>3. /\ \A p \in Needed(s) : pieces[p] = "complete"
        /\ stream' = [stream EXCEPT ![s] = [stream[s] EXCEPT !.at = "probe",
                                                             !.path = stream[s].path]]
    BY <1>3, <2>1 DEF WaitRange, StreamTo, StreamingInv, StreamType
  <2>4. \A b \in stream[s].pos..stream[s].pos + stream[s].chunk - 1 :
          PieceOf(b) \in Needed(s) /\ PieceOf(b) \in Pieces
    BY <1>1, <2>1, ChunkInFile DEF Needed
  <2>5. \A b \in stream[s].pos..stream[s].pos + stream[s].chunk - 1 : PieceOf(b) \in media.good
    BY <2>3, <2>4 DEF StreamingInv, TorrentOK
  <2> QED BY <1>1, <2>2, <2>3, <2>5, StreamGoes
<1> QED BY <1>2, <1>3

LEMMA ProbeFileOK ==
  ASSUME StreamingInv, NEW s \in Streams, ProbeFile(s)
  PROVE  StreamingInv'
<1>1. stream[s].at = "probe" /\ UNCHANGED <<pieces, media, swarm, raised, window>>
  BY DEF ProbeFile
<1>2. /\ stream[s] \in StreamType /\ Asked(stream[s])
      /\ Relies(stream[s], media.good, swarm.known)
  BY TorrentFacts
<1>3. ~stream[s].upset /\ swarm.known =>
        \A b \in stream[s].pos..stream[s].pos + stream[s].chunk - 1 : PieceOf(b) \in media.good
  BY <1>1, <1>2 DEF Relies
<1>4. stream[s].path \in {"temp", "final"} /\ safeQBContentPath \in {"temp", "final"}
  BY <1>1, <1>2, TorrentFacts DEF Asked, StreamType, Paths
<1>5. \/ stream' = [stream EXCEPT ![s] = [stream[s] EXCEPT !.at = "copy",
                                                           !.path = stream[s].path]]
      \/ stream' = [stream EXCEPT ![s] = [stream[s] EXCEPT !.at = "probe",
                                                           !.path = safeQBContentPath]]
  BY <1>1, <1>2 DEF ProbeFile, StreamTo, StreamingInv, StreamType
<1> QED BY <1>1, <1>3, <1>4, <1>5, StreamGoes

LEMMA copyRangeOK ==
  ASSUME StreamingInv, NEW s \in Streams, copyRange(s)
  PROVE  StreamingInv'
<1> DEFINE r == stream[s]
           bad == \E b \in ChunkOf(s) : PieceOf(b) \notin media.good
           w == r.wrong \/ bad
           at == IF r.pos + r.chunk > r.end THEN "sent" ELSE "ask"
           ch == NextChunk(s)
           new == [r EXCEPT !.wrong = w, !.pos = r.pos + r.chunk, !.chunk = ch, !.at = at]
<1>1. /\ r.at = "copy" /\ media.at = r.path
      /\ UNCHANGED <<pieces, media, swarm, raised, window>>
  BY DEF copyRange
<1>2. /\ r \in StreamType /\ Asked(r) /\ Relies(r, media.good, swarm.known)
  BY TorrentFacts
<1>3. /\ r.start \in 0..FileSize - 1 /\ r.end \in 0..FileSize - 1
      /\ r.pos \in Nat /\ r.chunk \in Nat \ {0} /\ r.start <= r.pos /\ r.pos + r.chunk <= r.end + 1
      /\ r.rowPath # "none" /\ r.path # "none"
      /\ parseRange(r.range).ok /\ r.start = parseRange(r.range).start
      /\ r.end = parseRange(r.range).end
  <2> HIDE DEF r
  <2> QED BY <1>1, <1>2, ChunkInFile DEF Asked
<1>4. ~r.upset => ~bad /\ ~r.wrong
  <2>1. media.at # "none" /\ swarm.known
    BY <1>1, <1>3, TorrentFacts
  <2>2. ~r.upset => \A b \in r.pos..r.pos + r.chunk - 1 : PieceOf(b) \in media.good
    BY <1>1, <1>2, <2>1 DEF Relies
  <2> QED BY <1>2, <2>2 DEF ChunkOf, Relies
<1>5. /\ ch \in Nat /\ ch <= r.end - (r.pos + r.chunk) + 1
      /\ at = "ask" => ch > 0
  <2> DEFINE left == r.end - (r.pos + r.chunk) + 1
             doubled == 2 * r.chunk
  <2>1. left \in Nat /\ doubled \in Nat \ {0} /\ ReadAhead \in Nat \ {0}
    BY <1>3, PieceType
  <2>2. ch = Min({doubled, ReadAhead, left})
    BY DEF NextChunk
  <2>3. at = "ask" => left > 0
    BY <1>3
  <2> HIDE DEF left, doubled, ch, at, r
  <2>4. ch \in {doubled, ReadAhead, left} /\ ch <= left
    BY <2>1, <2>2, MinOfThree
  <2>5. ch \in Nat /\ ch <= left /\ (at = "ask" => ch > 0)
    BY <2>1, <2>3, <2>4
  <2> QED BY <2>5 DEF left
<1>6. /\ at \in {"sent", "ask"}
      /\ at = "sent" => r.pos + r.chunk = r.end + 1
  BY <1>3
<1>7. stream' = [stream EXCEPT ![s] = new]
  BY DEF copyRange, StreamingInv
<1>8. w \in BOOLEAN /\ (~r.upset => ~w)
  BY <1>4, Zenon
<1> HIDE DEF r, w, at, ch, bad
<1>9. /\ new \in StreamType /\ new.at = at /\ new.range = r.range /\ new.start = r.start
      /\ new.end = r.end /\ new.pos = r.pos + r.chunk /\ new.chunk = ch
      /\ new.rowPath = r.rowPath /\ new.complete = r.complete /\ new.upset = r.upset
      /\ new.wrong = w
  <2>1. r.pos + r.chunk \in 0..FileSize /\ ch \in 0..FileSize
    BY <1>3, <1>5, PieceType
  <2> QED BY <1>2, <1>6, <1>8, <2>1 DEF StreamType, StreamAts
<1> HIDE DEF new
<1>10. Asked(new)
  BY <1>3, <1>5, <1>6, <1>9 DEF Asked
<1>11. Relies(new, media.good, swarm.known)
  <2>1. new.wrong => new.upset
    BY <1>8, <1>9
  <2>2. ~r.upset /\ swarm.known /\ r.complete => media.good = Pieces
    BY <1>1, <1>2 DEF Relies, r
  <2> QED BY <1>6, <1>9, <2>1, <2>2 DEF Relies
<1>12. Steered(new, raised, swarm.known)
  BY <1>6, <1>9 DEF Steered
<1> QED BY <1>1, <1>7, <1>9, <1>10, <1>11, <1>12, StreamReplaced DEF StreamOK

(* The window moves to the pieces of the chunk, and the others that wait   *)
(* have lost theirs.                                                       *)
LEMMA PrepareRangeOK ==
  ASSUME StreamingInv, NEW s \in Streams, PrepareRange(s)
  PROVE  StreamingInv'
<1>1. stream[s].at = "steer" /\ UNCHANGED <<pieces, media, swarm>>
  BY DEF PrepareRange
<1>2. CASE ~swarm.known
  BY <1>1, <1>2, StreamEndsOK DEF PrepareRange
<1>3. CASE swarm.known
  <2>1. /\ raised' = (raised \ window) \cup PiecesOf(s) /\ window' = PiecesOf(s)
        /\ stream' = [t \in Streams |->
             IF t = s THEN [stream[s] EXCEPT !.at = "wait", !.moved = FALSE]
             ELSE [stream[t] EXCEPT !.moved = stream[t].at = "wait" \/ @]]
    BY <1>3 DEF PrepareRange, steerLocked
  <2>2. /\ stream[s] \in StreamType /\ Asked(stream[s])
    BY TorrentFacts
  <2>3. /\ PiecesOf(s) \subseteq Pieces
        /\ PiecesOf(s) = PieceOf(stream[s].pos)..PieceOf(stream[s].pos + stream[s].chunk - 1)
    BY <1>1, <2>2, ChunkInFile DEF PiecesOf, ChunkOf
  <2>4. raised' = window' /\ window' \subseteq Pieces /\ raised' = PiecesOf(s)
    BY <2>1, <2>3 DEF StreamingInv, TorrentOK
  <2>5. TorrentOK'
    BY <1>1, <2>4 DEF StreamingInv, TorrentOK
  <2>6. ASSUME NEW t \in Streams PROVE StreamOK(stream[t])' /\ stream'[t] \in StreamType
    <3> DEFINE r == stream[t]
               m == IF t = s THEN FALSE ELSE r.at = "wait" \/ r.moved
               at == IF t = s THEN "wait" ELSE r.at
               new == stream'[t]
    <3>1. /\ r \in StreamType /\ Asked(r) /\ Relies(r, media.good, swarm.known)
      BY TorrentFacts
    <3>2. new = [r EXCEPT !.at = at, !.moved = m]
      <4>1. CASE t = s
        BY <2>1, <4>1
      <4>2. CASE t # s
        <5>1. new = [r EXCEPT !.moved = r.at = "wait" \/ r.moved]
          BY <2>1, <4>2
        <5>2. at = r.at /\ m = (r.at = "wait" \/ r.moved)
          BY <4>2
        <5> HIDE DEF at, m, new, r
        <5>3. new = [r EXCEPT !.moved = m]
          BY <5>1, <5>2
        <5> QED BY <3>1, <5>2, <5>3 DEF StreamType
      <4> QED BY <4>1, <4>2
    <3>3. m \in BOOLEAN /\ (t # s /\ r.at = "wait" => m)
      BY Zenon
    <3>4. at \in StreamAts /\ (t = s => r.at = "steer" /\ at = "wait") /\ (t # s => at = r.at)
      BY <1>1, <3>1 DEF StreamType, StreamAts
    <3>a. t = s => PiecesOf(s) = PieceOf(r.pos)..PieceOf(r.pos + r.chunk - 1)
      BY <2>3
    <3> HIDE DEF r, m, at, new
    <3>5. /\ new \in StreamType /\ new.at = at /\ new.moved = m
          /\ new.range = r.range /\ new.start = r.start /\ new.end = r.end /\ new.pos = r.pos
          /\ new.chunk = r.chunk /\ new.path = r.path /\ new.rowPath = r.rowPath
          /\ new.complete = r.complete /\ new.wrong = r.wrong /\ new.upset = r.upset
      BY <3>1, <3>2, <3>3, <3>4 DEF StreamType
    <3>6. Asked(new)
      BY <3>1, <3>4, <3>5 DEF Asked
    <3>7. Relies(new, media.good, swarm.known)
      BY <3>1, <3>4, <3>5 DEF Relies
    <3>8. Steered(new, raised', swarm.known)
      BY <2>4, <3>a, <3>3, <3>4, <3>5 DEF Steered
    <3> QED BY <1>1, <3>5, <3>6, <3>7, <3>8 DEF StreamOK, new
  <2>7. stream' \in [Streams -> StreamType]
    <3>1. DOMAIN stream' = Streams /\ stream' = [t \in Streams |-> stream'[t]]
      BY <2>1
    <3> QED BY <2>6, <3>1
  <2> QED BY <2>5, <2>6, <2>7 DEF StreamingInv
<1> QED BY <1>2, <1>3

(* The swarm acts: good pieces stay while the torrent does, and nothing    *)
(* becomes urgent.                                                         *)
LEMMA SwarmActs ==
  ASSUME StreamingInv, TorrentOK', stream' = stream,
         swarm'.known => /\ swarm.known /\ media.good \subseteq media'.good /\ raised' = raised
  PROVE  StreamingInv'
<1>1. ASSUME NEW s \in Streams PROVE StreamOK(stream[s])'
  <2>1. /\ stream[s] \in StreamType /\ Asked(stream[s])
        /\ Relies(stream[s], media.good, swarm.known) /\ Steered(stream[s], raised, swarm.known)
    BY TorrentFacts
  <2>2. media.good \subseteq Pieces /\ media'.good \subseteq Pieces
    BY DEF StreamingInv, TorrentOK
  <2>3. Relies(stream[s], media'.good, swarm'.known) /\ Steered(stream[s], raised', swarm'.known)
    BY <2>1, <2>2 DEF Relies, Steered
  <2> QED BY <2>1, <2>3 DEF StreamOK
<1> QED BY <1>1 DEF StreamingInv

LEMMA BlocksArriveOK ==
  ASSUME StreamingInv, NEW p \in Pieces, BlocksArrive(p)
  PROVE  StreamingInv'
<1> DEFINE B == {b \in 0..FileSize - 1 : PieceOf(b) = p}
<1>1. /\ swarm.known /\ pieces' = [pieces EXCEPT ![p] = "partial"]
      /\ UNCHANGED <<swarm, raised, window, stream>>
  BY DEF BlocksArrive
<1>2. Max(B) + 1 \in 0..FileSize
  <2>1. 0 \in Nat /\ FileSize - 1 \in Nat /\ 0 <= FileSize - 1
    BY PieceType
  <2>2. \E b \in 0..FileSize - 1 : PieceOf(b) = p
    BY <2>1, PiecesOfBytes DEF Pieces
  <2>3. B \in SUBSET (0..FileSize - 1) /\ B # {}
    BY <2>2
  <2> HIDE DEF B
  <2> DEFINE n == FileSize - 1
  <2>4. n \in Nat /\ B \in SUBSET (0..n)
    BY <2>1, <2>3
  <2>5. Max(B) \in B
    <3> HIDE DEF n
    <3> QED BY <2>3, <2>4, MaxOf
  <2>6. Max(B) \in 0..FileSize - 1
    BY <2>3, <2>5
  <2> HIDE DEF n
  <2> QED BY <2>1, <2>6, PieceType
<1>3. PICK n \in {Max(B) + 1, FileSize} :
        media' = [media EXCEPT !.at = IF @ = "none" THEN safeQBContentPath ELSE @,
                               !.length = IF n > @ THEN n ELSE @]
  BY DEF BlocksArrive
<1>4. n \in 0..FileSize
  BY <1>2, <1>3, PieceType
<1>5. media \in [at: Paths, length: 0..FileSize, good: SUBSET Pieces]
      /\ safeQBContentPath \in {"temp", "final"}
  BY TorrentFacts DEF StreamingInv, TorrentOK
<1>6. /\ media' \in [at: Paths, length: 0..FileSize, good: SUBSET Pieces]
      /\ media'.good = media.good
  <2> HIDE DEF B
  <2> QED BY <1>3, <1>4, <1>5 DEF Paths
<1>7. TorrentOK'
  <2>1. \A q \in Pieces : pieces'[q] = "complete" => pieces[q] = "complete"
    BY <1>1 DEF StreamingInv, TorrentOK
  <2> QED BY <1>1, <1>6, <2>1 DEF StreamingInv, TorrentOK
<1> QED BY <1>1, <1>6, <1>7, SwarmActs

LEMMA SwarmStepOK ==
  ASSUME StreamingInv,
         \/ \E p \in Pieces : PieceHashed(p) \/ Recheck(p)
         \/ ContentMoves \/ RemoveTorrent \/ RootChanges
  PROVE  StreamingInv'
<1>0. TorrentOK
  BY DEF StreamingInv
<1>1. ASSUME NEW p \in Pieces, PieceHashed(p) PROVE StreamingInv'
  <2>1. /\ swarm.known /\ UNCHANGED <<swarm, raised, window, stream>>
        /\ \/ /\ pieces' = [pieces EXCEPT ![p] = "complete"]
              /\ media' = [media EXCEPT !.good = media.good \cup {p}]
           \/ /\ p \notin media.good
              /\ pieces' = [pieces EXCEPT ![p] = "missing"] /\ UNCHANGED media
    BY <1>1 DEF PieceHashed
  <2>2. TorrentOK' /\ media.good \subseteq media'.good
    BY <1>0, <2>1 DEF TorrentOK
  <2> QED BY <2>1, <2>2, SwarmActs
<1>2. ASSUME NEW p \in Pieces, Recheck(p) PROVE StreamingInv'
  <2>1. TorrentOK'
    BY <1>0, <1>2 DEF Recheck, TorrentOK
  <2> QED BY <1>2, <2>1, SwarmActs DEF Recheck
<1>3. ASSUME ContentMoves PROVE StreamingInv'
  <2>1. TorrentOK'
    BY <1>0, <1>3 DEF ContentMoves, TorrentOK, Paths
  <2>2. media'.good = media.good /\ UNCHANGED <<swarm, raised, stream>>
    BY <1>0, <1>3 DEF ContentMoves, TorrentOK
  <2>3. swarm.known
    BY <1>0, <1>3 DEF ContentMoves, TorrentOK
  <2> QED BY <2>1, <2>2, <2>3, SwarmActs
<1>4. ASSUME RemoveTorrent PROVE StreamingInv'
  <2>1. /\ pieces' = [p \in Pieces |-> "missing"] /\ media' = NoFile /\ raised' = {} /\ window' = {}
        /\ swarm' = [swarm EXCEPT !.known = FALSE] /\ stream' = stream
    BY <1>4 DEF RemoveTorrent
  <2>2. swarm' \in [known: BOOLEAN, temp: BOOLEAN, rooted: BOOLEAN] /\ ~swarm'.known
    BY <1>0, <2>1 DEF TorrentOK
  <2>3. NoFile \in [at: Paths, length: 0..FileSize, good: SUBSET Pieces] /\ NoFile.at = "none"
    BY PieceType DEF NoFile, Paths
  <2>4. TorrentOK'
    BY <2>1, <2>2, <2>3 DEF TorrentOK
  <2> QED BY <2>1, <2>2, <2>4, SwarmActs
<1>5. ASSUME RootChanges PROVE StreamingInv'
  <2>1. swarm' = [swarm EXCEPT !.rooted = ~swarm.rooted]
        /\ UNCHANGED <<pieces, media, raised, window, stream>>
    BY <1>5 DEF RootChanges
  <2> DEFINE x == ~swarm.rooted
  <2>2. x \in BOOLEAN
    BY Zenon
  <2>3. swarm' = [swarm EXCEPT !.rooted = x]
    BY <2>1
  <2> HIDE DEF x
  <2>4. swarm' \in [known: BOOLEAN, temp: BOOLEAN, rooted: BOOLEAN] /\ swarm'.known = swarm.known
    BY <1>0, <2>2, <2>3 DEF TorrentOK
  <2>5. TorrentOK'
    BY <1>0, <2>1, <2>4 DEF TorrentOK
  <2>6. ASSUME swarm'.known PROVE swarm.known
    BY <2>4, <2>6
  <2> QED BY <2>1, <2>5, <2>6, SwarmActs
<1> QED BY <1>1, <1>2, <1>3, <1>4, <1>5

(* The torrent comes back under requests that are still open.              *)
LEMMA AddAgainOK ==
  ASSUME StreamingInv, AddAgain
  PROVE  StreamingInv'
<1>1. /\ ~swarm.known /\ swarm' = [swarm EXCEPT !.known = TRUE]
      /\ stream' = [s \in Streams |-> [stream[s] EXCEPT !.upset = @ \/ stream[s].at # "rest"]]
      /\ UNCHANGED <<pieces, media, raised, window>>
  BY DEF AddAgain
<1>2. TorrentOK'
  <2>1. swarm' \in [known: BOOLEAN, temp: BOOLEAN, rooted: BOOLEAN] /\ swarm'.known
    BY <1>1 DEF StreamingInv, TorrentOK
  <2> QED BY <1>1, <2>1 DEF StreamingInv, TorrentOK
<1>3. ASSUME NEW t \in Streams PROVE StreamOK(stream[t])' /\ stream'[t] \in StreamType
  <2> DEFINE r == stream[t]
             u == r.upset \/ r.at # "rest"
             new == stream'[t]
  <2>1. r \in StreamType /\ Asked(r) /\ Relies(r, media.good, swarm.known)
    BY TorrentFacts
  <2>2. new = [r EXCEPT !.upset = u]
    BY <1>1
  <2>3. u \in BOOLEAN /\ (r.at # "rest" => u) /\ (r.upset => u)
    BY Zenon
  <2> HIDE DEF r, u, new
  <2>4. /\ new \in StreamType /\ new.upset = u
        /\ new.at = r.at /\ new.range = r.range /\ new.start = r.start /\ new.end = r.end
        /\ new.pos = r.pos /\ new.chunk = r.chunk /\ new.path = r.path /\ new.rowPath = r.rowPath
        /\ new.wrong = r.wrong
    BY <2>1, <2>2, <2>3 DEF StreamType
  <2>5. Asked(new)
    BY <2>1, <2>4 DEF Asked
  <2>6. Relies(new, media.good, swarm'.known)
    BY <2>1, <2>3, <2>4 DEF Relies
  <2>7. Steered(new, raised, swarm'.known)
    BY <2>3, <2>4 DEF Steered
  <2> QED BY <1>1, <2>4, <2>5, <2>6, <2>7 DEF StreamOK, new
<1>4. stream' \in [Streams -> StreamType]
  <2>1. stream' = [t \in Streams |-> stream'[t]]
    BY <1>1
  <2> QED BY <1>3, <2>1
<1> QED BY <1>2, <1>3, <1>4 DEF StreamingInv

LEMMA StreamingInvInit == StreamingInit => StreamingInv
<1> SUFFICES ASSUME StreamingInit PROVE StreamingInv
  OBVIOUS
<1>1. NoFile \in [at: Paths, length: 0..FileSize, good: SUBSET Pieces]
  BY PieceType DEF NoFile, Paths
<1>2. swarm \in [known: BOOLEAN, temp: BOOLEAN, rooted: BOOLEAN] /\ swarm.known
  BY DEF StreamingInit
<1>3. TorrentOK
  BY <1>1, <1>2 DEF StreamingInit, TorrentOK
<1>4. stream = [s \in Streams |-> NoStream]
  BY DEF StreamingInit
<1>5. \A s \in Streams : StreamOK(stream[s])
  BY <1>4, NoStreamIsOK DEF StreamOK
<1> QED BY <1>3, <1>4, <1>5, NoStreamIsOK DEF StreamingInv

LEMMA StreamingInvStep == StreamingInv /\ [StreamingNext]_streamingVars => StreamingInv'
<1> SUFFICES ASSUME StreamingInv, [StreamingNext]_streamingVars PROVE StreamingInv'
  OBVIOUS
<1>1. ASSUME NEW s \in Streams, WaitEnds(s) \/ Release(s) PROVE StreamingInv'
  BY <1>1, StreamEndsOK DEF WaitEnds, Release
<1>2. CASE UNCHANGED streamingVars
  BY <1>2, StreamingFrame DEF streamingVars
<1> QED BY <1>1, <1>2, OpenStreamOK, LocalPathOK, AskStatusOK, WaitRangeOK, ProbeFileOK, copyRangeOK,
           PrepareRangeOK, BlocksArriveOK, SwarmStepOK, AddAgainOK
        DEF StreamingNext, StreamStep

LEMMA StreamingInvSafe == StreamingInv => StreamingSafe
<1> SUFFICES ASSUME StreamingInv PROVE StreamingSafe
  OBVIOUS
<1>1. ASSUME NEW s \in Streams
      PROVE  /\ stream[s] \in StreamType /\ Asked(stream[s])
             /\ stream[s].wrong => stream[s].upset
             /\ Steered(stream[s], raised, swarm.known)
  BY TorrentFacts DEF Relies
<1>2. StreamingTypeOK
  <2>1. ASSUME NEW s \in Streams
        PROVE  /\ stream[s].at \in {"rest", "ask", "steer", "wait", "probe", "copy", "sent"}
               /\ {stream[s].path, stream[s].rowPath} \subseteq {"none", "temp", "final"}
               /\ {stream[s].pos, stream[s].start, stream[s].chunk} \subseteq 0..FileSize
    BY <1>1 DEF StreamType, StreamAts, Paths
  <2> QED BY <2>1 DEF StreamingInv, TorrentOK, StreamingTypeOK, Paths
<1>3. SentIsVerified
  BY <1>1 DEF SentIsVerified
<1>4. SentIsRequested
  <2> SUFFICES ASSUME NEW s \in Streams, stream[s].at # "rest"
               PROVE  /\ stream[s].start..stream[s].end = Requested(stream[s].range)
                      /\ ChunkOf(s) \subseteq Requested(stream[s].range)
                      /\ stream[s].pos >= stream[s].start
                      /\ IF stream[s].at = "sent" THEN stream[s].pos = stream[s].end + 1
                         ELSE stream[s].chunk > 0
    BY DEF SentIsRequested
  <2>1. /\ stream[s].start..stream[s].end = Requested(stream[s].range)
        /\ ChunkOf(s) \subseteq stream[s].start..stream[s].end
        /\ stream[s].start \in Int /\ stream[s].pos \in Int
    BY <1>1, ChunkInFile DEF ChunkOf
  <2>2. /\ stream[s].start <= stream[s].pos
        /\ IF stream[s].at = "sent" THEN stream[s].pos = stream[s].end + 1
           ELSE stream[s].chunk > 0
    BY <1>1 DEF Asked
  <2> QED BY <2>1, <2>2
<1>5. WaitIsSteered
  BY <1>1 DEF WaitIsSteered, Steered, Needed, StreamingInv, TorrentOK
<1> QED BY <1>2, <1>3, <1>4, <1>5 DEF StreamingSafe

(* For any file, piece size, offset, chunks and requests: what a stream    *)
(* sends is verified and is what was asked for, and what it waits for is   *)
(* urgent, unless the torrent was removed and added again under it or      *)
(* another request moved the window (API.stream, WaitRange, PrepareRange). *)
THEOREM StreamingTheorem ==
  StreamingInit /\ [][StreamingNext]_streamingVars => []StreamingSafe
BY StreamingInvInit, StreamingInvStep, StreamingInvSafe, PTL

(* A run has goroutines only while it waits for them.                      *)
PartsJoin ==
    \A r \in AllRuns, t \in Trackers :
        parts[r][t].at # "none" => syncRun[r].at = "join"

(* No context is from the future, so that a renewal cancels every run.     *)
ContextsArePast == \A r \in AllRuns : syncRun[r].ctx <= providerCtx

(* The worker of searches has no row in the table of synchronizations.     *)
SearchesHaveNoRow == syncRun[SearchRun].mode = "search"

SyncInv == SyncSafe /\ PartsJoin /\ ContextsArePast /\ SearchesHaveNoRow

--------------------------------------------------------------------------------
(********************************** slots **********************************)

LEMMA RunsAreFinite ==
    /\ IsFiniteSet(AllRuns) /\ IsFiniteSet(AllRuns \X Trackers)
<1>1. IsFiniteSet(AllRuns)
  <2>1. IsFiniteSet({SearchRun})
    BY FS_Singleton
  <2> QED BY <2>1, FS_Union, CatalogSyncAssumption DEF AllRuns
<1> QED BY <1>1, FS_Product, CatalogSyncAssumption

LEMMA HoldersAreFinite ==
    IsFiniteSet(Holding) /\ \A t \in Trackers : IsFiniteSet(Working(t))
<1>1. Holding \subseteq AllRuns \X Trackers
  BY DEF Holding
<1>2. \A t \in Trackers : Working(t) \subseteq AllRuns
  BY DEF Working
<1> QED BY <1>1, <1>2, RunsAreFinite, FS_Subset

(* A goroutine that moves enters or leaves both sets, or neither.          *)
Moves(r, t, x) == parts' = [parts EXCEPT ![r][t] = x]

LEMMA MoveChangesOne ==
  ASSUME CatalogSyncTypeOK, NEW r \in AllRuns, NEW t \in Trackers, NEW x \in PartType,
         Moves(r, t, x)
  PROVE  /\ parts' \in [AllRuns -> [Trackers -> PartType]]
         /\ parts'[r][t] = x
         /\ \A q \in AllRuns, u \in Trackers :
               <<q, u>> # <<r, t>> => parts'[q][u] = parts[q][u]
  BY DEF CatalogSyncTypeOK, Moves

LEMMA HoldingMoves ==
  ASSUME CatalogSyncTypeOK, NEW r \in AllRuns, NEW t \in Trackers, NEW x \in PartType,
         Moves(r, t, x)
  PROVE  Holding' = IF x.at \in HasJob THEN Holding \cup {<<r, t>>} ELSE Holding \ {<<r, t>>}
<1>1. \A p \in AllRuns \X Trackers :
         p \in Holding' <=> IF p = <<r, t>> THEN x.at \in HasJob ELSE p \in Holding
  <2> TAKE p \in AllRuns \X Trackers
  <2>1. PICK q \in AllRuns, u \in Trackers : p = <<q, u>>
    OBVIOUS
  <2>2. CASE p = <<r, t>>
    BY <2>1, <2>2, MoveChangesOne DEF Holding
  <2>3. CASE p # <<r, t>>
    BY <2>1, <2>3, MoveChangesOne DEF Holding
  <2> QED BY <2>2, <2>3
<1>2. Holding' \subseteq AllRuns \X Trackers /\ Holding \subseteq AllRuns \X Trackers
      /\ <<r, t>> \in AllRuns \X Trackers
  BY DEF Holding
<1> QED BY <1>1, <1>2

LEMMA WorkingMoves ==
  ASSUME CatalogSyncTypeOK, NEW r \in AllRuns, NEW t \in Trackers, NEW x \in PartType,
         Moves(r, t, x), NEW u \in Trackers
  PROVE  Working(u)' = IF u # t THEN Working(u)
                       ELSE IF x.at \in HasTracker THEN Working(t) \cup {r}
                       ELSE Working(t) \ {r}
<1>1. CASE u # t
  <2>1. \A q \in AllRuns : parts'[q][u] = parts[q][u]
    BY <1>1, MoveChangesOne
  <2> QED BY <1>1, <2>1 DEF Working
<1>2. CASE u = t
  <2>1. \A q \in AllRuns : q \in Working(t)' <=>
           IF q = r THEN x.at \in HasTracker ELSE q \in Working(t)
    BY MoveChangesOne DEF Working
  <2>2. Working(t)' \subseteq AllRuns /\ Working(t) \subseteq AllRuns
    BY DEF Working
  <2> QED BY <1>2, <2>1, <2>2
<1> QED BY <1>1, <1>2

LEMMA MovesPart ==
  ASSUME CatalogSyncTypeOK, NEW r \in AllRuns, NEW t \in Trackers
  PROVE  /\ \A a \in HasJob : PartAt(r, t, a) =>
                \E x \in PartType : x.at = a /\ Moves(r, t, x)
         /\ \A v \in {"ok", "error", "skipped"} : PartDone(r, t, v) =>
                \E x \in PartType : x.at = "done" /\ Moves(r, t, x)
<1>1. ASSUME NEW a \in HasJob, PartAt(r, t, a)
      PROVE  \E x \in PartType : x.at = a /\ Moves(r, t, x)
  <2> DEFINE x == [parts[r][t] EXCEPT !.at = a]
  <2>1. parts[r][t] \in PartType
    BY DEF CatalogSyncTypeOK
  <2>2. x \in PartType /\ x.at = a
    BY <2>1 DEF PartType
  <2>3. Moves(r, t, x)
    BY <1>1 DEF PartAt, Moves
  <2> QED BY <2>2, <2>3
<1>2. ASSUME NEW v \in {"ok", "error", "skipped"}, PartDone(r, t, v)
      PROVE  \E x \in PartType : x.at = "done" /\ Moves(r, t, x)
  <2> DEFINE x == [at |-> "done", result |-> v]
  <2>1. x \in PartType
    BY DEF PartType
  <2> QED BY <1>2, <2>1 DEF PartDone, Moves
<1> QED BY <1>1, <1>2

(* So the sets grow or shrink by it.                                       *)
One(b) == IF b THEN 1 ELSE 0

LEMMA OneMore ==
  ASSUME NEW S, IsFiniteSet(S), NEW e, NEW T, NEW b \in BOOLEAN,
         T = IF b THEN S \cup {e} ELSE S \ {e}
  PROVE  /\ Cardinality(S) \in Nat
         /\ Cardinality(T) = Cardinality(S) + One(b) - One(e \in S)
<1>1. CASE b
  BY <1>1, FS_AddElement, FS_CardinalityType DEF One
<1>2. CASE ~b
  BY <1>2, FS_RemoveElement, FS_CardinalityType DEF One
<1> QED BY <1>1, <1>2

LEMMA HoldingCounts ==
  ASSUME CatalogSyncTypeOK, NEW r \in AllRuns, NEW t \in Trackers, NEW x \in PartType,
         Moves(r, t, x)
  PROVE  /\ Cardinality(Holding) \in Nat
         /\ Cardinality(Holding)' =
               Cardinality(Holding) + One(x.at \in HasJob) - One(parts[r][t].at \in HasJob)
<1>1. <<r, t>> \in Holding <=> parts[r][t].at \in HasJob
  BY DEF Holding
<1>2. Holding' = IF x.at \in HasJob THEN Holding \cup {<<r, t>>} ELSE Holding \ {<<r, t>>}
  BY HoldingMoves
<1>3. (x.at \in HasJob) \in BOOLEAN /\ IsFiniteSet(Holding)
  BY HoldersAreFinite
<1>4. /\ Cardinality(Holding) \in Nat
      /\ Cardinality(Holding') =
            Cardinality(Holding) + One(x.at \in HasJob) - One(<<r, t>> \in Holding)
  BY <1>2, <1>3, OneMore, Zenon
<1> QED BY <1>1, <1>4 DEF One

LEMMA WorkingCounts ==
  ASSUME CatalogSyncTypeOK, NEW r \in AllRuns, NEW t \in Trackers, NEW x \in PartType,
         Moves(r, t, x)
  PROVE  /\ Cardinality(Working(t)) \in Nat
         /\ Cardinality(Working(t)') = Cardinality(Working(t))
               + One(x.at \in HasTracker) - One(parts[r][t].at \in HasTracker)
         /\ \A u \in Trackers \ {t} : Working(u)' = Working(u)
<1>1. r \in Working(t) <=> parts[r][t].at \in HasTracker
  BY DEF Working
<1>2. Working(t)' = IF x.at \in HasTracker THEN Working(t) \cup {r} ELSE Working(t) \ {r}
  BY WorkingMoves
<1>3. (x.at \in HasTracker) \in BOOLEAN /\ IsFiniteSet(Working(t))
  BY HoldersAreFinite
<1>4. /\ Cardinality(Working(t)) \in Nat
      /\ Cardinality(Working(t)') =
            Cardinality(Working(t)) + One(x.at \in HasTracker) - One(r \in Working(t))
  BY <1>2, <1>3, OneMore, Zenon
<1>5. \A u \in Trackers \ {t} : Working(u)' = Working(u)
  BY WorkingMoves
<1> QED BY <1>1, <1>4, <1>5 DEF One

(* A move keeps the slots exact, if what it takes and returns is what it   *)
(* says.                                                                   *)
LEMMA ExactMove ==
  ASSUME CatalogSyncTypeOK, SlotsAreReturned,
         NEW r \in AllRuns, NEW t \in Trackers, NEW x \in PartType, Moves(r, t, x),
         jobSlots' = jobSlots + One(x.at \in HasJob) - One(parts[r][t].at \in HasJob),
         jobSlots' <= JobSlots,
         providerSlots' \ {t} = providerSlots \ {t},
         One(t \in providerSlots') = One(t \in providerSlots)
            + One(x.at \in HasTracker) - One(parts[r][t].at \in HasTracker)
  PROVE  SlotsAreReturned' /\ jobSlots' \in Nat
<1>1. jobSlots' = Cardinality(Holding)' /\ IsFiniteSet(Holding)'
  <2>1. IsFiniteSet(Holding')
    <3>1. IsFiniteSet(Holding \cup {<<r, t>>}) /\ IsFiniteSet(Holding \ {<<r, t>>})
      BY HoldersAreFinite, FS_AddElement, FS_RemoveElement
    <3> QED BY <3>1, HoldingMoves
  <2> QED BY <2>1, HoldingCounts DEF SlotsAreReturned
<1>2. jobSlots' \in Nat
  BY <1>1, FS_CardinalityType
<1>3. ASSUME NEW u \in Trackers
      PROVE  Cardinality(Working(u)') = IF u \in providerSlots' THEN 1 ELSE 0
  <2>1. CASE u # t
    BY <2>1, WorkingCounts DEF SlotsAreReturned
  <2>2. CASE u = t
    BY <2>2, WorkingCounts DEF SlotsAreReturned, One
  <2> QED BY <2>1, <2>2
<1> QED BY <1>1, <1>2, <1>3 DEF SlotsAreReturned

(* A goroutine past the wait for its tracker has the tracker's slot.       *)
LEMMA HolderHasSlot ==
  ASSUME CatalogSyncTypeOK, SlotsAreReturned, NEW r \in AllRuns, NEW t \in Trackers,
         parts[r][t].at \in HasTracker
  PROVE  t \in providerSlots
<1>1. r \in Working(t) /\ IsFiniteSet(Working(t))
  BY HoldersAreFinite DEF Working
<1>2. Cardinality(Working(t)) # 0
  BY <1>1, FS_EmptySet
<1> QED BY <1>2 DEF SlotsAreReturned

(* What a step of a goroutine does to its own state: it moves on, and it   *)
(* is at its tracker only while that is eligible.                          *)
Progress(r, t, x) ==
    /\ Moves(r, t, x) /\ x.at # "none" /\ parts[r][t].at \notin {"none", "done"}
    /\ x.at \in {"call", "store"} => Eligible(t)

LEMMA ReleasesBoth ==
  ASSUME CatalogSyncTypeOK, SlotsAreReturned, NEW r \in AllRuns, NEW t \in Trackers,
         NEW v \in {"ok", "error", "skipped"},
         parts[r][t].at \in HasTracker, PartDone(r, t, v), ReleaseBoth(t)
  PROVE  /\ SlotsAreReturned' /\ jobSlots' \in Nat /\ providerSlots' \subseteq Trackers
         /\ \E x \in PartType : Progress(r, t, x)
<1>1. PICK x \in PartType : x.at = "done" /\ Moves(r, t, x)
  BY MovesPart
<1>2. t \in providerSlots
  BY HolderHasSlot
<1>3. jobSlots' = jobSlots + One(x.at \in HasJob) - One(parts[r][t].at \in HasJob)
  BY <1>1 DEF ReleaseBoth, One, HasJob, HasTracker, CatalogSyncTypeOK
<1>4. jobSlots' <= JobSlots
  BY CatalogSyncAssumption DEF ReleaseBoth, SlotsAreReturned, CatalogSyncTypeOK
<1>5. One(t \in providerSlots') = One(t \in providerSlots)
        + One(x.at \in HasTracker) - One(parts[r][t].at \in HasTracker)
  BY <1>1, <1>2 DEF ReleaseBoth, One, HasTracker
<1>6. providerSlots' \ {t} = providerSlots \ {t} /\ providerSlots' \subseteq Trackers
  BY DEF ReleaseBoth, CatalogSyncTypeOK
<1>7. SlotsAreReturned' /\ jobSlots' \in Nat
  BY <1>1, <1>3, <1>4, <1>5, <1>6, ExactMove
<1> QED BY <1>1, <1>6, <1>7 DEF Progress, HasTracker

LEMMA KeepsSlots ==
  ASSUME CatalogSyncTypeOK, SlotsAreReturned, NEW r \in AllRuns, NEW t \in Trackers,
         NEW x \in PartType, Moves(r, t, x), UNCHANGED <<jobSlots, providerSlots>>,
         x.at \in HasJob <=> parts[r][t].at \in HasJob,
         x.at \in HasTracker <=> parts[r][t].at \in HasTracker
  PROVE  SlotsAreReturned' /\ jobSlots' \in Nat /\ providerSlots' \subseteq Trackers
<1>1. /\ jobSlots' = jobSlots + One(x.at \in HasJob) - One(parts[r][t].at \in HasJob)
      /\ One(t \in providerSlots') = One(t \in providerSlots)
           + One(x.at \in HasTracker) - One(parts[r][t].at \in HasTracker)
      /\ jobSlots' <= JobSlots
  BY DEF One, CatalogSyncTypeOK, SlotsAreReturned
<1>2. providerSlots' \ {t} = providerSlots \ {t} /\ providerSlots' \subseteq Trackers
  BY DEF CatalogSyncTypeOK
<1> QED BY <1>1, <1>2, ExactMove

LEMMA PartSteps ==
  ASSUME CatalogSyncTypeOK, SlotsAreReturned, NEW r \in AllRuns, NEW t \in Trackers,
         PartStep(r, t)
  PROVE  /\ SlotsAreReturned' /\ jobSlots' \in Nat /\ providerSlots' \subseteq Trackers
         /\ \E x \in PartType : Progress(r, t, x)
<1>1. CASE acquireJob(r, t)
  <2>1. CASE jobSlots < JobSlots /\ jobSlots' = jobSlots + 1 /\ PartAt(r, t, "slot")
    <3>1. PICK x \in PartType : x.at = "slot" /\ Moves(r, t, x)
      BY <2>1, MovesPart DEF HasJob
    <3>2. parts[r][t].at = "job" /\ providerSlots' = providerSlots
      BY <1>1 DEF acquireJob
    <3>3. /\ jobSlots' = jobSlots + One(x.at \in HasJob) - One(parts[r][t].at \in HasJob)
          /\ jobSlots' <= JobSlots
      BY <2>1, <3>1, <3>2, CatalogSyncAssumption
         DEF One, HasJob, HasTracker, CatalogSyncTypeOK
    <3>4. One(t \in providerSlots') = One(t \in providerSlots)
            + One(x.at \in HasTracker) - One(parts[r][t].at \in HasTracker)
      BY <3>1, <3>2 DEF One, HasTracker
    <3>5. providerSlots' \ {t} = providerSlots \ {t} /\ providerSlots' \subseteq Trackers
      BY <3>2 DEF CatalogSyncTypeOK
    <3>6. SlotsAreReturned' /\ jobSlots' \in Nat
      BY <3>1, <3>3, <3>4, <3>5, ExactMove
    <3> QED BY <3>1, <3>2, <3>5, <3>6 DEF Progress
  <2>2. CASE PartDone(r, t, "error") /\ UNCHANGED jobSlots
    <3>1. PICK x \in PartType : x.at = "done" /\ Moves(r, t, x)
      BY <2>2, MovesPart
    <3>2. parts[r][t].at = "job" /\ UNCHANGED <<jobSlots, providerSlots>>
      BY <1>1, <2>2 DEF acquireJob
    <3>3. SlotsAreReturned' /\ jobSlots' \in Nat /\ providerSlots' \subseteq Trackers
      BY <3>1, <3>2, KeepsSlots DEF HasJob, HasTracker
    <3> QED BY <3>1, <3>2, <3>3 DEF Progress
  <2> QED BY <1>1, <2>1, <2>2 DEF acquireJob
<1>2. CASE providerSlot(r, t)
  <2>1. CASE /\ t \notin providerSlots /\ providerSlots' = providerSlots \cup {t}
             /\ PartAt(r, t, "check") /\ UNCHANGED jobSlots
    <3>1. PICK x \in PartType : x.at = "check" /\ Moves(r, t, x)
      BY <2>1, MovesPart DEF HasJob, HasTracker
    <3>2. parts[r][t].at = "slot"
      BY <1>2 DEF providerSlot
    <3>3. /\ jobSlots' = jobSlots + One(x.at \in HasJob) - One(parts[r][t].at \in HasJob)
          /\ jobSlots' <= JobSlots
      BY <2>1, <3>1, <3>2 DEF One, HasJob, HasTracker, CatalogSyncTypeOK, SlotsAreReturned
    <3>4. One(t \in providerSlots') = One(t \in providerSlots)
            + One(x.at \in HasTracker) - One(parts[r][t].at \in HasTracker)
      BY <2>1, <3>1, <3>2 DEF One, HasTracker
    <3>5. providerSlots' \ {t} = providerSlots \ {t} /\ providerSlots' \subseteq Trackers
      BY <2>1 DEF CatalogSyncTypeOK
    <3>6. SlotsAreReturned' /\ jobSlots' \in Nat
      BY <3>1, <3>3, <3>4, <3>5, ExactMove
    <3> QED BY <3>1, <3>2, <3>5, <3>6 DEF Progress
  <2>2. CASE /\ PartDone(r, t, "error") /\ jobSlots' = jobSlots - 1
             /\ UNCHANGED providerSlots
    <3>1. PICK x \in PartType : x.at = "done" /\ Moves(r, t, x)
      BY <2>2, MovesPart
    <3>2. parts[r][t].at = "slot"
      BY <1>2 DEF providerSlot
    <3>3. /\ jobSlots' = jobSlots + One(x.at \in HasJob) - One(parts[r][t].at \in HasJob)
          /\ jobSlots' <= JobSlots
      BY <2>2, <3>1, <3>2, CatalogSyncAssumption
         DEF One, HasJob, HasTracker, CatalogSyncTypeOK, SlotsAreReturned
    <3>4. One(t \in providerSlots') = One(t \in providerSlots)
            + One(x.at \in HasTracker) - One(parts[r][t].at \in HasTracker)
      BY <2>2, <3>1, <3>2 DEF One, HasTracker
    <3>5. providerSlots' \ {t} = providerSlots \ {t} /\ providerSlots' \subseteq Trackers
      BY <2>2 DEF CatalogSyncTypeOK
    <3>6. SlotsAreReturned' /\ jobSlots' \in Nat
      BY <3>1, <3>3, <3>4, <3>5, ExactMove
    <3> QED BY <3>1, <3>2, <3>5, <3>6 DEF Progress
  <2> QED BY <1>2, <2>1, <2>2 DEF providerSlot
<1>3. CASE CheckEligible(r, t)
  <2>1. CASE Eligible(t)
    <3>1. PICK x \in PartType : x.at = "call" /\ Moves(r, t, x)
      BY <1>3, <2>1, MovesPart DEF CheckEligible, HasJob, HasTracker
    <3>2. parts[r][t].at = "check" /\ UNCHANGED <<jobSlots, providerSlots>>
      BY <1>3, <2>1 DEF CheckEligible
    <3>3. SlotsAreReturned' /\ jobSlots' \in Nat /\ providerSlots' \subseteq Trackers
      BY <3>1, <3>2, KeepsSlots DEF HasJob, HasTracker
    <3> QED BY <2>1, <3>1, <3>2, <3>3 DEF Progress
  <2>2. CASE ~Eligible(t)
    BY <1>3, <2>2, ReleasesBoth DEF CheckEligible, HasTracker
  <2> QED BY <2>1, <2>2
<1>4. ASSUME NEW ok \in BOOLEAN, TrackerAnswers(r, t, ok)
      PROVE  /\ SlotsAreReturned' /\ jobSlots' \in Nat /\ providerSlots' \subseteq Trackers
             /\ \E x \in PartType : Progress(r, t, x)
  <2>1. CASE Eligible(t) /\ ok
    <3>1. PICK x \in PartType : x.at = "store" /\ Moves(r, t, x)
      BY <1>4, <2>1, MovesPart DEF TrackerAnswers, HasJob, HasTracker
    <3>2. parts[r][t].at = "call" /\ UNCHANGED <<jobSlots, providerSlots>>
      BY <1>4, <2>1 DEF TrackerAnswers
    <3>3. SlotsAreReturned' /\ jobSlots' \in Nat /\ providerSlots' \subseteq Trackers
      BY <3>1, <3>2, KeepsSlots DEF HasJob, HasTracker
    <3> QED BY <2>1, <3>1, <3>2, <3>3 DEF Progress
  <2>2. CASE ~(Eligible(t) /\ ok)
    BY <1>4, <2>2, ReleasesBoth DEF TrackerAnswers, HasTracker
  <2> QED BY <2>1, <2>2
<1>5. CASE StoreReleases(r, t)
  <2>1. CASE Cancelled(r)
    BY <1>5, <2>1, ReleasesBoth DEF StoreReleases, HasTracker
  <2>2. CASE ~Cancelled(r)
    <3>1. PICK x \in PartType : x.at = "stored" /\ Moves(r, t, x)
      BY <1>5, <2>2, MovesPart DEF StoreReleases, HasJob, HasTracker
    <3>2. parts[r][t].at = "store" /\ UNCHANGED <<jobSlots, providerSlots>>
      BY <1>5, <2>2 DEF StoreReleases
    <3>3. SlotsAreReturned' /\ jobSlots' \in Nat /\ providerSlots' \subseteq Trackers
      BY <3>1, <3>2, KeepsSlots DEF HasJob, HasTracker
    <3> QED BY <3>1, <3>2, <3>3 DEF Progress
  <2> QED BY <2>1, <2>2
<1>6. CASE PartSucceeds(r, t)
  BY <1>6, ReleasesBoth DEF PartSucceeds, HasTracker
<1> QED BY <1>1, <1>2, <1>3, <1>4, <1>5, <1>6 DEF PartStep

(* Where no goroutine takes or returns anything the slots stay exact.      *)
LEMMA SlotsStay ==
  ASSUME SlotsAreReturned, UNCHANGED <<jobSlots, providerSlots>>,
         \A r \in AllRuns, t \in Trackers :
            /\ parts'[r][t].at \in HasJob <=> parts[r][t].at \in HasJob
            /\ parts'[r][t].at \in HasTracker <=> parts[r][t].at \in HasTracker
  PROVE  SlotsAreReturned'
<1>1. Holding' = Holding
  <2>1. \A p \in AllRuns \X Trackers : p[1] \in AllRuns /\ p[2] \in Trackers
    OBVIOUS
  <2> QED BY <2>1 DEF Holding
<1>2. \A t \in Trackers : Working(t)' = Working(t)
  BY DEF Working
<1> QED BY <1>1, <1>2 DEF SlotsAreReturned

--------------------------------------------------------------------------------
(****************************** the invariant ******************************)

LEMMA InitHolds == CatalogSyncInit => SyncInv
<1> SUFFICES ASSUME CatalogSyncInit PROVE SyncInv
  OBVIOUS
<1>1. IdleRun \in RunType /\ IdlePart \in PartType
  BY DEF IdleRun, RunType, IdlePart, PartType
<1>2. CatalogSyncTypeOK
  <2>1. "absent" \in RowStates /\ 0 \in 0..MaxSaves /\ 0 \in 0..MaxSyncs
    BY CatalogSyncAssumption DEF RowStates
  <2>2. /\ syncRows \in [SyncModes -> RowStates]
        /\ childRows \in [SyncModes \cup {"search"} -> [Trackers -> RowStates]]
    BY <2>1 DEF CatalogSyncInit
  <2>3. /\ syncRun \in [AllRuns -> RunType] /\ parts \in [AllRuns -> [Trackers -> PartType]]
    BY <1>1 DEF CatalogSyncInit
  <2> QED BY <2>1, <2>2, <2>3 DEF CatalogSyncInit, CatalogSyncTypeOK
<1>3. \A r \in AllRuns, t \in Trackers : parts[r][t].at = "none"
  BY DEF CatalogSyncInit, IdlePart
<1>4. SlotsAreReturned
  <2>1. Holding = {} /\ \A t \in Trackers : Working(t) = {}
    <3>1. \A p \in AllRuns \X Trackers : p[1] \in AllRuns /\ p[2] \in Trackers
      OBVIOUS
    <3> QED BY <1>3, <3>1 DEF Holding, Working, HasJob, HasTracker
  <2>2. jobSlots = 0 /\ providerSlots = {} /\ JobSlots \in Nat
    BY CatalogSyncAssumption DEF CatalogSyncInit
  <2> QED BY <2>1, <2>2, FS_EmptySet DEF SlotsAreReturned
<1>5. DisabledIsLeftAlone
  BY <1>3 DEF DisabledIsLeftAlone
<1>6. ActiveSyncRuns
  BY DEF CatalogSyncInit, ActiveSyncRuns, ActiveStates
<1>7. PartsJoin
  BY <1>3 DEF PartsJoin
<1>8. ContextsArePast
  BY DEF CatalogSyncInit, ContextsArePast, IdleRun
<1>9. SearchesHaveNoRow
  BY DEF CatalogSyncInit, SearchesHaveNoRow, IdleRun, AllRuns
<1> QED BY <1>2, <1>4, <1>5, <1>6, <1>7, <1>8, <1>9 DEF SyncInv, SyncSafe

(* A goroutine's step.                                                     *)
LEMMA PartStepHolds ==
  ASSUME SyncInv, NEW r \in AllRuns, NEW t \in Trackers, PartStep(r, t)
  PROVE  SyncInv'
<1> USE DEF SyncInv, SyncSafe
<1>1. UNCHANGED <<enabled, providerCtx, settingsSaved, saves, syncRows, syncRun, asked, cutOff>>
  BY DEF PartStep, settingsState
<1>2. SlotsAreReturned' /\ jobSlots' \in Nat /\ providerSlots' \subseteq Trackers
  BY PartSteps
<1>3. PICK x \in PartType : Progress(r, t, x)
  BY PartSteps
<1>4. /\ parts' \in [AllRuns -> [Trackers -> PartType]]
      /\ parts'[r][t] = x
      /\ \A q \in AllRuns, u \in Trackers :
            <<q, u>> # <<r, t>> => parts'[q][u] = parts[q][u]
  BY <1>3, MoveChangesOne DEF Progress
<1>5. childRows' \in [SyncModes \cup {"search"} -> [Trackers -> RowStates]]
  <2>1. \/ childRows' = childRows
        \/ \E s \in RowStates :
              childRows' = [childRows EXCEPT ![syncRun[r].mode][t] = s]
    BY DEF PartStep, acquireJob, providerSlot, CheckEligible, TrackerAnswers, StoreReleases,
           PartSucceeds, SaveChild, RowStates, ActiveStates
  <2>2. /\ syncRun[r].mode \in SyncModes \cup {"search"}
        /\ childRows \in [SyncModes \cup {"search"} -> [Trackers -> RowStates]]
    BY DEF CatalogSyncTypeOK, RunType
  <2>3. CASE childRows' = childRows
    BY <2>2, <2>3
  <2>4. ASSUME NEW s \in RowStates, childRows' = [childRows EXCEPT ![syncRun[r].mode][t] = s]
        PROVE  childRows' \in [SyncModes \cup {"search"} -> [Trackers -> RowStates]]
    BY <2>2, <2>4
  <2> QED BY <2>1, <2>3, <2>4
<1>6. CatalogSyncTypeOK'
  BY <1>1, <1>2, <1>4, <1>5 DEF CatalogSyncTypeOK
<1>7. DisabledIsLeftAlone'
  <2> SUFFICES ASSUME NEW q \in AllRuns, NEW u \in Trackers,
                      parts'[q][u].at \in {"call", "store"}, ~Eligible(u)', ~settingsSaved'
               PROVE  Cancelled(q)'
    BY DEF DisabledIsLeftAlone
  <2>1. CASE <<q, u>> = <<r, t>>
    BY <1>1, <1>3, <1>4, <2>1 DEF Progress, Eligible
  <2>2. CASE <<q, u>> # <<r, t>>
    BY <1>1, <1>4, <2>2 DEF DisabledIsLeftAlone, Eligible, Cancelled
  <2> QED BY <2>1, <2>2
<1>8. ActiveSyncRuns' /\ ContextsArePast' /\ SearchesHaveNoRow'
  BY <1>1 DEF ActiveSyncRuns, ContextsArePast, SearchesHaveNoRow
<1>9. PartsJoin'
  <2> SUFFICES ASSUME NEW q \in AllRuns, NEW u \in Trackers, parts'[q][u].at # "none"
               PROVE  syncRun'[q].at = "join"
    BY DEF PartsJoin
  <2>1. CASE <<q, u>> = <<r, t>>
    BY <1>1, <1>3, <2>1 DEF Progress, PartsJoin
  <2>2. CASE <<q, u>> # <<r, t>>
    BY <1>1, <1>4, <2>2 DEF PartsJoin
  <2> QED BY <2>1, <2>2
<1> QED BY <1>2, <1>6, <1>7, <1>8, <1>9

(* A run's own steps: nothing is held, and its goroutines are new or gone. *)
LEMMA RunStepHolds ==
  ASSUME SyncInv, NEW r \in AllRuns, NEW x \in RunType,
         syncRun' = [syncRun EXCEPT ![r] = x], x.ctx <= providerCtx,
         r = SearchRun => x.mode = "search",
         parts' \in [AllRuns -> [Trackers -> PartType]],
         \A q \in AllRuns \ {r} : parts'[q] = parts[q],
         \A t \in Trackers : /\ parts[r][t].at \in {"none", "done"}
                             /\ parts'[r][t].at \in {"none", "job"},
         (\E t \in Trackers : parts'[r][t].at # "none") => x.at = "join",
         UNCHANGED <<settingsState, childRows, jobSlots, providerSlots>>,
         asked' \in 0..MaxSyncs,
         syncRows' \in [SyncModes -> RowStates], cutOff' \subseteq SyncModes \cup {"search"},
         ActiveSyncRuns'
  PROVE  SyncInv'
<1> USE DEF SyncInv, SyncSafe
<1>0. UNCHANGED <<enabled, providerCtx, settingsSaved, saves, childRows, jobSlots, providerSlots>>
  BY DEF settingsState
<1>1. /\ syncRun' \in [AllRuns -> RunType] /\ syncRun'[r] = x
      /\ \A q \in AllRuns \ {r} : syncRun'[q] = syncRun[q]
  BY DEF CatalogSyncTypeOK
<1>2. CatalogSyncTypeOK'
  BY <1>0, <1>1 DEF CatalogSyncTypeOK
<1>3. SlotsAreReturned'
  <2>1. ASSUME NEW q \in AllRuns, NEW t \in Trackers
        PROVE  /\ parts'[q][t].at \in HasJob <=> parts[q][t].at \in HasJob
               /\ parts'[q][t].at \in HasTracker <=> parts[q][t].at \in HasTracker
    <3>1. CASE q = r
      BY <3>1 DEF HasJob, HasTracker
    <3>2. CASE q # r
      BY <3>2
    <3> QED BY <3>1, <3>2
  <2> QED BY <1>0, <2>1, SlotsStay
<1>4. DisabledIsLeftAlone'
  <2> SUFFICES ASSUME NEW q \in AllRuns, NEW u \in Trackers,
                      parts'[q][u].at \in {"call", "store"}, ~Eligible(u)', ~settingsSaved'
               PROVE  Cancelled(q)'
    BY DEF DisabledIsLeftAlone
  <2>1. q # r
    OBVIOUS
  <2> QED BY <1>0, <1>1, <2>1 DEF DisabledIsLeftAlone, Eligible, Cancelled
<1>5. PartsJoin'
  <2> SUFFICES ASSUME NEW q \in AllRuns, NEW u \in Trackers, parts'[q][u].at # "none"
               PROVE  syncRun'[q].at = "join"
    BY DEF PartsJoin
  <2>1. CASE q = r
    BY <1>1, <2>1
  <2>2. CASE q # r
    BY <1>1, <2>2 DEF PartsJoin
  <2> QED BY <2>1, <2>2
<1>6. ContextsArePast'
  BY <1>0, <1>1 DEF ContextsArePast
<1>7. SearchesHaveNoRow'
  BY <1>1 DEF SearchesHaveNoRow, AllRuns
<1> QED BY <1>2, <1>3, <1>4, <1>5, <1>6, <1>7

(* A run that goes on, or begins, leaves nobody's row alone.               *)
LEMMA RunnerStays ==
  ASSUME CatalogSyncTypeOK, ActiveSyncRuns, NEW r \in AllRuns, NEW x \in RunType,
         syncRun' = [syncRun EXCEPT ![r] = x], x.at # "idle",
         x.mode = syncRun[r].mode \/ syncRun[r].at = "idle",
         \A m \in SyncModes :
            syncRows'[m] \in ActiveStates /\ m \notin cutOff' =>
               \/ syncRows[m] \in ActiveStates /\ m \notin cutOff
               \/ r \in SyncRuns /\ x.mode = m
  PROVE  ActiveSyncRuns'
<1> SUFFICES ASSUME NEW m \in SyncModes, syncRows'[m] \in ActiveStates, m \notin cutOff'
             PROVE  \E q \in SyncRuns : syncRun'[q].mode = m /\ syncRun'[q].at # "idle"
  BY DEF ActiveSyncRuns
<1>1. syncRun'[r] = x /\ \A q \in AllRuns \ {r} : syncRun'[q] = syncRun[q]
  BY DEF CatalogSyncTypeOK
<1>2. CASE r \in SyncRuns /\ x.mode = m
  BY <1>1, <1>2
<1>3. CASE syncRows[m] \in ActiveStates /\ m \notin cutOff
  <2>1. PICK q \in SyncRuns : syncRun[q].mode = m /\ syncRun[q].at # "idle"
    BY <1>3 DEF ActiveSyncRuns
  <2>2. CASE q = r
    BY <1>1, <2>1, <2>2
  <2>3. CASE q # r
    BY <1>1, <2>1, <2>3 DEF AllRuns
  <2> QED BY <2>2, <2>3
<1> QED BY <1>2, <1>3

(* A run that does not wait for goroutines has none.                       *)
LEMMA NoParts ==
  ASSUME PartsJoin, NEW r \in AllRuns, syncRun[r].at # "join"
  PROVE  \A t \in Trackers : parts[r][t].at = "none"
  BY DEF PartsJoin

(* Such a run that goes on without starting any.                           *)
LEMMA QuietStepHolds ==
  ASSUME SyncInv, NEW r \in AllRuns, NEW x \in RunType,
         syncRun' = [syncRun EXCEPT ![r] = x], x.ctx <= providerCtx,
         r = SearchRun => x.mode = "search",
         x.at # "idle", x.mode = syncRun[r].mode \/ syncRun[r].at = "idle",
         syncRun[r].at # "join",
         UNCHANGED <<settingsState, childRows, parts, jobSlots, providerSlots>>,
         asked' \in 0..MaxSyncs,
         syncRows' \in [SyncModes -> RowStates], cutOff' \subseteq SyncModes \cup {"search"},
         \A m \in SyncModes :
            syncRows'[m] \in ActiveStates /\ m \notin cutOff' =>
               \/ syncRows[m] \in ActiveStates /\ m \notin cutOff
               \/ r \in SyncRuns /\ x.mode = m
  PROVE  SyncInv'
<1>1. CatalogSyncTypeOK /\ ActiveSyncRuns /\ PartsJoin
  BY DEF SyncInv, SyncSafe
<1>2. ActiveSyncRuns'
  BY <1>1, RunnerStays
<1>3. \A t \in Trackers : parts[r][t].at = "none" /\ parts'[r][t].at = "none"
  BY <1>1, NoParts
<1>4. /\ parts' \in [AllRuns -> [Trackers -> PartType]]
      /\ \A q \in AllRuns \ {r} : parts'[q] = parts[q]
  BY <1>1 DEF CatalogSyncTypeOK
<1>5. \A t \in Trackers : /\ parts[r][t].at \in {"none", "done"}
                          /\ parts'[r][t].at \in {"none", "job"}
  BY <1>3
<1>6. (\E t \in Trackers : parts'[r][t].at # "none") => x.at = "join"
  BY <1>3
<1>7. UNCHANGED <<settingsState, childRows, jobSlots, providerSlots>>
  OBVIOUS
<1> QED BY <1>2, <1>4, <1>5, <1>6, <1>7, RunStepHolds

(* The first steps of a run.                                               *)
LEMMA RunBegins ==
  ASSUME SyncInv,
         \/ \E r \in SyncRuns, m \in SyncModes : SyncCatalogLists(r, m)
         \/ \E r \in SyncRuns : SyncCatalogSaves(r) \/ TakeContext(r)
         \/ SearchBegins
  PROVE  SyncInv'
<1> DEFINE Stay == /\ syncRows' = syncRows /\ cutOff' = cutOff
<1>0. /\ CatalogSyncTypeOK
      /\ syncRows \in [SyncModes -> RowStates] /\ cutOff \subseteq SyncModes \cup {"search"}
      /\ providerCtx \in Nat /\ asked \in 0..MaxSyncs /\ MaxSyncs \in Nat
      /\ \A r \in AllRuns : syncRun[r] \in RunType
      /\ SyncRuns \subseteq AllRuns /\ SearchRun \in AllRuns \ SyncRuns
  BY CatalogSyncAssumption DEF SyncInv, SyncSafe, CatalogSyncTypeOK, AllRuns
<1>1. ASSUME NEW r \in SyncRuns, NEW m \in SyncModes, SyncCatalogLists(r, m) PROVE SyncInv'
  <2> DEFINE x == [IdleRun EXCEPT !.at = "asked", !.mode = m]
  <2>1. x \in RunType /\ x.ctx = 0 /\ x.at = "asked"
    BY DEF IdleRun, RunType
  <2>2. syncRun' = [syncRun EXCEPT ![r] = x] /\ syncRun[r].at = "idle" /\ Stay
    BY <1>1 DEF SyncCatalogLists
  <2>3. asked' \in 0..MaxSyncs
    <3>1. asked < MaxSyncs /\ asked' = asked + 1
      BY <1>1 DEF SyncCatalogLists
    <3> QED BY <1>0, <3>1
  <2>4. UNCHANGED <<settingsState, childRows, parts, jobSlots, providerSlots>>
    BY <1>1 DEF SyncCatalogLists
  <2>5. /\ syncRows' \in [SyncModes -> RowStates] /\ cutOff' \subseteq SyncModes \cup {"search"}
        /\ \A k \in SyncModes :
              syncRows'[k] \in ActiveStates /\ k \notin cutOff' =>
                 syncRows[k] \in ActiveStates /\ k \notin cutOff
    BY <1>0, <2>2
  <2>6. x.ctx <= providerCtx
    BY <1>0, <2>1
  <2> HIDE DEF x
  <2> QED BY <1>0, <2>1, <2>2, <2>3, <2>4, <2>5, <2>6, QuietStepHolds
<1>2. ASSUME NEW r \in SyncRuns, SyncCatalogSaves(r) PROVE SyncInv'
  <2> DEFINE x == [syncRun[r] EXCEPT !.at = "queued"]
  <2>1. x \in RunType /\ x.ctx = syncRun[r].ctx /\ x.at = "queued" /\ x.mode = syncRun[r].mode
    BY <1>0 DEF RunType
  <2>2. /\ syncRun' = [syncRun EXCEPT ![r] = x] /\ syncRun[r].at = "asked"
        /\ syncRows' = [syncRows EXCEPT ![syncRun[r].mode] = "queued"]
        /\ cutOff' = cutOff \ {syncRun[r].mode} /\ asked' = asked
    BY <1>1, <1>2 DEF SyncCatalogSaves
  <2>3. syncRows' \in [SyncModes -> RowStates] /\ cutOff' \subseteq SyncModes \cup {"search"}
    BY <1>0, <2>2 DEF RowStates, ActiveStates
  <2>4. UNCHANGED <<settingsState, childRows, parts, jobSlots, providerSlots>>
    BY <1>2 DEF SyncCatalogSaves
  <2>5. x.ctx <= providerCtx
    BY <1>0, <2>1 DEF SyncInv, ContextsArePast
  <2>6. ASSUME NEW m \in SyncModes, m # x.mode
        PROVE  syncRows'[m] = syncRows[m] /\ (m \in cutOff' <=> m \in cutOff)
    BY <1>0, <2>1, <2>2, <2>6
  <2>7. asked' \in 0..MaxSyncs
    BY <1>0, <2>2
  <2> HIDE DEF x
  <2> QED BY <1>0, <2>1, <2>2, <2>3, <2>4, <2>5, <2>6, <2>7, QuietStepHolds
<1>3. ASSUME NEW r \in SyncRuns, TakeContext(r) PROVE SyncInv'
  <2> DEFINE x == [syncRun[r] EXCEPT !.at = "begin", !.ctx = providerCtx]
  <2>1. x \in RunType /\ x.ctx = providerCtx /\ x.at = "begin" /\ x.mode = syncRun[r].mode
    BY <1>0 DEF RunType
  <2>2. syncRun' = [syncRun EXCEPT ![r] = x] /\ syncRun[r].at = "queued" /\ Stay /\ asked' = asked
    BY <1>3 DEF TakeContext
  <2>3. UNCHANGED <<settingsState, childRows, parts, jobSlots, providerSlots>>
    BY <1>3 DEF TakeContext
  <2>4. asked' \in 0..MaxSyncs
    BY <1>0, <2>2
  <2>5. /\ syncRows' \in [SyncModes -> RowStates] /\ cutOff' \subseteq SyncModes \cup {"search"}
        /\ \A k \in SyncModes :
              syncRows'[k] \in ActiveStates /\ k \notin cutOff' =>
                 syncRows[k] \in ActiveStates /\ k \notin cutOff
    BY <1>0, <2>2
  <2>6. x.ctx <= providerCtx
    BY <1>0, <2>1
  <2> HIDE DEF x
  <2> QED BY <1>0, <2>1, <2>2, <2>3, <2>4, <2>5, <2>6, QuietStepHolds
<1>4. CASE SearchBegins
  <2> DEFINE x == [IdleRun EXCEPT !.at = "begin", !.ctx = providerCtx]
  <2>1. x \in RunType /\ x.ctx = providerCtx /\ x.at = "begin" /\ x.mode = "search"
    BY <1>0 DEF RunType, IdleRun
  <2>2. syncRun' = [syncRun EXCEPT ![SearchRun] = x] /\ syncRun[SearchRun].at = "idle" /\ Stay
    BY <1>4 DEF SearchBegins
  <2>3. asked' \in 0..MaxSyncs
    BY <1>0, <1>4 DEF SearchBegins
  <2>4. UNCHANGED <<settingsState, childRows, parts, jobSlots, providerSlots>>
    BY <1>4 DEF SearchBegins
  <2>5. /\ syncRows' \in [SyncModes -> RowStates] /\ cutOff' \subseteq SyncModes \cup {"search"}
        /\ \A k \in SyncModes :
              syncRows'[k] \in ActiveStates /\ k \notin cutOff' =>
                 syncRows[k] \in ActiveStates /\ k \notin cutOff
    BY <1>0, <2>2
  <2>6. x.ctx <= providerCtx
    BY <1>0, <2>1
  <2> HIDE DEF x
  <2> QED BY <1>0, <2>1, <2>2, <2>3, <2>4, <2>5, <2>6, QuietStepHolds
<1> QED BY <1>1, <1>2, <1>3, <1>4

LEMMA FanOutHolds ==
  ASSUME SyncInv, NEW r \in AllRuns, FanOut(r)
  PROVE  SyncInv'
<1> DEFINE x == [syncRun[r] EXCEPT !.at = "join"]
<1>0. /\ CatalogSyncTypeOK /\ ActiveSyncRuns /\ PartsJoin
      /\ syncRun[r] \in RunType /\ syncRun[r].at = "begin" /\ syncRun[r].ctx <= providerCtx
      /\ r = SearchRun => syncRun[r].mode = "search"
  BY DEF SyncInv, SyncSafe, CatalogSyncTypeOK, FanOut, ContextsArePast, SearchesHaveNoRow
<1>1. x \in RunType /\ x.ctx = syncRun[r].ctx /\ x.at = "join" /\ x.mode = syncRun[r].mode
  BY <1>0 DEF RunType
<1>2. syncRun' = [syncRun EXCEPT ![r] = x]
  BY DEF FanOut
<1>3. /\ syncRows' \in [SyncModes -> RowStates] /\ cutOff' = cutOff
      /\ \A m \in SyncModes :
            syncRows'[m] = IF m = syncRun[r].mode /\ ~Cancelled(r) THEN "running"
                           ELSE syncRows[m]
  BY <1>0 DEF FanOut, CatalogSyncTypeOK, RowStates, ActiveStates
<1>4. /\ parts' \in [AllRuns -> [Trackers -> PartType]]
      /\ \A q \in AllRuns \ {r} : parts'[q] = parts[q]
      /\ \A t \in Trackers : parts'[r][t].at \in {"none", "job"}
  <2> DEFINE new == [t \in Trackers |-> IF t \in EligibleIDs
                                       THEN [IdlePart EXCEPT !.at = "job"] ELSE IdlePart]
  <2>1. /\ IdlePart \in PartType /\ IdlePart.at = "none"
        /\ [IdlePart EXCEPT !.at = "job"] \in PartType
        /\ [IdlePart EXCEPT !.at = "job"].at = "job"
    BY DEF IdlePart, PartType
  <2>2. new \in [Trackers -> PartType] /\ \A t \in Trackers : new[t].at \in {"none", "job"}
    BY <2>1
  <2>3. parts' = [parts EXCEPT ![r] = new]
    BY DEF FanOut
  <2> HIDE DEF new
  <2> QED BY <1>0, <2>2, <2>3 DEF CatalogSyncTypeOK
<1>5. \A t \in Trackers : parts[r][t].at \in {"none", "done"}
  BY <1>0, NoParts
<1>6. ActiveSyncRuns'
  <2>1. CASE r \in SyncRuns
    <3>1. \A m \in SyncModes :
             syncRows'[m] \in ActiveStates /\ m \notin cutOff' =>
                \/ syncRows[m] \in ActiveStates /\ m \notin cutOff
                \/ r \in SyncRuns /\ x.mode = m
      BY <1>1, <1>3, <2>1
    <3> HIDE DEF x
    <3> QED BY <1>0, <1>1, <1>2, <3>1, RunnerStays
  <2>2. CASE r \notin SyncRuns
    <3>1. syncRun[r].mode \notin SyncModes
      BY <1>0, <2>2, CatalogSyncAssumption DEF AllRuns
    <3>2. \A m \in SyncModes :
             syncRows'[m] \in ActiveStates /\ m \notin cutOff' =>
                \/ syncRows[m] \in ActiveStates /\ m \notin cutOff
                \/ r \in SyncRuns /\ x.mode = m
      BY <1>1, <1>3, <3>1
    <3> HIDE DEF x
    <3> QED BY <1>0, <1>1, <1>2, <3>2, RunnerStays
  <2> QED BY <2>1, <2>2
<1>7. /\ UNCHANGED <<settingsState, childRows, jobSlots, providerSlots>>
      /\ asked' \in 0..MaxSyncs /\ cutOff' \subseteq SyncModes \cup {"search"}
  BY <1>0 DEF FanOut, CatalogSyncTypeOK
<1>8. /\ x.ctx <= providerCtx /\ (r = SearchRun => x.mode = "search")
      /\ (\E t \in Trackers : parts'[r][t].at # "none") => x.at = "join"
      /\ \A t \in Trackers : /\ parts[r][t].at \in {"none", "done"}
                             /\ parts'[r][t].at \in {"none", "job"}
  <2>1. x.ctx <= providerCtx /\ (r = SearchRun => x.mode = "search")
    BY <1>0, <1>1
  <2> QED BY <1>1, <1>4, <1>5, <2>1
<1>9. cutOff' \subseteq SyncModes \cup {"search"} /\ syncRows' \in [SyncModes -> RowStates]
  BY <1>3, <1>7
<1>10. /\ parts' \in [AllRuns -> [Trackers -> PartType]]
       /\ \A q \in AllRuns \ {r} : parts'[q] = parts[q]
  BY <1>4
<1> HIDE DEF x
<1> QED BY <1>1, <1>2, <1>6, <1>7, <1>8, <1>9, <1>10, RunStepHolds

LEMMA JoinedHolds ==
  ASSUME SyncInv, NEW r \in AllRuns, Joined(r)
  PROVE  SyncInv'
<1>0. /\ CatalogSyncTypeOK /\ ActiveSyncRuns
      /\ syncRun[r].mode \in SyncModes \cup {"search"}
  BY DEF SyncInv, SyncSafe, CatalogSyncTypeOK, RunType
<1>1. /\ IdleRun \in RunType /\ IdleRun.at = "idle" /\ IdleRun.ctx <= providerCtx
      /\ IdleRun.mode = "search"
  BY <1>0 DEF IdleRun, RunType, CatalogSyncTypeOK
<1>2. syncRun' = [syncRun EXCEPT ![r] = IdleRun]
  BY DEF Joined
<1>3. PICK outcome \in {"failed", "completed"} :
         syncRows' = [m \in SyncModes |-> IF m = syncRun[r].mode /\ ~Cancelled(r)
                                          THEN outcome ELSE syncRows[m]]
  BY DEF Joined
<1>4. syncRows' \in [SyncModes -> RowStates]
  BY <1>0, <1>3 DEF CatalogSyncTypeOK, RowStates
<1>5. /\ parts' \in [AllRuns -> [Trackers -> PartType]]
      /\ \A q \in AllRuns \ {r} : parts'[q] = parts[q]
      /\ \A t \in Trackers : parts'[r][t].at = "none"
  <2>1. IdlePart \in PartType /\ IdlePart.at = "none"
    BY DEF IdlePart, PartType
  <2>2. parts' = [parts EXCEPT ![r] = [t \in Trackers |-> IdlePart]]
    BY DEF Joined
  <2> QED BY <1>0, <2>1, <2>2 DEF CatalogSyncTypeOK
<1>6. \A t \in Trackers : parts[r][t].at \in {"none", "done"}
  BY DEF Joined
<1>7. cutOff' = IF Cancelled(r) THEN cutOff \cup {syncRun[r].mode} ELSE cutOff
  BY DEF Joined
<1>8. ActiveSyncRuns'
  <2> SUFFICES ASSUME NEW m \in SyncModes, syncRows'[m] \in ActiveStates, m \notin cutOff'
               PROVE  \E q \in SyncRuns : syncRun'[q].mode = m /\ syncRun'[q].at # "idle"
    BY DEF ActiveSyncRuns
  <2>1. m # syncRun[r].mode
    <3>1. CASE Cancelled(r)
      BY <1>7, <3>1
    <3>2. CASE ~Cancelled(r)
      BY <1>3, <3>2 DEF ActiveStates
    <3> QED BY <3>1, <3>2
  <2>2. syncRows[m] \in ActiveStates /\ m \notin cutOff
    BY <1>3, <1>7, <2>1
  <2>3. PICK q \in SyncRuns : syncRun[q].mode = m /\ syncRun[q].at # "idle"
    BY <1>0, <2>2 DEF ActiveSyncRuns
  <2>4. q # r /\ q \in AllRuns
    BY <2>1, <2>3 DEF AllRuns
  <2>5. syncRun'[q] = syncRun[q]
    BY <1>0, <1>2, <2>4 DEF CatalogSyncTypeOK
  <2> QED BY <2>3, <2>5
<1>9. /\ UNCHANGED <<settingsState, childRows, jobSlots, providerSlots>>
      /\ asked' \in 0..MaxSyncs /\ cutOff' \subseteq SyncModes \cup {"search"}
  BY <1>0, <1>7 DEF Joined, CatalogSyncTypeOK
<1> QED BY <1>1, <1>2, <1>4, <1>5, <1>6, <1>8, <1>9, RunStepHolds

(* The settings: a save disables trackers before it is done, and when it   *)
(* is done every context is one of the past.                               *)
LEMMA SettingsHold ==
  ASSUME SyncInv, (\E ids \in SUBSET Trackers : SaveTrackers(ids)) \/ RefreshTrackers
  PROVE  SyncInv'
<1> USE DEF SyncInv, SyncSafe
<1>1. UNCHANGED <<syncRows, childRows, syncRun, parts, jobSlots, providerSlots, asked, cutOff>>
  BY DEF SaveTrackers, RefreshTrackers
<1>2. CatalogSyncTypeOK'
  <2>1. /\ enabled' \subseteq Trackers /\ settingsSaved' \in BOOLEAN /\ providerCtx' \in Nat
    <3>0. CatalogSyncTypeOK
      OBVIOUS
    <3>1. CASE RefreshTrackers
      <4>1. /\ settingsSaved' = FALSE /\ providerCtx' = providerCtx + 1 /\ enabled' = enabled
        BY <3>1 DEF RefreshTrackers
      <4>2. enabled \subseteq Trackers /\ providerCtx \in Nat
        BY <3>0 DEF CatalogSyncTypeOK
      <4>3. providerCtx' \in Nat
        BY <4>1, <4>2
      <4>4. settingsSaved' \in BOOLEAN
        BY <4>1
      <4>5. enabled' \subseteq Trackers
        BY <4>1, <4>2
      <4> QED BY <4>3, <4>4, <4>5
    <3>2. CASE \E ids \in SUBSET Trackers : SaveTrackers(ids)
      BY <3>0, <3>2 DEF SaveTrackers, CatalogSyncTypeOK
    <3> QED BY <3>1, <3>2
  <2>2. saves' \in 0..MaxSaves
    <3>1. saves' = saves \/ (saves < MaxSaves /\ saves' = saves + 1)
      BY DEF SaveTrackers, RefreshTrackers
    <3> QED BY <3>1, CatalogSyncAssumption DEF CatalogSyncTypeOK
  <2> QED BY <1>1, <2>1, <2>2 DEF CatalogSyncTypeOK
<1>3. SlotsAreReturned'
  BY <1>1, SlotsStay
<1>4. ActiveSyncRuns' /\ PartsJoin' /\ SearchesHaveNoRow'
  BY <1>1 DEF ActiveSyncRuns, PartsJoin, SearchesHaveNoRow
<1>5. providerCtx' >= providerCtx /\ (~settingsSaved' => providerCtx' = providerCtx + 1)
  BY DEF SaveTrackers, RefreshTrackers, CatalogSyncTypeOK
<1>6. \A r \in AllRuns : syncRun[r].ctx \in Nat
  BY DEF CatalogSyncTypeOK, RunType
<1>7. ContextsArePast'
  BY <1>1, <1>2, <1>5, <1>6 DEF ContextsArePast, CatalogSyncTypeOK
<1>8. DisabledIsLeftAlone'
  <2>1. ~settingsSaved' => \A r \in AllRuns : Cancelled(r)'
    BY <1>1, <1>5, <1>6 DEF ContextsArePast, Cancelled, CatalogSyncTypeOK
  <2> QED BY <2>1 DEF DisabledIsLeftAlone
<1> QED BY <1>2, <1>3, <1>4, <1>7, <1>8

LEMMA StepHolds == SyncInv /\ [CatalogSyncNext]_syncVars => SyncInv'
<1> SUFFICES ASSUME SyncInv, [CatalogSyncNext]_syncVars PROVE SyncInv'
  OBVIOUS
<1>1. CASE UNCHANGED syncVars
  BY <1>1
     DEF SyncInv, SyncSafe, syncVars, CatalogSyncTypeOK, SlotsAreReturned, Holding, Working,
         DisabledIsLeftAlone, ActiveSyncRuns, PartsJoin, ContextsArePast, Eligible, Cancelled,
         SearchesHaveNoRow
<1>2. CASE CatalogSyncNext
  BY <1>2, RunBegins, FanOutHolds, JoinedHolds, PartStepHolds, SettingsHold
     DEF CatalogSyncNext
<1> QED BY <1>1, <1>2

(* SyncSafe, for any trackers, runs and bounds: however synchronizations,  *)
(* searches, failing and late answers and settings saves interleave, slots *)
(* are returned (trackers.go: acquireJob and the deferred releases), a     *)
(* disabled tracker is left alone (RefreshTrackers), and an active row has *)
(* its run (runCatalogSync).                                               *)
THEOREM SyncTheorem == CatalogSyncSpec => []SyncSafe
<1>1. SyncInv => SyncSafe
  BY DEF SyncInv
<1> QED BY <1>1, InitHolds, StepHolds, PTL DEF CatalogSyncSpec
-----------------------------------------------------------------------------
(* The catalog: what a family's evidence says, whatever the order of its   *)
(* rows, and the inductive invariant.                                      *)

IdsIn(cat, F) == {cat[r].imdb : r \in F} \ {NoIMDb}
YearsIn(cat, F, i) == {cat[r].year : r \in {q \in F : cat[q].imdb = i}} \ {0}
FitIds(cat, F, y) ==
    {i \in IdsIn(cat, F) : \/ Kind = "series" \/ y = 0
                           \/ YearsIn(cat, F, i) = {} \/ y \in YearsIn(cat, F, i)}
IdIn(cat, F, r) ==
    IF cat[r].imdb # NoIMDb THEN cat[r].imdb
    ELSE IF \E i \in IdsIn(cat, F) : FitIds(cat, F, cat[r].year) = {i}
         THEN CHOOSE i \in IdsIn(cat, F) : FitIds(cat, F, cat[r].year) = {i}
         ELSE NoIMDb
TitleIn(cat, F, r) ==
    IF IdIn(cat, F, r) # NoIMDb THEN <<"imdb", IdIn(cat, F, r)>>
    ELSE <<"name", cat[r].sort, cat[r].year>>

(* The anchors after n reports: one for each IMDb id among them.           *)
Anchors0 == [imdb: IMDbIDs, years: SUBSET Years]
IdsOf(e, n) == {e[k].imdb : k \in 1..n} \ {NoIMDb}
YearsOf(e, n, i) == {e[k].year : k \in {m \in 1..n : e[m].imdb = i}} \ {0}
AnchorsAre(a, e, n) ==
    /\ a \in Seq(Anchors0)
    /\ \A j, k \in DOMAIN a : a[j].imdb = a[k].imdb => j = k
    /\ {a[j].imdb : j \in DOMAIN a} = IdsOf(e, n)
    /\ \A j \in DOMAIN a : a[j].years = YearsOf(e, n, a[j].imdb)

LEMMA EvidenceIs ==
  ASSUME NEW e \in Seq(Report), NEW n \in Nat, n < Len(e)
  PROVE  /\ e[n + 1] \in Report /\ n + 1 \in 1..Len(e)
         /\ IdsOf(e, n + 1) = IF e[n + 1].imdb = NoIMDb THEN IdsOf(e, n)
                              ELSE IdsOf(e, n) \cup {e[n + 1].imdb}
         /\ \A i : YearsOf(e, n + 1, i) =
               IF e[n + 1].imdb = i THEN YearsOf(e, n, i) \cup ({e[n + 1].year} \ {0})
               ELSE YearsOf(e, n, i)
<1>1. n + 1 \in 1..Len(e) /\ 1..(n + 1) = (1..n) \cup {n + 1} /\ Len(e) \in Nat
  OBVIOUS
<1>2. e[n + 1] \in Report
  BY <1>1
<1>3. {e[k].imdb : k \in 1..(n + 1)} = {e[k].imdb : k \in 1..n} \cup {e[n + 1].imdb}
  BY <1>1
<1>4. ASSUME NEW i
      PROVE  YearsOf(e, n + 1, i) =
               IF e[n + 1].imdb = i THEN YearsOf(e, n, i) \cup ({e[n + 1].year} \ {0})
               ELSE YearsOf(e, n, i)
  <2>1. CASE e[n + 1].imdb = i
    <3>1. {m \in 1..(n + 1) : e[m].imdb = i} = {m \in 1..n : e[m].imdb = i} \cup {n + 1}
      BY <1>1, <2>1
    <3>2. {e[k].year : k \in {m \in 1..(n + 1) : e[m].imdb = i}}
            = {e[k].year : k \in {m \in 1..n : e[m].imdb = i}} \cup {e[n + 1].year}
      BY <3>1
    <3> QED BY <2>1, <3>2 DEF YearsOf
  <2>2. CASE e[n + 1].imdb # i
    <3>1. {m \in 1..(n + 1) : e[m].imdb = i} = {m \in 1..n : e[m].imdb = i}
      BY <1>1, <2>2
    <3> QED BY <2>2, <3>1 DEF YearsOf
  <2> QED BY <2>1, <2>2
<1>5. IdsOf(e, n + 1) = IF e[n + 1].imdb = NoIMDb THEN IdsOf(e, n)
                        ELSE IdsOf(e, n) \cup {e[n + 1].imdb}
  BY <1>3 DEF IdsOf
<1> QED BY <1>1, <1>2, <1>4, <1>5

LEMMA AnchoredIs ==
  ASSUME NEW e \in Seq(Report), NEW n \in Nat, n < Len(e), NEW a, AnchorsAre(a, e, n)
  PROVE  AnchorsAre(Anchored(a, e[n + 1]), e, n + 1)
<1> DEFINE x == e[n + 1]
           ids(m) == IdsOf(e, m)
           ys(m, i) == YearsOf(e, m, i)
           w == Anchored(a, x)
           known == {i \in DOMAIN a : a[i].imdb = x.imdb}
           years == IF x.year > 0 THEN {x.year} ELSE {}
<1>1. /\ x \in Report
      /\ ids(n + 1) = IF x.imdb = NoIMDb THEN ids(n) ELSE ids(n) \cup {x.imdb}
      /\ \A i : ys(n + 1, i) = IF x.imdb = i THEN ys(n, i) \cup ({x.year} \ {0}) ELSE ys(n, i)
  BY EvidenceIs
<1>2. /\ a \in Seq(Anchors0) /\ DOMAIN a = 1..Len(a) /\ Len(a) \in Nat
      /\ \A j, k \in DOMAIN a : a[j].imdb = a[k].imdb => j = k
      /\ {a[j].imdb : j \in DOMAIN a} = ids(n)
      /\ \A j \in DOMAIN a : a[j].years = ys(n, a[j].imdb)
      /\ \A j \in DOMAIN a : a[j] \in Anchors0
  BY DEF AnchorsAre
<1>3. x.imdb \in IMDbIDs \cup {NoIMDb} /\ x.year \in Years /\ x.year \in Nat
      /\ years = {x.year} \ {0} /\ years \in SUBSET Years
  <2>1. x.imdb \in IMDbIDs \cup {NoIMDb} /\ x.year \in Years
    BY <1>1 DEF Report
  <2>2. x.year \in Nat
    BY <2>1, CatalogAssumption
  <2> HIDE DEF x
  <2> QED BY <2>1, <2>2
<1>4. \A j \in DOMAIN a : a[j].imdb \in IMDbIDs /\ a[j].imdb # NoIMDb /\ a[j].years \in SUBSET Years
  BY <1>2, CatalogAssumption DEF Anchors0
<1>5. w = IF x.imdb = NoIMDb THEN a
          ELSE IF known = {} THEN Append(a, [imdb |-> x.imdb, years |-> years])
          ELSE [i \in DOMAIN a |-> IF i \in known THEN [a[i] EXCEPT !.years = @ \cup years] ELSE a[i]]
  BY DEF Anchored
<1> HIDE DEF x, ids, ys, w, years
<1> SUFFICES /\ w \in Seq(Anchors0)
             /\ \A j, k \in DOMAIN w : w[j].imdb = w[k].imdb => j = k
             /\ {w[j].imdb : j \in DOMAIN w} = ids(n + 1)
             /\ \A j \in DOMAIN w : w[j].years = ys(n + 1, w[j].imdb)
  BY DEF AnchorsAre, w, ids, ys, x
<1>6. CASE x.imdb = NoIMDb
  <2>1. w = a /\ ids(n + 1) = ids(n)
    BY <1>1, <1>5, <1>6
  <2>2. \A j \in DOMAIN a : ys(n + 1, a[j].imdb) = ys(n, a[j].imdb)
    BY <1>1, <1>4, <1>6
  <2> QED BY <2>1, <2>2, <1>2
<1>7. CASE x.imdb # NoIMDb /\ known = {}
  <2> DEFINE y == [imdb |-> x.imdb, years |-> years]
  <2>1. y \in Anchors0 /\ y.imdb = x.imdb /\ y.years = years
    BY <1>3, <1>7 DEF Anchors0
  <2> HIDE DEF y
  <2>2. w = Append(a, y)
    BY <1>5, <1>7 DEF y
  <2>3. /\ w \in Seq(Anchors0) /\ DOMAIN w = 1..(Len(a) + 1) /\ w[Len(a) + 1] = y
        /\ \A j \in 1..Len(a) : w[j] = a[j]
    BY <2>1, <2>2, <1>2
  <2>4. x.imdb \notin ids(n) /\ \A j \in 1..Len(a) : a[j].imdb # x.imdb
    BY <1>2, <1>7
  <2>5. 1..(Len(a) + 1) = (1..Len(a)) \cup {Len(a) + 1} /\ Len(a) + 1 \notin 1..Len(a)
    BY <1>2
  <2>6. \A j, k \in DOMAIN w : w[j].imdb = w[k].imdb => j = k
    BY <1>2, <2>1, <2>3, <2>4, <2>5
  <2>7. {w[j].imdb : j \in DOMAIN w} = {a[j].imdb : j \in 1..Len(a)} \cup {x.imdb}
    BY <2>1, <2>3, <2>5
  <2>8. ys(n, x.imdb) = {}
    <3>1. x.imdb \notin {e[k].imdb : k \in 1..n}
      BY <2>4, <1>7 DEF ids, IdsOf
    <3> QED BY <3>1 DEF ys, YearsOf
  <2>9. \A j \in DOMAIN w : w[j].years = ys(n + 1, w[j].imdb)
    <3> SUFFICES ASSUME NEW j \in DOMAIN w PROVE w[j].years = ys(n + 1, w[j].imdb)
      OBVIOUS
    <3>1. CASE j \in 1..Len(a)
      BY <3>1, <1>1, <1>2, <2>3, <2>4
    <3>2. CASE j = Len(a) + 1
      BY <3>2, <1>1, <1>3, <2>1, <2>3, <2>8
    <3> QED BY <3>1, <3>2, <2>3, <2>5
  <2> QED BY <1>1, <1>2, <1>7, <2>3, <2>6, <2>7, <2>9
<1>8. CASE x.imdb # NoIMDb /\ known # {}
  <2>1. PICK k \in DOMAIN a : a[k].imdb = x.imdb
    BY <1>8
  <2>2. known = {k}
    BY <2>1, <1>2
  <2> DEFINE y == [a[k] EXCEPT !.years = @ \cup years]
  <2>3. y \in Anchors0 /\ y.imdb = x.imdb /\ y.years = a[k].years \cup years
    BY <1>2, <1>3, <2>1 DEF Anchors0
  <2>4. w = [i \in DOMAIN a |-> IF i = k THEN y ELSE a[i]]
    BY <1>5, <1>8, <2>2
  <2> HIDE DEF y
  <2>5. DOMAIN w = 1..Len(a) /\ w[k] = y /\ \A j \in 1..Len(a) : j # k => w[j] = a[j]
    BY <2>4, <1>2
  <2>6. w \in Seq(Anchors0)
    BY <2>3, <2>4, <1>2
  <2>7. \A j \in 1..Len(a) : w[j].imdb = a[j].imdb
    BY <2>1, <2>3, <2>5
  <2>8. {w[j].imdb : j \in DOMAIN w} = {a[j].imdb : j \in DOMAIN a}
    BY <2>5, <2>7, <1>2
  <2>9. x.imdb \in ids(n)
    BY <2>1, <1>2
  <2>10. \A j \in DOMAIN w : w[j].years = ys(n + 1, w[j].imdb)
    <3> SUFFICES ASSUME NEW j \in DOMAIN w PROVE w[j].years = ys(n + 1, w[j].imdb)
      OBVIOUS
    <3>1. CASE j = k
      BY <3>1, <1>1, <1>2, <1>3, <2>1, <2>3, <2>5
    <3>2. CASE j # k
      <4>1. w[j] = a[j] /\ a[j].imdb # x.imdb
        BY <3>2, <2>1, <2>5, <1>2
      <4> QED BY <4>1, <1>1, <1>2, <2>5
    <3> QED BY <3>1, <3>2
  <2> QED BY <1>1, <1>2, <1>8, <2>5, <2>6, <2>7, <2>8, <2>9, <2>10
<1> QED BY <1>6, <1>7, <1>8

(* The first pass exists, and gives an anchor for each IMDb id.            *)
AreUpto(e, f) ==
    f = [n \in 0..Len(e) |-> IF n = 0 THEN << >> ELSE Anchored(f[n - 1], e[n])]

LEMMA SomeAnchors ==
  ASSUME NEW e \in Seq(Report)
  PROVE  \E f : AreUpto(e, f)
<1> DEFINE Upto(N, f) == f = [n \in 0..N |-> IF n = 0 THEN << >> ELSE Anchored(f[n - 1], e[n])]
           bad == {N \in 0..Len(e) : ~\E f : Upto(N, f)}
<1>2. Len(e) \in Nat
  OBVIOUS
<1>3. \E f : Upto(0, f)
  <2> DEFINE f0 == [n \in 0..0 |-> << >>]
  <2>1. f0 = [n \in 0..0 |-> IF n = 0 THEN << >> ELSE Anchored(f0[n - 1], e[n])]
    OBVIOUS
  <2> QED BY <2>1
<1>4. bad = {}
  <2> SUFFICES ASSUME bad # {} PROVE FALSE
    OBVIOUS
  <2>0. bad \in SUBSET Nat
    BY <1>2
  <2>1. PICK N \in bad : \A M \in bad : N <= M
    <3> HIDE DEF bad
    <3> QED BY <2>0, LeastOf
  <2>2. N \in 0..Len(e) /\ ~\E f : Upto(N, f)
    BY <2>1
  <2>3. N # 0
    BY <2>2, <1>3
  <2>4. N - 1 \in 0..Len(e) /\ N \in 1..Len(e) /\ N - 1 < N
    BY <2>2, <2>3, <1>2
  <2>5. N - 1 \notin bad
    <3> HIDE DEF bad
    <3>1. ASSUME N - 1 \in bad PROVE FALSE
      <4>1. N <= N - 1
        BY <3>1, <2>1
      <4> QED BY <4>1, <2>4, <1>2
    <3> QED BY <3>1
  <2>6. PICK f : Upto(N - 1, f)
    BY <2>4, <2>5
  <2> DEFINE g == [n \in 0..N |-> IF n = N THEN Anchored(f[N - 1], e[N]) ELSE f[n]]
  <2>7. \A n \in 0..N : g[n] = IF n = 0 THEN << >> ELSE Anchored(g[n - 1], e[n])
    <3> SUFFICES ASSUME NEW n \in 0..N
                 PROVE  g[n] = IF n = 0 THEN << >> ELSE Anchored(g[n - 1], e[n])
      OBVIOUS
    <3>1. CASE n = N
      <4>1. g[n] = Anchored(f[N - 1], e[N]) /\ g[N - 1] = f[N - 1]
        BY <3>1, <2>4, <1>2
      <4> QED BY <3>1, <4>1, <2>3
    <3>2. CASE n # N
      <4>1. n \in 0..(N - 1) /\ g[n] = f[n]
        BY <3>2, <2>4, <1>2
      <4>2. CASE n = 0
        BY <4>1, <4>2, <2>6
      <4>3. CASE n # 0
        <5>1. n - 1 \in 0..N /\ n - 1 # N /\ g[n - 1] = f[n - 1]
          BY <4>1, <4>3, <2>4, <1>2
        <5>2. f[n] = Anchored(f[n - 1], e[n])
          BY <4>1, <4>3, <2>6
        <5> QED BY <4>1, <4>3, <5>1, <5>2
      <4> QED BY <4>2, <4>3
    <3> QED BY <3>1, <3>2
  <2>8. g = [n \in 0..N |-> IF n = 0 THEN << >> ELSE Anchored(g[n - 1], e[n])]
    <3>1. g = [n \in 0..N |-> g[n]]
      OBVIOUS
    <3> HIDE DEF g
    <3> QED BY <3>1, <2>7
  <2>10. Upto(N, g)
    <3> HIDE DEF g
    <3> QED BY <2>8
  <2> HIDE DEF Upto
  <2> QED BY <2>2, <2>10
<1>5. \E f : Upto(Len(e), f)
  <2> HIDE DEF Upto
  <2> QED BY <1>4, <1>2
<1> QED BY <1>5 DEF AreUpto

LEMMA AnchorsOfAre ==
  ASSUME NEW e \in Seq(Report)
  PROVE  AnchorsAre(AnchorsOf(e), e, Len(e))
<1> DEFINE f == CHOOSE g : AreUpto(e, g)
           bad == {n \in 0..Len(e) : ~AnchorsAre(f[n], e, n)}
<1>1. AreUpto(e, f)
  BY SomeAnchors
<1>2. AnchorsOf(e) = f[Len(e)]
  BY DEF AnchorsOf, AreUpto
<1>3. Len(e) \in Nat
  OBVIOUS
<1> HIDE DEF f
<1>4. \A n \in 0..Len(e) : f[n] = IF n = 0 THEN << >> ELSE Anchored(f[n - 1], e[n])
  BY <1>1, Zenon DEF AreUpto
<1>5. AnchorsAre(<< >>, e, 0)
  <2>1. << >> \in Seq(Anchors0) /\ DOMAIN << >> = {} /\ 1..0 = {}
    OBVIOUS
  <2>2. IdsOf(e, 0) = {}
    BY <2>1 DEF IdsOf
  <2>3. {<< >>[j].imdb : j \in DOMAIN << >>} = {}
    BY <2>1
  <2> QED BY <2>1, <2>2, <2>3 DEF AnchorsAre
<1>6. bad = {}
  <2> SUFFICES ASSUME bad # {} PROVE FALSE
    OBVIOUS
  <2>0. bad \in SUBSET Nat
    BY <1>3
  <2>1. PICK n \in bad : \A m \in bad : n <= m
    <3> HIDE DEF bad
    <3> QED BY <2>0, LeastOf
  <2>2. n \in 0..Len(e) /\ ~AnchorsAre(f[n], e, n)
    BY <2>1
  <2>3. n # 0
    BY <2>2, <1>4, <1>5
  <2>4. n - 1 \in 0..Len(e) /\ n - 1 \in Nat /\ n - 1 < Len(e) /\ (n - 1) + 1 = n /\ n - 1 < n
    BY <2>2, <2>3, <1>3
  <2>5. AnchorsAre(f[n - 1], e, n - 1)
    <3>1. n - 1 \notin bad
      <4> HIDE DEF bad
      <4>1. ASSUME n - 1 \in bad PROVE FALSE
        <5>1. n <= n - 1
          BY <4>1, <2>1
        <5> QED BY <5>1, <2>2, <1>3
      <4> QED BY <4>1
    <3> QED BY <3>1, <2>4
  <2>6. AnchorsAre(Anchored(f[n - 1], e[n]), e, n)
    BY <2>4, <2>5, AnchoredIs
  <2>7. f[n] = Anchored(f[n - 1], e[n])
    BY <2>2, <2>3, <1>4
  <2> QED BY <2>2, <2>6, <2>7
<1> QED BY <1>2, <1>3, <1>6

(* The second pass does not depend on the order of the anchors.            *)
FitIdsOf(e, y) ==
    {i \in IdsOf(e, Len(e)) : \/ Kind = "series" \/ y = 0
                              \/ YearsOf(e, Len(e), i) = {} \/ y \in YearsOf(e, Len(e), i)}

LEMMA JoinIs ==
  ASSUME NEW e \in Seq(Report), NEW a, AnchorsAre(a, e, Len(e)), NEW x \in Report
  PROVE  /\ \A i \in IdsOf(e, Len(e)) : FitIdsOf(e, x.year) = {i} => Join(a, x) = i
         /\ (\A i \in IdsOf(e, Len(e)) : FitIdsOf(e, x.year) # {i}) => Join(a, x) = NoIMDb
<1> DEFINE fits == Fits(a, x)
           ids == FitIdsOf(e, x.year)
           all == IdsOf(e, Len(e))
           ys(i) == YearsOf(e, Len(e), i)
<1>1. /\ a \in Seq(Anchors0) /\ DOMAIN a = 1..Len(a) /\ Len(a) \in Nat
      /\ \A j, k \in DOMAIN a : a[j].imdb = a[k].imdb => j = k
      /\ {a[j].imdb : j \in DOMAIN a} = all
      /\ \A j \in DOMAIN a : a[j].years = ys(a[j].imdb)
  BY DEF AnchorsAre
<1>2. fits \subseteq DOMAIN a /\ IsFiniteSet(fits)
  <2>1. fits \in SUBSET (1..Len(a))
    BY <1>1 DEF Fits
  <2>2. IsFiniteSet(1..Len(a))
    BY <1>1, FS_Interval
  <2> QED BY <2>1, <2>2, <1>1, FS_Subset
<1>3. \A j \in DOMAIN a : j \in fits <=> a[j].imdb \in ids
  BY <1>1 DEF Fits, FitIdsOf
<1>4. ids = {a[j].imdb : j \in fits}
  <2>1. ids \subseteq all
    BY DEF FitIdsOf
  <2> HIDE DEF ids, fits, all
  <2> QED BY <2>1, <1>1, <1>2, <1>3
<1>5. \A j \in DOMAIN a : fits = {j} <=> ids = {a[j].imdb}
  <2> HIDE DEF ids, fits, all
  <2> SUFFICES ASSUME NEW j \in DOMAIN a PROVE fits = {j} <=> ids = {a[j].imdb}
    OBVIOUS
  <2>1. ASSUME fits = {j} PROVE ids = {a[j].imdb}
    BY <2>1, <1>4
  <2>2. ASSUME ids = {a[j].imdb} PROVE fits = {j}
    <3>1. j \in fits
      BY <2>2, <1>3
    <3>2. ASSUME NEW k \in fits PROVE k = j
      <4>1. k \in DOMAIN a /\ a[k].imdb \in ids
        BY <1>2, <1>3
      <4> QED BY <4>1, <2>2, <1>1
    <3> QED BY <3>1, <3>2
  <2> QED BY <2>1, <2>2
<1>6. Join(a, x) = IF Cardinality(fits) = 1 THEN a[CHOOSE j \in fits : TRUE].imdb ELSE NoIMDb
  BY DEF Join
<1> HIDE DEF fits, ids, all
<1>7. CASE Cardinality(fits) = 1
  <2>1. PICK j : fits = {j}
    BY <1>2, <1>7, FS_Singleton
  <2>2. j \in DOMAIN a /\ ids = {a[j].imdb} /\ a[j].imdb \in all
    BY <2>1, <1>1, <1>2, <1>5
  <2>3. (CHOOSE k \in fits : TRUE) = j
    BY <2>1
  <2>4. Join(a, x) = a[j].imdb
    BY <2>3, <1>6, <1>7
  <2> QED BY <2>2, <2>4 DEF ids, all
<1>8. CASE Cardinality(fits) # 1
  <2>1. ASSUME NEW i \in all, ids = {i} PROVE FALSE
    <3>1. PICK j \in DOMAIN a : a[j].imdb = i
      BY <1>1, <2>1
    <3>2. fits = {j}
      BY <3>1, <2>1, <1>5
    <3> QED BY <3>2, <1>8, FS_Singleton
  <2> QED BY <2>1, <1>6, <1>8 DEF ids, all
<1> QED BY <1>7, <1>8

(* The rows of a family in any order.                                      *)
Enumerates(order, F) == order \in Seq(F) /\ IsInjective(order) /\ ToSet(order) = F

LEMMA ResolvedTitlesAre ==
  ASSUME NEW cat \in [Releases -> Report \cup {Unknown}], NEW F \in SUBSET Releases,
         \A r \in F : cat[r] # Unknown, NEW order, Enumerates(order, F)
  PROVE  ResolvedTitles(cat, order) = [r \in F |-> TitleIn(cat, F, r)]
<1> DEFINE e == [i \in DOMAIN order |-> cat[order[i]]]
           a == AnchorsOf(e)
<1>1. /\ order \in Seq(F) /\ DOMAIN order = 1..Len(order) /\ Len(order) \in Nat
      /\ \A i \in DOMAIN order : order[i] \in F /\ cat[order[i]] \in Report
      /\ \A i, j \in DOMAIN order : order[i] = order[j] => i = j
      /\ F = {order[i] : i \in DOMAIN order}
  BY DEF Enumerates, IsInjective, ToSet
<1>2. e \in Seq(Report) /\ Len(e) = Len(order) /\ DOMAIN e = DOMAIN order
      /\ \A i \in DOMAIN order : e[i] = cat[order[i]]
  BY <1>1
<1> HIDE DEF e
<1>3. AnchorsAre(a, e, Len(e))
  BY <1>2, AnchorsOfAre
<1> HIDE DEF a
<1>4. IdsOf(e, Len(e)) = IdsIn(cat, F)
  <2>1. {e[k].imdb : k \in 1..Len(e)} = {cat[r].imdb : r \in F}
    <3>1. ASSUME NEW k \in 1..Len(e) PROVE \E r \in F : cat[r].imdb = e[k].imdb
      BY <1>1, <1>2
    <3>2. ASSUME NEW r \in F PROVE \E k \in 1..Len(e) : cat[r].imdb = e[k].imdb
      <4>1. PICK k \in DOMAIN order : order[k] = r
        BY <1>1
      <4> QED BY <4>1, <1>1, <1>2
    <3> QED BY <3>1, <3>2
  <2> QED BY <2>1 DEF IdsOf, IdsIn
<1>5. ASSUME NEW i PROVE YearsOf(e, Len(e), i) = YearsIn(cat, F, i)
  <2>1. {e[k].year : k \in {m \in 1..Len(e) : e[m].imdb = i}}
          = {cat[r].year : r \in {q \in F : cat[q].imdb = i}}
    <3>1. ASSUME NEW k \in 1..Len(e), e[k].imdb = i
          PROVE  \E r \in F : cat[r].imdb = i /\ cat[r].year = e[k].year
      BY <3>1, <1>1, <1>2
    <3>2. ASSUME NEW r \in F, cat[r].imdb = i
          PROVE  \E k \in 1..Len(e) : e[k].imdb = i /\ cat[r].year = e[k].year
      <4>1. PICK k \in DOMAIN order : order[k] = r
        BY <1>1
      <4> QED BY <4>1, <3>2, <1>1, <1>2
    <3> QED BY <3>1, <3>2
  <2> QED BY <2>1 DEF YearsOf, YearsIn
<1>6. ASSUME NEW y PROVE FitIdsOf(e, y) = FitIds(cat, F, y)
  BY <1>4, <1>5 DEF FitIdsOf, FitIds
<1> DEFINE joined(x) == IF x.imdb # NoIMDb THEN x ELSE [x EXCEPT !.imdb = Join(a, x)]
           ids == ResolveFamilyTitleIDs(e)
<1>7. ids = [i \in DOMAIN order |-> CatalogTitleID(joined(e[i]))]
  BY <1>2 DEF ResolveFamilyTitleIDs, a
<1>8. ASSUME NEW i \in DOMAIN order PROVE ids[i] = TitleIn(cat, F, order[i])
  <2> DEFINE x == e[i]
  <2>1. x \in Report /\ x = cat[order[i]]
    BY <1>1, <1>2
  <2>2. ids[i] = CatalogTitleID(joined(x))
    BY <1>7, <1>8
  <2> HIDE DEF x, ids
  <2>3. CASE x.imdb # NoIMDb
    BY <2>1, <2>2, <2>3 DEF CatalogTitleID, TitleIn, IdIn
  <2>4. CASE x.imdb = NoIMDb
    <3>1. Join(a, x) = IdIn(cat, F, order[i])
      <4>1. FitIdsOf(e, x.year) = FitIds(cat, F, x.year)
        BY <1>6
      <4>2. /\ \A j \in IdsIn(cat, F) : FitIds(cat, F, x.year) = {j} => Join(a, x) = j
            /\ (\A j \in IdsIn(cat, F) : FitIds(cat, F, x.year) # {j}) => Join(a, x) = NoIMDb
        <5>1. /\ \A j \in IdsOf(e, Len(e)) : FitIdsOf(e, x.year) = {j} => Join(a, x) = j
              /\ (\A j \in IdsOf(e, Len(e)) : FitIdsOf(e, x.year) # {j}) => Join(a, x) = NoIMDb
          <6>1. x \in Report
            BY <2>1
          <6> QED BY <6>1, <1>2, <1>3, JoinIs
        <5> QED BY <5>1, <4>1, <1>4
      <4>3. IdIn(cat, F, order[i]) =
              IF \E j \in IdsIn(cat, F) : FitIds(cat, F, x.year) = {j}
              THEN CHOOSE j \in IdsIn(cat, F) : FitIds(cat, F, x.year) = {j}
              ELSE NoIMDb
        BY <2>1, <2>4 DEF IdIn
      <4> QED BY <4>2, <4>3
    <3>2. joined(x).imdb = Join(a, x) /\ joined(x).sort = x.sort /\ joined(x).year = x.year
      BY <2>1, <2>4 DEF Report
    <3> HIDE DEF joined
    <3> QED BY <2>1, <2>2, <3>1, <3>2 DEF CatalogTitleID, TitleIn
  <2> QED BY <2>3, <2>4
<1>9. ResolvedTitles(cat, order) = [r \in F |-> ids[CHOOSE i \in DOMAIN order : order[i] = r]]
  <2>1. ToSet(order) = F
    BY DEF Enumerates
  <2> QED BY <2>1 DEF ResolvedTitles, e
<1> HIDE DEF ids
<1>10. ASSUME NEW r \in F
       PROVE  ids[CHOOSE i \in DOMAIN order : order[i] = r] = TitleIn(cat, F, r)
  <2>1. PICK i \in DOMAIN order : order[i] = r
    BY <1>1
  <2>2. (CHOOSE j \in DOMAIN order : order[j] = r) \in DOMAIN order
        /\ order[CHOOSE j \in DOMAIN order : order[j] = r] = r
    BY <2>1
  <2> QED BY <2>2, <1>8
<1> QED BY <1>9, <1>10

LEMMA InjectionEnumerates ==
  ASSUME NEW S, IsFiniteSet(S), NEW f \in [1..Cardinality(S) -> S],
         \A i, j \in 1..Cardinality(S) : f[i] = f[j] => i = j
  PROVE  Enumerates(f, S)
<1> DEFINE n == Cardinality(S)
<1>1. n \in Nat
  BY FS_CardinalityType
<1> HIDE DEF n
<1>2. f \in [1..n -> S] /\ \A i, j \in 1..n : f[i] = f[j] => i = j
  BY DEF n
<1>3. IsFiniteSet(1..n) /\ Cardinality(1..n) = n
  BY <1>1, FS_Interval
<1>4. f \in Injection(1..n, S)
  BY <1>2 DEF Injection, IsInjective
<1>5. f \in Surjection(1..n, S)
  <2>1. Cardinality(1..n) = Cardinality(S)
    BY <1>3 DEF n
  <2> QED BY <1>4, <2>1, FS_Injection
<1>6. f \in Seq(S) /\ DOMAIN f = 1..n
  BY <1>1, <1>2
<1>7. S = {f[i] : i \in DOMAIN f}
  <2>1. ASSUME NEW y \in S PROVE \E i \in 1..n : f[i] = y
    BY <1>5, <2>1 DEF Surjection
  <2>2. \A i \in 1..n : f[i] \in S
    BY <1>2
  <2>3. DOMAIN f = 1..n
    BY <1>6
  <2>4. S \subseteq {f[i] : i \in 1..n}
    BY <2>1
  <2>5. {f[i] : i \in 1..n} \subseteq S
    BY <2>2
  <2> QED BY <2>3, <2>4, <2>5
<1> QED BY <1>2, <1>6, <1>7 DEF Enumerates, IsInjective, ToSet

LEMMA SetToSeqIs ==
  ASSUME NEW S, IsFiniteSet(S)
  PROVE  /\ Enumerates(SetToSeq(S), S)
         /\ \A order \in SetToSeqs(S) : Enumerates(order, S)
<1>1. ASSUME NEW order \in SetToSeqs(S) PROVE Enumerates(order, S)
  <2>1. /\ order \in [1..Cardinality(S) -> S]
        /\ \A i, j \in 1..Cardinality(S) : i # j => order[i] # order[j]
    BY <1>1 DEF SetToSeqs
  <2> QED BY <2>1, InjectionEnumerates
<1>2. \E f \in [1..Cardinality(S) -> S] : IsInjective(f)
  <2>1. PICK f : f \in Bijection(1..Cardinality(S), S)
    BY FS_CardinalityType DEF ExistsBijection
  <2>2. f \in [1..Cardinality(S) -> S] /\ IsInjective(f)
    BY <2>1 DEF Bijection, Injection, IsInjective
  <2> QED BY <2>2
<1>3. SetToSeq(S) \in [1..Cardinality(S) -> S] /\ IsInjective(SetToSeq(S))
  BY <1>2 DEF SetToSeq
<1>4. Enumerates(SetToSeq(S), S)
  BY <1>3, InjectionEnumerates DEF IsInjective
<1> QED BY <1>1, <1>4

Catalogs == [Releases -> Report \cup {Unknown}]
TitleRows == [Releases -> TitleIDs \cup {NoTitle}]

(* The title of a row by its family's evidence.                            *)
TitleBy(cat, r) == TitleIn(cat, Family(cat, cat[r].sort), r)

LEMMA FamilyIs ==
  ASSUME NEW cat \in Catalogs, NEW sort
  PROVE  /\ IsFiniteSet(Family(cat, sort)) /\ Family(cat, sort) \subseteq Releases
         /\ \A order : Enumerates(order, Family(cat, sort)) =>
              ResolvedTitles(cat, order) = [r \in Family(cat, sort) |-> TitleBy(cat, r)]
         /\ ResolvedTitles(cat, SetToSeq(Family(cat, sort)))
              = [r \in Family(cat, sort) |-> TitleBy(cat, r)]
<1> DEFINE F == Family(cat, sort)
<1>1. F \in SUBSET Releases /\ (\A r \in F : cat[r] # Unknown /\ cat[r].sort = sort)
  BY DEF Family
<1>2. IsFiniteSet(F)
  BY <1>1, CatalogAssumption, FS_Subset
<1>3. ASSUME NEW order, Enumerates(order, F)
      PROVE  ResolvedTitles(cat, order) = [r \in F |-> TitleBy(cat, r)]
  <2>1. ResolvedTitles(cat, order) = [r \in F |-> TitleIn(cat, F, r)]
    <3> HIDE DEF F
    <3> QED BY <1>1, <1>3, ResolvedTitlesAre DEF Catalogs
  <2>2. \A r \in F : TitleBy(cat, r) = TitleIn(cat, F, r)
    BY <1>1 DEF TitleBy
  <2> HIDE DEF F
  <2> QED BY <2>1, <2>2
<1>4. Enumerates(SetToSeq(F), F)
  BY <1>2, SetToSeqIs
<1> QED BY <1>1, <1>2, <1>3, <1>4

LEMMA TitleByIs ==
  ASSUME NEW cat \in Catalogs, NEW r \in Releases, cat[r] # Unknown
  PROVE  /\ r \in Family(cat, cat[r].sort) /\ cat[r] \in Report
         /\ TitleBy(cat, r) \in TitleIDs
         /\ cat[r].imdb # NoIMDb => TitleBy(cat, r) = <<"imdb", cat[r].imdb>>
         /\ \/ /\ TitleBy(cat, r) = <<"name", cat[r].sort, cat[r].year>>
               /\ cat[r].imdb = NoIMDb
            \/ \E q \in Family(cat, cat[r].sort) :
                  /\ cat[q].imdb # NoIMDb /\ TitleBy(cat, r) = <<"imdb", cat[q].imdb>>
                  /\ TitleBy(cat, q) = TitleBy(cat, r)
<1> DEFINE F == Family(cat, cat[r].sort)
<1>1. r \in F /\ cat[r] \in Report
  BY DEF Family, Catalogs
<1>2. ASSUME NEW q \in F
      PROVE  /\ cat[q] \in Report /\ TitleBy(cat, q) = TitleIn(cat, F, q)
             /\ cat[q].imdb # NoIMDb => TitleBy(cat, q) = <<"imdb", cat[q].imdb>>
  <2>1. cat[q] \in Report /\ cat[q].sort = cat[r].sort
    BY DEF Family, Catalogs
  <2>2. TitleBy(cat, q) = TitleIn(cat, F, q)
    BY <2>1 DEF TitleBy
  <2> QED BY <2>1, <2>2 DEF TitleIn, IdIn
<1>3. IdIn(cat, F, r) = NoIMDb \/ IdIn(cat, F, r) \in IdsIn(cat, F)
  BY <1>1 DEF IdIn, IdsIn
<1> HIDE DEF F
<1>4. CASE IdIn(cat, F, r) = NoIMDb
  <2>1. TitleBy(cat, r) = <<"name", cat[r].sort, cat[r].year>> /\ cat[r].imdb = NoIMDb
    BY <1>1, <1>2, <1>4 DEF TitleIn, IdIn
  <2>2. TitleBy(cat, r) \in TitleIDs
    BY <1>1, <2>1 DEF TitleIDs, Report
  <2> QED BY <1>1, <1>2, <2>1, <2>2 DEF F
<1>5. CASE IdIn(cat, F, r) # NoIMDb
  <2>1. PICK q \in F : cat[q].imdb = IdIn(cat, F, r)
    BY <1>3, <1>5 DEF IdsIn
  <2>2. TitleBy(cat, r) = <<"imdb", cat[q].imdb>> /\ cat[q].imdb # NoIMDb
    BY <1>1, <1>2, <1>5, <2>1 DEF TitleIn
  <2>3. cat[q].imdb \in IMDbIDs /\ TitleBy(cat, q) = <<"imdb", cat[q].imdb>>
    BY <2>1, <2>2, <1>2 DEF Report
  <2>4. TitleBy(cat, r) \in TitleIDs
    BY <2>2, <2>3 DEF TitleIDs
  <2> QED BY <1>1, <1>2, <2>2, <2>3, <2>4 DEF F
<1> QED BY <1>4, <1>5

(* The favourites of a family that was reconciled: a new one is a title    *)
(* that a release moved to, and one that leaves had a release that moved,  *)
(* and has none any more.                                                  *)
FavouritesMove(favs, result, movers, before, after) ==
    /\ \A x \in result : x \in favs \/ \E r \in movers : x = after[r] /\ before[r] \in favs
    /\ \A t \in favs \ result :
          /\ \E r \in movers : before[r] = t
          /\ \A r \in Releases : after[r] # t
    /\ \A t, u : /\ \E r \in movers : before[r] = t
                 /\ \A r \in movers : before[r] = t => after[r] = u
                 /\ \A r \in Releases : after[r] # t
                 => t \notin result

LEMMA MovedFavouritesAre ==
  ASSUME NEW favs, NEW movers \in SUBSET Releases, NEW before, NEW after, NEW result,
         result = MovedFavourites(favs, movers, before, after)
  PROVE  FavouritesMove(favs, result, movers, before, after)
<1> DEFINE group(t) == {m \in movers : before[m] = t}
           target(t) == {after[r] : r \in group(t)}
           extinct(t) == \A r \in Releases : after[r] # t
           image(t) == IF Cardinality(target(t)) = 1 /\ extinct(t)
                       THEN CHOOSE u \in target(t) : TRUE ELSE t
<1>1. result = {image(t) : t \in favs}
  BY DEF MovedFavourites
<1>2. ASSUME NEW t, Cardinality(target(t)) = 1 PROVE \E u : target(t) = {u}
  <2>1. IsFiniteSet(group(t))
    <3>1. group(t) \in SUBSET Releases
      OBVIOUS
    <3> QED BY <3>1, CatalogAssumption, FS_Subset
  <2> DEFINE h == [r \in group(t) |-> after[r]]
  <2>2. h \in Surjection(group(t), target(t))
    BY DEF Surjection
  <2>3. IsFiniteSet(target(t))
    <3> HIDE DEF h
    <3> QED BY <2>1, <2>2, FS_Surjection
  <2> QED BY <2>3, <1>2, FS_Singleton
<1>3. ASSUME NEW t
      PROVE  \/ image(t) = t
             \/ /\ extinct(t) /\ image(t) \in target(t) /\ target(t) = {image(t)}
  <2>1. CASE Cardinality(target(t)) = 1 /\ extinct(t)
    <3>1. PICK u : target(t) = {u}
      BY <2>1, <1>2
    <3>2. image(t) = u
      <4> HIDE DEF target, extinct
      <4> QED BY <2>1, <3>1
    <3> QED BY <2>1, <3>1, <3>2
  <2>2. CASE ~(Cardinality(target(t)) = 1 /\ extinct(t))
    BY <2>2
  <2> QED BY <2>1, <2>2
<1>4. ASSUME NEW t, NEW u, group(t) # {}, \A r \in group(t) : after[r] = u, extinct(t)
      PROVE  image(t) = u
  <2>1. target(t) = {u}
    BY <1>4
  <2>2. Cardinality(target(t)) = 1
    BY <2>1, FS_Singleton
  <2> HIDE DEF target, extinct
  <2> QED BY <1>4, <2>1, <2>2
<1> HIDE DEF image
<1>5. ASSUME NEW x \in result PROVE x \in favs \/ \E r \in movers : x = after[r] /\ before[r] \in favs
  BY <1>1, <1>3
<1>6. ASSUME NEW t \in favs \ result
      PROVE  (\E r \in movers : before[r] = t) /\ extinct(t)
  <2>1. image(t) # t
    BY <1>1
  <2> QED BY <2>1, <1>3
<1>7. ASSUME NEW t, NEW u, \E r \in movers : before[r] = t,
             \A r \in movers : before[r] = t => after[r] = u, extinct(t), t \in result
      PROVE  FALSE
  <2>1. PICK x \in favs : image(x) = t
    BY <1>1, <1>7
  <2>2. x = t
    <3>1. ASSUME x # t PROVE FALSE
      <4>1. t \in target(x)
        BY <3>1, <2>1, <1>3
      <4> QED BY <4>1, <1>7
    <3> QED BY <3>1
  <2>3. image(t) = u
    BY <1>4, <1>7
  <2>4. \E r \in movers : after[r] = u
    BY <1>7
  <2> QED BY <2>1, <2>2, <2>3, <2>4, <1>7
<1> QED BY <1>5, <1>6, <1>7 DEF FavouritesMove

(* The families one after the other.                                       *)
FamilyDone(cat, s, sort) == ReconcileFamily(cat, s, SetToSeq(Family(cat, sort)))
FamiliesUpto(cat, s, sorts, f) ==
    f = [n \in 0..Len(sorts) |-> IF n = 0 THEN s ELSE FamilyDone(cat, f[n - 1], sorts[n])]

LEMMA SomeFamilies ==
  ASSUME NEW cat, NEW s, NEW sorts, Len(sorts) \in Nat
  PROVE  \E f : FamiliesUpto(cat, s, sorts, f)
<1> DEFINE Upto(N, f) == f = [n \in 0..N |-> IF n = 0 THEN s ELSE FamilyDone(cat, f[n - 1], sorts[n])]
           bad == {N \in 0..Len(sorts) : ~\E f : Upto(N, f)}
<1>2. Len(sorts) \in Nat
  OBVIOUS
<1>3. \E f : Upto(0, f)
  <2> DEFINE f0 == [n \in 0..0 |-> s]
  <2>1. f0 = [n \in 0..0 |-> IF n = 0 THEN s ELSE FamilyDone(cat, f0[n - 1], sorts[n])]
    OBVIOUS
  <2> QED BY <2>1
<1>4. bad = {}
  <2> SUFFICES ASSUME bad # {} PROVE FALSE
    OBVIOUS
  <2>0. bad \in SUBSET Nat
    BY <1>2
  <2>1. PICK N \in bad : \A M \in bad : N <= M
    <3> HIDE DEF bad
    <3> QED BY <2>0, LeastOf
  <2>2. N \in 0..Len(sorts) /\ ~\E f : Upto(N, f)
    BY <2>1
  <2>3. N # 0
    BY <2>2, <1>3
  <2>4. N - 1 \in 0..Len(sorts) /\ N \in 1..Len(sorts) /\ N - 1 < N
    BY <2>2, <2>3, <1>2
  <2>5. N - 1 \notin bad
    <3> HIDE DEF bad
    <3>1. ASSUME N - 1 \in bad PROVE FALSE
      <4>1. N <= N - 1
        BY <3>1, <2>1
      <4> QED BY <4>1, <2>4, <1>2
    <3> QED BY <3>1
  <2>6. PICK f : Upto(N - 1, f)
    BY <2>4, <2>5
  <2> DEFINE g == [n \in 0..N |-> IF n = N THEN FamilyDone(cat, f[N - 1], sorts[N]) ELSE f[n]]
  <2>7. \A n \in 0..N : g[n] = IF n = 0 THEN s ELSE FamilyDone(cat, g[n - 1], sorts[n])
    <3> SUFFICES ASSUME NEW n \in 0..N
                 PROVE  g[n] = IF n = 0 THEN s ELSE FamilyDone(cat, g[n - 1], sorts[n])
      OBVIOUS
    <3>1. CASE n = N
      <4>1. g[n] = FamilyDone(cat, f[N - 1], sorts[N]) /\ g[N - 1] = f[N - 1]
        BY <3>1, <2>4, <1>2
      <4> QED BY <3>1, <4>1, <2>3
    <3>2. CASE n # N
      <4>1. n \in 0..(N - 1) /\ g[n] = f[n]
        BY <3>2, <2>4, <1>2
      <4>2. CASE n = 0
        BY <4>1, <4>2, <2>6
      <4>3. CASE n # 0
        <5>1. n - 1 \in 0..N /\ n - 1 # N /\ g[n - 1] = f[n - 1]
          BY <4>1, <4>3, <2>4, <1>2
        <5>2. f[n] = FamilyDone(cat, f[n - 1], sorts[n])
          BY <4>1, <4>3, <2>6
        <5> QED BY <4>1, <4>3, <5>1, <5>2
      <4> QED BY <4>2, <4>3
    <3> QED BY <3>1, <3>2
  <2>8. g = [n \in 0..N |-> IF n = 0 THEN s ELSE FamilyDone(cat, g[n - 1], sorts[n])]
    <3>1. g = [n \in 0..N |-> g[n]]
      OBVIOUS
    <3> HIDE DEF g
    <3> QED BY <3>1, <2>7
  <2>10. Upto(N, g)
    <3> HIDE DEF g
    <3> QED BY <2>8
  <2> HIDE DEF Upto
  <2> QED BY <2>2, <2>10
<1>5. \E f : Upto(Len(sorts), f)
  <2> HIDE DEF Upto
  <2> QED BY <1>4, <1>2
<1> QED BY <1>5 DEF FamiliesUpto

LEMMA FamilyDoneIs ==
  ASSUME NEW cat \in Catalogs, NEW s, s.titles \in TitleRows, NEW sort,
         NEW next, next = FamilyDone(cat, s, sort)
  PROVE  /\ next.titles \in TitleRows
         /\ \A r \in Releases : next.titles[r] =
               IF r \in Family(cat, sort) THEN TitleBy(cat, r) ELSE s.titles[r]
         /\ \E movers \in SUBSET Releases :
               /\ \A r : r \in movers <=> r \in Family(cat, sort) /\ TitleBy(cat, r) # s.titles[r]
               /\ next.favs = MovedFavourites(s.favs, movers, s.titles, next.titles)
<1> DEFINE F == Family(cat, sort)
           resolved == ResolvedTitles(cat, SetToSeq(F))
           movers == {r \in DOMAIN resolved : resolved[r] # s.titles[r]}
           after == [r \in Releases |-> IF r \in movers THEN resolved[r] ELSE s.titles[r]]
           done == FamilyDone(cat, s, sort)
<1>1. F \subseteq Releases /\ resolved = [r \in F |-> TitleBy(cat, r)]
  BY FamilyIs
<1>2. done = [titles |-> after, favs |-> MovedFavourites(s.favs, movers, s.titles, after)]
  BY DEF FamilyDone, ReconcileFamily
<1>3. \A r \in F : TitleBy(cat, r) \in TitleIDs
  <2> SUFFICES ASSUME NEW r \in F PROVE TitleBy(cat, r) \in TitleIDs
    OBVIOUS
  <2>1. r \in Releases /\ cat[r] # Unknown
    BY DEF Family
  <2> QED BY <2>1, TitleByIs
<1> HIDE DEF F, resolved, done
<1>4. movers = {r \in F : TitleBy(cat, r) # s.titles[r]}
  BY <1>1
<1>5. after = [r \in Releases |-> IF r \in F THEN TitleBy(cat, r) ELSE s.titles[r]]
  BY <1>1, <1>4
<1> HIDE DEF movers, after
<1>6. done.titles = after /\ done.favs = MovedFavourites(s.favs, movers, s.titles, after)
  BY <1>2
<1>7. after \in TitleRows
  BY <1>1, <1>3, <1>5 DEF TitleRows
<1>8. next = done
  BY DEF done
<1>9. movers \in SUBSET Releases
  BY <1>1, <1>4
<1>10. \A r : r \in movers <=> r \in F /\ TitleBy(cat, r) # s.titles[r]
  BY <1>4
<1>11. \A r \in Releases : after[r] = IF r \in F THEN TitleBy(cat, r) ELSE s.titles[r]
  BY <1>5
<1> QED BY <1>6, <1>7, <1>8, <1>9, <1>10, <1>11 DEF F

(* After n families, the titles of their releases are resolved, the others *)
(* are as they were, and so are the favourites of both.                    *)
DoneRows(cat, sorts, n) ==
    {r \in Releases : cat[r] # Unknown /\ \E k \in 1..n : cat[r].sort = sorts[k]}

LEMMA ReconciledIs ==
  ASSUME NEW cat \in Catalogs, NEW titles \in TitleRows, NEW favs,
         NEW S, NEW sorts, Enumerates(sorts, S)
  PROVE  \E f : /\ Reconciled(cat, titles, favs, sorts) = f[Len(sorts)]
                /\ f[0].titles = titles /\ f[0].favs = favs
                /\ \A n \in 1..Len(sorts) : f[n] = FamilyDone(cat, f[n - 1], sorts[n])
                /\ \A n \in 0..Len(sorts) :
                      /\ f[n].titles \in TitleRows
                      /\ \A r \in Releases : f[n].titles[r] =
                            IF r \in DoneRows(cat, sorts, n) THEN TitleBy(cat, r) ELSE titles[r]
<1> DEFINE s0 == [titles |-> titles, favs |-> favs]
           f == CHOOSE g : FamiliesUpto(cat, s0, sorts, g)
           N == Len(sorts)
<1>1. sorts \in Seq(S) /\ N \in Nat
  BY DEF Enumerates
<1>2. FamiliesUpto(cat, s0, sorts, f)
  <2> HIDE DEF s0
  <2> QED BY <1>1, SomeFamilies
<1>3. Reconciled(cat, titles, favs, sorts) = f[N]
  BY DEF Reconciled, FamiliesUpto, FamilyDone
<1> HIDE DEF f
<1>4. \A n \in 0..N : f[n] = IF n = 0 THEN s0 ELSE FamilyDone(cat, f[n - 1], sorts[n])
  BY <1>2, Zenon DEF FamiliesUpto
<1>5. f[0].titles = titles /\ f[0].favs = favs
  <2>1. f[0] = s0
    BY <1>1, <1>4
  <2> QED BY <2>1
<1>6. \A n \in 1..N : f[n] = FamilyDone(cat, f[n - 1], sorts[n])
  BY <1>1, <1>4
<1> DEFINE rows(n) == DoneRows(cat, sorts, n)
           ok(n) == /\ f[n].titles \in TitleRows
                    /\ \A r \in Releases : f[n].titles[r] =
                          IF r \in rows(n) THEN TitleBy(cat, r) ELSE titles[r]
           bad == {n \in 0..N : ~ok(n)}
<1>7. ok(0)
  <2>1. rows(0) = {}
    BY DEF DoneRows
  <2> HIDE DEF rows
  <2> QED BY <2>1, <1>5
<1>8. ASSUME NEW n \in 1..N, ok(n - 1) PROVE ok(n)
  <2>1. /\ f[n].titles \in TitleRows
        /\ \A r \in Releases : f[n].titles[r] =
              IF r \in Family(cat, sorts[n]) THEN TitleBy(cat, r) ELSE f[n - 1].titles[r]
    <3> DEFINE prev == f[n - 1]
    <3>1. prev.titles \in TitleRows /\ f[n] = FamilyDone(cat, prev, sorts[n])
      BY <1>6, <1>8
    <3> HIDE DEF prev
    <3>2. /\ f[n].titles \in TitleRows
          /\ \A r \in Releases : f[n].titles[r] =
                IF r \in Family(cat, sorts[n]) THEN TitleBy(cat, r) ELSE prev.titles[r]
      BY <3>1, FamilyDoneIs
    <3> QED BY <3>2 DEF prev
  <2>2. rows(n) = rows(n - 1) \cup Family(cat, sorts[n])
    <3>1. 1..n = (1..(n - 1)) \cup {n}
      OBVIOUS
    <3> QED BY <3>1 DEF DoneRows, Family
  <2>3. \A r \in Releases : f[n - 1].titles[r] =
              IF r \in rows(n - 1) THEN TitleBy(cat, r) ELSE titles[r]
    <3> HIDE DEF rows
    <3> QED BY <1>8
  <2> HIDE DEF rows
  <2> QED BY <2>1, <2>2, <2>3
<1>9. bad = {}
  <2> SUFFICES ASSUME bad # {} PROVE FALSE
    OBVIOUS
  <2>0. bad \in SUBSET Nat
    BY <1>1
  <2>1. PICK n \in bad : \A m \in bad : n <= m
    <3> HIDE DEF bad
    <3> QED BY <2>0, LeastOf
  <2>2. n \in 0..N /\ ~ok(n)
    BY <2>1
  <2> HIDE DEF ok
  <2>3. n \in 1..N /\ n - 1 \in 0..N /\ n - 1 < n
    BY <2>2, <1>1, <1>7
  <2>4. n - 1 \notin bad
    <3> HIDE DEF bad
    <3>1. ASSUME n - 1 \in bad PROVE FALSE
      <4>1. n <= n - 1
        BY <3>1, <2>1
      <4> QED BY <4>1, <2>3, <1>1
    <3> QED BY <3>1
  <2>5. ok(n - 1)
    BY <2>3, <2>4
  <2> QED BY <2>2, <2>3, <2>5, <1>8
<1>10. \A n \in 0..N : ok(n)
  <2> HIDE DEF ok
  <2> QED BY <1>9
<1> HIDE DEF rows
<1> QED BY <1>3, <1>5, <1>6, <1>10 DEF rows

(* What reconciled families leave: every known row of theirs has its title,*)
(* a favourite that is new is a title of theirs, ...                       *)
RowsIn(cat, S) == {r \in Releases : cat[r] # Unknown /\ cat[r].sort \in S}

LEMMA ReconciledTitles ==
  ASSUME NEW cat \in Catalogs, NEW titles \in TitleRows, NEW favs,
         NEW S, NEW sorts, Enumerates(sorts, S),
         NEW done, done = Reconciled(cat, titles, favs, sorts)
  PROVE  /\ done.titles \in TitleRows
         /\ \A r \in Releases : done.titles[r] =
               IF r \in RowsIn(cat, S) THEN TitleBy(cat, r) ELSE titles[r]
<1>1. PICK f : /\ Reconciled(cat, titles, favs, sorts) = f[Len(sorts)]
                /\ \A n \in 0..Len(sorts) :
                      /\ f[n].titles \in TitleRows
                      /\ \A r \in Releases : f[n].titles[r] =
                            IF r \in DoneRows(cat, sorts, n) THEN TitleBy(cat, r) ELSE titles[r]
  BY ReconciledIs
<1>2. Len(sorts) \in Nat /\ S = {sorts[i] : i \in 1..Len(sorts)}
  BY DEF Enumerates, ToSet
<1>3. DoneRows(cat, sorts, Len(sorts)) = RowsIn(cat, S)
  BY <1>2 DEF DoneRows, RowsIn
<1> QED BY <1>1, <1>2, <1>3

(* ... a favourite that has left had a release under it, in a family where *)
(* no release is under it now, ...                                         *)
LEMMA ReconciledFavourites ==
  ASSUME NEW cat \in Catalogs, NEW titles \in TitleRows, NEW favs,
         NEW S, NEW sorts, Enumerates(sorts, S),
         NEW done, done = Reconciled(cat, titles, favs, sorts)
  PROVE  /\ \A x \in done.favs :
               \/ x \in favs
               \/ /\ \E r \in RowsIn(cat, S) : x = TitleBy(cat, r)
                  /\ favs \cap (TitleIDs \cup {NoTitle}) # {}
         /\ \A t \in favs \ done.favs :
               \E m \in RowsIn(cat, S) :
                  /\ titles[m] = t /\ TitleBy(cat, m) # t
                  /\ \A r \in Releases : done.titles[r] = t =>
                        r \in RowsIn(cat, S) /\ cat[r].sort # cat[m].sort
<1> DEFINE N == Len(sorts)
<1>1. PICK f : /\ Reconciled(cat, titles, favs, sorts) = f[Len(sorts)]
               /\ f[0].titles = titles /\ f[0].favs = favs
               /\ \A n \in 1..Len(sorts) : f[n] = FamilyDone(cat, f[n - 1], sorts[n])
               /\ \A k \in 0..Len(sorts) :
                     /\ f[k].titles \in TitleRows
                     /\ \A r \in Releases : f[k].titles[r] =
                           IF r \in DoneRows(cat, sorts, k) THEN TitleBy(cat, r) ELSE titles[r]
  BY ReconciledIs
<1>2. /\ N \in Nat /\ S = {sorts[i] : i \in 1..N}
      /\ \A i, j \in 1..N : sorts[i] = sorts[j] => i = j
  BY DEF Enumerates, ToSet, IsInjective
<1>3. done = f[N]
  BY <1>1
<1>4. \A r \in Releases : done.titles[r] =
               IF r \in RowsIn(cat, S) THEN TitleBy(cat, r) ELSE titles[r]
  BY ReconciledTitles
<1> HIDE DEF N
<1>5. ASSUME NEW n \in 1..N
      PROVE  /\ n - 1 \in 0..N /\ n - 1 < n
             /\ \A x \in f[n].favs :
                   \/ x \in f[n - 1].favs
                   \/ /\ \E r \in RowsIn(cat, S) : x = TitleBy(cat, r)
                      /\ f[n - 1].favs \cap (TitleIDs \cup {NoTitle}) # {}
             /\ \A t \in f[n - 1].favs \ f[n].favs :
                   \E m \in RowsIn(cat, S) :
                      /\ titles[m] = t /\ TitleBy(cat, m) # t
                      /\ \A r \in Releases : done.titles[r] = t =>
                            r \in RowsIn(cat, S) /\ cat[r].sort # cat[m].sort
  <2> DEFINE prev == f[n - 1]
             next == f[n]
             F == Family(cat, sorts[n])
  <2>1. n - 1 \in 0..N /\ n - 1 < n /\ n \in 0..N /\ sorts[n] \in S
    BY <1>2
  <2>2. /\ prev.titles \in TitleRows
        /\ \A r \in Releases : prev.titles[r] =
              IF r \in DoneRows(cat, sorts, n - 1) THEN TitleBy(cat, r) ELSE titles[r]
        /\ \A r \in Releases : next.titles[r] =
              IF r \in DoneRows(cat, sorts, n) THEN TitleBy(cat, r) ELSE titles[r]
    BY <2>1, <1>1 DEF N
  <2>3. next = FamilyDone(cat, prev, sorts[n])
    BY <1>1 DEF N
  <2> HIDE DEF prev, next
  <2>4. /\ \A r \in Releases : next.titles[r] =
              IF r \in F THEN TitleBy(cat, r) ELSE prev.titles[r]
        /\ \E movers \in SUBSET Releases :
              /\ \A r : r \in movers <=> r \in F /\ TitleBy(cat, r) # prev.titles[r]
              /\ next.favs = MovedFavourites(prev.favs, movers, prev.titles, next.titles)
    BY <2>2, <2>3, FamilyDoneIs
  <2>0. PICK movers \in SUBSET Releases :
              /\ \A r : r \in movers <=> r \in F /\ TitleBy(cat, r) # prev.titles[r]
              /\ next.favs = MovedFavourites(prev.favs, movers, prev.titles, next.titles)
    BY <2>4
  <2>5. movers \in SUBSET Releases /\ \A r \in F : r \in Releases /\ r \in RowsIn(cat, S)
                                                  /\ cat[r].sort = sorts[n]
    BY <2>1 DEF Family, RowsIn
  <2>6. /\ \A x \in next.favs : x \in prev.favs \/ \E r \in movers : x = next.titles[r] /\ prev.titles[r] \in prev.favs
        /\ \A t \in prev.favs \ next.favs :
              (\E r \in movers : prev.titles[r] = t) /\ \A r \in Releases : next.titles[r] # t
    <3>1. FavouritesMove(prev.favs, next.favs, movers, prev.titles, next.titles)
      BY <2>0, MovedFavouritesAre
    <3> QED BY <3>1 DEF FavouritesMove
  <2> HIDE DEF F
  <2>7. \A r \in movers : r \in F /\ next.titles[r] = TitleBy(cat, r)
                            /\ TitleBy(cat, r) # prev.titles[r]
    BY <2>0, <2>4, <2>5
  <2>8. \A x \in next.favs : \/ x \in prev.favs
                              \/ /\ \E r \in RowsIn(cat, S) : x = TitleBy(cat, r)
                                 /\ prev.favs \cap (TitleIDs \cup {NoTitle}) # {}
    <3>1. \A r \in Releases : prev.titles[r] \in TitleIDs \cup {NoTitle}
      BY <2>2 DEF TitleRows
    <3> QED BY <3>1, <2>5, <2>6, <2>7
  <2>9. \A r \in F : r \notin DoneRows(cat, sorts, n - 1)
    <3> SUFFICES ASSUME NEW r \in F, NEW k \in 1..(n - 1), cat[r].sort = sorts[k] PROVE FALSE
      BY DEF DoneRows
    <3>1. k \in 1..N /\ n \in 1..N /\ k # n
      BY <1>2
    <3> QED BY <3>1, <2>5, <1>2
  <2>10. ASSUME NEW t \in prev.favs \ next.favs
         PROVE  \E m \in RowsIn(cat, S) :
                  /\ titles[m] = t /\ TitleBy(cat, m) # t
                  /\ \A r \in Releases : done.titles[r] = t =>
                        r \in RowsIn(cat, S) /\ cat[r].sort # cat[m].sort
    <3>1. PICK m \in movers : prev.titles[m] = t
      BY <2>6
    <3>2. m \in F /\ titles[m] = t /\ TitleBy(cat, m) # t
      BY <3>1, <2>2, <2>5, <2>7, <2>9
    <3>3. ASSUME NEW r \in Releases, done.titles[r] = t
          PROVE  r \in RowsIn(cat, S) /\ cat[r].sort # cat[m].sort
      <4>1. next.titles[r] # t
        BY <2>6
      <4>2. r \in RowsIn(cat, S)
        <5>1. ASSUME r \notin RowsIn(cat, S) PROVE FALSE
          <6>1. r \notin DoneRows(cat, sorts, n)
            BY <5>1, <1>2 DEF DoneRows, RowsIn
          <6> QED BY <5>1, <6>1, <4>1, <3>3, <2>2, <1>4
        <5> QED BY <5>1
      <4>3. r \notin F
        <5>1. ASSUME r \in F PROVE FALSE
          BY <5>1, <4>1, <4>2, <3>3, <2>4, <1>4
        <5> QED BY <5>1
      <4>4. cat[r].sort # sorts[n]
        BY <4>2, <4>3 DEF RowsIn, Family, F
      <4> QED BY <4>2, <4>4, <3>2, <2>5
    <3> QED BY <3>2, <3>3, <2>5
  <2> QED BY <2>1, <2>8, <2>10 DEF prev, next
<1> DEFINE New(x) == \/ x \in favs
                     \/ /\ \E r \in RowsIn(cat, S) : x = TitleBy(cat, r)
                        /\ favs \cap (TitleIDs \cup {NoTitle}) # {}
           Left(t) == \E m \in RowsIn(cat, S) :
                      /\ titles[m] = t /\ TitleBy(cat, m) # t
                      /\ \A r \in Releases : done.titles[r] = t =>
                            r \in RowsIn(cat, S) /\ cat[r].sort # cat[m].sort
           bad == {n \in 0..N : ~ /\ \A x \in f[n].favs : New(x)
                                  /\ \A t \in favs \ f[n].favs : Left(t)}
<1>6. ASSUME NEW n \in 1..N
      PROVE  /\ n - 1 \in 0..N /\ n - 1 < n
             /\ (\A x \in f[n - 1].favs : New(x)) => \A x \in f[n].favs : New(x)
             /\ \A t \in f[n - 1].favs \ f[n].favs : Left(t)
  <2>1. ASSUME \A x \in f[n - 1].favs : New(x), NEW x \in f[n].favs PROVE New(x)
    <3>1. CASE x \in f[n - 1].favs
      <4> HIDE DEF New
      <4> QED BY <2>1, <3>1
    <3>2. CASE x \notin f[n - 1].favs
      <4>1. PICK y : y \in f[n - 1].favs /\ y \in TitleIDs \cup {NoTitle}
        BY <3>2, <1>5
      <4>2. New(y)
        <5> HIDE DEF New
        <5> QED BY <2>1, <4>1
      <4>3. favs \cap (TitleIDs \cup {NoTitle}) # {}
        BY <4>1, <4>2
      <4>4. \E r \in RowsIn(cat, S) : x = TitleBy(cat, r)
        BY <3>2, <1>5
      <4> QED BY <4>3, <4>4
    <3> QED BY <3>1, <3>2
  <2>2. n - 1 \in 0..N /\ n - 1 < n
    BY <1>5
  <2>3. \A t \in f[n - 1].favs \ f[n].favs : Left(t)
    BY <1>5
  <2> HIDE DEF New, Left
  <2> QED BY <2>1, <2>2, <2>3
<1> HIDE DEF New, Left
<1>7. bad = {}
  <2> SUFFICES ASSUME bad # {} PROVE FALSE
    OBVIOUS
  <2>0. bad \in SUBSET Nat
    BY <1>2
  <2>1. PICK n \in bad : \A m \in bad : n <= m
    <3> HIDE DEF bad
    <3> QED BY <2>0, LeastOf
  <2>2. n \in 0..N /\ ~ /\ \A x \in f[n].favs : New(x)
                        /\ \A t \in favs \ f[n].favs : Left(t)
    BY <2>1
  <2>3. CASE n = 0
    <3>1. \A x \in favs : New(x)
      BY DEF New
    <3> QED BY <2>2, <2>3, <3>1, <1>1
  <2>4. CASE n # 0
    <3>1. n \in 1..N
      BY <2>2, <2>4, <1>2
    <3>2. n - 1 \in 0..N /\ n - 1 < n
      BY <3>1, <1>2
    <3>3. n - 1 \notin bad
      <4> HIDE DEF bad
      <4>1. ASSUME n - 1 \in bad PROVE FALSE
        <5>1. n <= n - 1
          BY <4>1, <2>1
        <5> QED BY <5>1, <3>1, <1>2
      <4> QED BY <4>1
    <3>4. /\ \A x \in f[n - 1].favs : New(x)
          /\ \A t \in favs \ f[n - 1].favs : Left(t)
      BY <3>2, <3>3
    <3> HIDE DEF bad
    <3> QED BY <2>2, <3>1, <3>4, <1>6
  <2> QED BY <2>3, <2>4
<1>8. /\ \A x \in done.favs : New(x)
      /\ \A t \in favs \ done.favs : Left(t)
  BY <1>2, <1>3, <1>7
<1> QED BY <1>8 DEF New, Left

(* ... and a title has left the favourites when all its releases were in   *)
(* one family and have gone to one title.                                  *)
LEMMA ReconciledLeaves ==
  ASSUME NEW cat \in Catalogs, NEW titles \in TitleRows, NEW favs,
         NEW S, NEW sorts, Enumerates(sorts, S),
         NEW done, done = Reconciled(cat, titles, favs, sorts),
         NEW sort \in S, NEW t, NEW u,
         \A r \in RowsIn(cat, S) : TitleBy(cat, r) # t,
         \E r \in Family(cat, sort) : titles[r] = t,
         \A r \in Releases : titles[r] = t => r \in Family(cat, sort) /\ TitleBy(cat, r) = u
  PROVE  t \notin done.favs
<1> DEFINE N == Len(sorts)
<1>1. PICK f : /\ Reconciled(cat, titles, favs, sorts) = f[Len(sorts)]
               /\ \A n \in 1..Len(sorts) : f[n] = FamilyDone(cat, f[n - 1], sorts[n])
               /\ \A k \in 0..Len(sorts) :
                     /\ f[k].titles \in TitleRows
                     /\ \A r \in Releases : f[k].titles[r] =
                           IF r \in DoneRows(cat, sorts, k) THEN TitleBy(cat, r) ELSE titles[r]
  BY ReconciledIs
<1>2. /\ N \in Nat /\ S = {sorts[i] : i \in 1..N}
      /\ \A i, j \in 1..N : sorts[i] = sorts[j] => i = j
  BY DEF Enumerates, ToSet, IsInjective
<1>3. done = f[N]
  BY <1>1
<1>4. PICK i \in 1..N : sorts[i] = sort
  BY <1>2
<1> HIDE DEF N
<1>5. ASSUME NEW n \in 1..N
      PROVE  /\ t \notin f[n - 1].favs => t \notin f[n].favs
             /\ n = i => t \notin f[n].favs
  <2> DEFINE prev == f[n - 1]
             next == f[n]
             F == Family(cat, sorts[n])
  <2>1. n - 1 \in 0..N /\ n - 1 < n /\ n \in 0..N /\ sorts[n] \in S
    BY <1>2
  <2>2. /\ prev.titles \in TitleRows
        /\ \A r \in Releases : prev.titles[r] =
              IF r \in DoneRows(cat, sorts, n - 1) THEN TitleBy(cat, r) ELSE titles[r]
        /\ \A r \in Releases : next.titles[r] =
              IF r \in DoneRows(cat, sorts, n) THEN TitleBy(cat, r) ELSE titles[r]
    BY <2>1, <1>1 DEF N
  <2>3. next = FamilyDone(cat, prev, sorts[n])
    BY <1>1 DEF N
  <2> HIDE DEF prev, next
  <2>4. /\ \A r \in Releases : next.titles[r] =
              IF r \in F THEN TitleBy(cat, r) ELSE prev.titles[r]
        /\ \E movers \in SUBSET Releases :
              /\ \A r : r \in movers <=> r \in F /\ TitleBy(cat, r) # prev.titles[r]
              /\ next.favs = MovedFavourites(prev.favs, movers, prev.titles, next.titles)
    BY <2>2, <2>3, FamilyDoneIs
  <2>0. PICK movers \in SUBSET Releases :
              /\ \A r : r \in movers <=> r \in F /\ TitleBy(cat, r) # prev.titles[r]
              /\ next.favs = MovedFavourites(prev.favs, movers, prev.titles, next.titles)
    BY <2>4
  <2>5. movers \in SUBSET Releases /\ \A r \in F : r \in Releases /\ r \in RowsIn(cat, S)
                                                  /\ cat[r].sort = sorts[n]
    BY <2>1 DEF Family, RowsIn
  <2>6. /\ \A x \in next.favs : x \in prev.favs \/ \E r \in movers : x = next.titles[r]
        /\ \A v, w : /\ \E r \in movers : prev.titles[r] = v
                     /\ \A r \in movers : prev.titles[r] = v => next.titles[r] = w
                     /\ \A r \in Releases : next.titles[r] # v
                     => v \notin next.favs
    <3>1. FavouritesMove(prev.favs, next.favs, movers, prev.titles, next.titles)
      BY <2>0, MovedFavouritesAre
    <3> QED BY <3>1 DEF FavouritesMove
  <2> HIDE DEF F
  <2>7. \A r \in movers : r \in F /\ next.titles[r] = TitleBy(cat, r)
                            /\ TitleBy(cat, r) # t
    BY <2>0, <2>4, <2>5
  <2>8. ASSUME t \notin prev.favs PROVE t \notin next.favs
    BY <2>6, <2>7, <2>8
  <2>9. ASSUME n = i PROVE t \notin next.favs
    <3>1. F = Family(cat, sort)
      BY <2>9, <1>4 DEF F
    <3>2. \A r \in F : r \notin DoneRows(cat, sorts, n - 1)
      <4> SUFFICES ASSUME NEW r \in F, NEW k \in 1..(n - 1), cat[r].sort = sorts[k] PROVE FALSE
        BY DEF DoneRows
      <4>1. k \in 1..N /\ n \in 1..N /\ k # n
        BY <1>2
      <4> QED BY <4>1, <2>5, <1>2
    <3>3. \A r \in Releases : prev.titles[r] = t => r \in F /\ TitleBy(cat, r) = u
      <4> SUFFICES ASSUME NEW r \in Releases, prev.titles[r] = t
                   PROVE  r \in F /\ TitleBy(cat, r) = u
        OBVIOUS
      <4>1. r \notin DoneRows(cat, sorts, n - 1)
        <5>1. DoneRows(cat, sorts, n - 1) \subseteq RowsIn(cat, S)
          BY <1>2 DEF DoneRows, RowsIn
        <5> QED BY <5>1, <2>2
      <4> QED BY <4>1, <3>1, <2>2
    <3>4. PICK r \in F : titles[r] = t
      BY <3>1
    <3>5. r \in movers /\ prev.titles[r] = t
      BY <3>2, <3>4, <2>0, <2>2, <2>5
    <3>6. \A q \in movers : prev.titles[q] = t => next.titles[q] = u
      BY <3>3, <2>5, <2>7
    <3>7. \A q \in Releases : next.titles[q] # t
      <4> SUFFICES ASSUME NEW q \in Releases, next.titles[q] = t PROVE FALSE
        OBVIOUS
      <4>1. CASE q \in F
        BY <4>1, <2>4, <2>5
      <4>2. CASE q \notin F
        BY <4>2, <3>3, <2>4
      <4> QED BY <4>1, <4>2
    <3> QED BY <3>5, <3>6, <3>7, <2>6
  <2> QED BY <2>8, <2>9 DEF prev, next
<1> DEFINE bad == {n \in i..N : t \in f[n].favs}
<1>6. bad = {}
  <2> SUFFICES ASSUME bad # {} PROVE FALSE
    OBVIOUS
  <2>0. bad \in SUBSET Nat
    BY <1>2
  <2>1. PICK n \in bad : \A m \in bad : n <= m
    <3> HIDE DEF bad
    <3> QED BY <2>0, LeastOf
  <2>2. n \in i..N /\ n \in 1..N /\ t \in f[n].favs
    BY <2>1, <1>2
  <2>3. n # i
    BY <2>2, <1>5
  <2>4. n - 1 \in i..N /\ n - 1 < n
    BY <2>2, <2>3, <1>2
  <2>5. n - 1 \notin bad
    <3> HIDE DEF bad
    <3>1. ASSUME n - 1 \in bad PROVE FALSE
      <4>1. n <= n - 1
        BY <3>1, <2>1
      <4> QED BY <4>1, <2>2, <1>2
    <3> QED BY <3>1
  <2> QED BY <2>2, <2>4, <2>5, <1>5
<1> QED BY <1>2, <1>3, <1>6

(* What a row's title depends on: the rows of its family, and of itself    *)
(* only the year when it has no IMDb id.                                   *)
LEMMA SameEvidence ==
  ASSUME NEW cat \in Catalogs, NEW s, NEW r \in Family(cat, s), NEW q \in Family(cat, s),
         cat[q].year = cat[r].year, cat[r].imdb = NoIMDb
  PROVE  /\ cat[q].imdb = NoIMDb => TitleBy(cat, q) = TitleBy(cat, r)
         /\ cat[q].imdb # NoIMDb =>
              \/ TitleBy(cat, r) = <<"imdb", cat[q].imdb>>
              \/ TitleBy(cat, r) = <<"name", cat[r].sort, cat[r].year>>
<1> DEFINE F == Family(cat, s)
           y == cat[r].year
<1>1. cat[r].sort = s /\ cat[q].sort = s /\ r \in F /\ q \in F
  BY DEF Family
<1>2. TitleBy(cat, r) = TitleIn(cat, F, r) /\ TitleBy(cat, q) = TitleIn(cat, F, q)
  BY <1>1 DEF TitleBy
<1> HIDE DEF F
<1>3. CASE cat[q].imdb = NoIMDb
  <2>1. IdIn(cat, F, q) = IdIn(cat, F, r)
    BY <1>3 DEF IdIn
  <2> QED BY <1>1, <1>2, <1>3, <2>1 DEF TitleIn
<1>4. CASE cat[q].imdb # NoIMDb
  <2>1. cat[q].imdb \in IdsIn(cat, F)
    BY <1>1, <1>4 DEF IdsIn
  <2>2. y = 0 \/ y \in YearsIn(cat, F, cat[q].imdb)
    BY <1>1 DEF YearsIn
  <2>3. cat[q].imdb \in FitIds(cat, F, y)
    BY <2>1, <2>2 DEF FitIds
  <2>4. \A i : FitIds(cat, F, y) = {i} => i = cat[q].imdb
    BY <2>3
  <2>5. IdIn(cat, F, r) \in {NoIMDb, cat[q].imdb}
    <3>1. CASE \E i \in IdsIn(cat, F) : FitIds(cat, F, y) = {i}
      <4> DEFINE j == CHOOSE i \in IdsIn(cat, F) : FitIds(cat, F, y) = {i}
      <4>1. FitIds(cat, F, y) = {j}
        BY <3>1
      <4>2. IdIn(cat, F, r) = j
        BY <3>1 DEF IdIn
      <4> HIDE DEF j, y
      <4> QED BY <4>1, <4>2, <2>4
    <3>2. CASE ~\E i \in IdsIn(cat, F) : FitIds(cat, F, y) = {i}
      BY <3>2 DEF IdIn
    <3> QED BY <3>1, <3>2
  <2> QED BY <1>2, <1>4, <2>5 DEF TitleIn
<1> QED BY <1>3, <1>4

LEMMA TitleByStays ==
  ASSUME NEW cat \in Catalogs, NEW new \in Catalogs, NEW s,
         Family(new, s) = Family(cat, s), \A r \in Family(cat, s) : new[r] = cat[r]
  PROVE  \A r \in Family(cat, s) : TitleBy(new, r) = TitleBy(cat, r)
<1> DEFINE F == Family(cat, s)
<1>1. \A r \in F : cat[r].sort = s /\ new[r].sort = s
  BY DEF Family
<1>2. \A r \in F : TitleBy(cat, r) = TitleIn(cat, F, r) /\ TitleBy(new, r) = TitleIn(new, F, r)
  BY <1>1 DEF TitleBy
<1>3. \A r \in F : new[r] = cat[r]
  OBVIOUS
<1> HIDE DEF F
<1>4. IdsIn(new, F) = IdsIn(cat, F)
  <2>1. {new[r].imdb : r \in F} = {cat[r].imdb : r \in F}
    BY <1>3
  <2> QED BY <2>1 DEF IdsIn
<1>5. ASSUME NEW i PROVE YearsIn(new, F, i) = YearsIn(cat, F, i)
  <2>1. \A y : (\E q \in F : new[q].imdb = i /\ y = new[q].year)
                 <=> (\E q \in F : cat[q].imdb = i /\ y = cat[q].year)
    BY <1>3
  <2> QED BY <2>1 DEF YearsIn
<1>6. ASSUME NEW y PROVE FitIds(new, F, y) = FitIds(cat, F, y)
  BY <1>4, <1>5 DEF FitIds
<1>7. ASSUME NEW r \in F PROVE TitleBy(new, r) = TitleBy(cat, r)
  <2> DEFINE y == cat[r].year
             pick(ids) == CHOOSE i \in ids : FitIds(cat, F, y) = {i}
  <2>1. new[r] = cat[r]
    BY <1>3
  <2>2. FitIds(new, F, y) = FitIds(cat, F, y)
    BY <1>6
  <2>3. IdIn(new, F, r) = IdIn(cat, F, r)
    BY <1>4, <2>1, <2>2 DEF IdIn
  <2> QED BY <1>2, <2>1, <2>3 DEF TitleIn
<1> QED BY <1>7 DEF F

(* The sorts of a set of releases can be listed.                           *)
LEMMA SortsAreFinite ==
  ASSUME NEW R \in SUBSET Releases, NEW f, NEW S, S = {f[r] : r \in R}
  PROVE  IsFiniteSet(S)
<1> DEFINE h == [r \in R |-> f[r]]
<1>1. IsFiniteSet(R)
  BY CatalogAssumption, FS_Subset
<1>2. h \in Surjection(R, S)
  BY DEF Surjection
<1> HIDE DEF h
<1> QED BY <1>1, <1>2, FS_Surjection

(* One title is not another.                                               *)
LEMMA TitlesDiffer ==
  /\ NoTitle \notin TitleIDs
  /\ \A r : ReleaseID(r) \notin TitleIDs /\ ReleaseID(r) # NoTitle
  /\ \A r, q : ReleaseID(r) = ReleaseID(q) => r = q
  /\ \A r : ReleaseID(r)[2] = r
  /\ \A i, s, y : <<"imdb", i>> # <<"name", s, y>>
  /\ \A i, j : <<"imdb", i>> = <<"imdb", j>> => i = j
  /\ \A s, y, u, v : <<"name", s, y>> = <<"name", u, v>> => s = u /\ y = v
  /\ \A t \in TitleIDs : (\E i \in IMDbIDs : t = <<"imdb", i>>)
                           \/ \E s \in SortTitles, y \in Years : t = <<"name", s, y>>
<1>1. \A t \in TitleIDs : (\E i \in IMDbIDs : t = <<"imdb", i>>)
                           \/ \E s \in SortTitles, y \in Years : t = <<"name", s, y>>
  BY DEF TitleIDs
<1>2. \A i, s, y : <<"imdb", i>> # <<"name", s, y>>
  OBVIOUS
<1>3. NoTitle \notin TitleIDs
  BY <1>1 DEF NoTitle
<1>4. \A r : ReleaseID(r) \notin TitleIDs
  BY <1>1 DEF ReleaseID
<1>5. \A r : ReleaseID(r) # NoTitle
  BY DEF ReleaseID, NoTitle
<1>6. /\ \A r, q : ReleaseID(r) = ReleaseID(q) => r = q
      /\ \A r : ReleaseID(r)[2] = r
  BY DEF ReleaseID
<1> QED BY <1>1, <1>2, <1>3, <1>4, <1>5, <1>6

LEMMA ReportIs ==
  /\ Unknown \notin Report /\ Unknown.imdb = NoIMDb
  /\ \A x \in Report : x # Unknown /\ x.sort \in SortTitles /\ CatalogTitleID(x) \in TitleIDs
<1>1. Unknown \notin Report /\ Unknown.imdb = NoIMDb
  <2>1. Unknown.sort = "unknown" /\ Unknown.imdb = NoIMDb
    BY DEF Unknown
  <2>2. \A x \in Report : x.sort \in SortTitles
    BY DEF Report
  <2> QED BY <2>1, <2>2, CatalogAssumption
<1>2. ASSUME NEW x \in Report PROVE x.sort \in SortTitles /\ CatalogTitleID(x) \in TitleIDs
  <2>1. x.sort \in SortTitles /\ x.year \in Years /\ x.imdb \in IMDbIDs \cup {NoIMDb}
    BY DEF Report
  <2>2. CASE x.imdb = NoIMDb
    <3>1. CatalogTitleID(x) = <<"name", x.sort, x.year>>
      BY <2>2 DEF CatalogTitleID
    <3> QED BY <2>1, <3>1 DEF TitleIDs
  <2>3. CASE x.imdb # NoIMDb
    <3>1. CatalogTitleID(x) = <<"imdb", x.imdb>> /\ x.imdb \in IMDbIDs
      BY <2>1, <2>3 DEF CatalogTitleID
    <3> QED BY <2>1, <3>1 DEF TitleIDs
  <2> QED BY <2>1, <2>2, <2>3
<1> QED BY <1>1, <1>2

LEMMA UpsertedIs ==
  ASSUME NEW old \in Report \cup {Unknown}, NEW x \in Report
  PROVE  /\ Upserted(old, x) \in Report /\ Upserted(old, x) # Unknown
         /\ Upserted(old, x).sort = x.sort /\ Upserted(old, x).year = x.year
         /\ Upserted(old, x).imdb = IF x.imdb = NoIMDb THEN old.imdb ELSE x.imdb
         /\ old = x => Upserted(old, x) = x
<1>1. old.imdb \in IMDbIDs \cup {NoIMDb}
  BY ReportIs DEF Report
<1>2. /\ Upserted(old, x) \in Report
      /\ Upserted(old, x).sort = x.sort /\ Upserted(old, x).year = x.year
      /\ Upserted(old, x).imdb = IF x.imdb = NoIMDb THEN old.imdb ELSE x.imdb
  BY <1>1 DEF Upserted, Report
<1>3. old = x => Upserted(old, x) = x
  BY DEF Upserted, Report
<1> QED BY <1>2, <1>3, ReportIs

LEMMA UpsertRows ==
  ASSUME CatalogTypeOK, NEW batch, DOMAIN batch \in SUBSET Releases,
         \A r \in DOMAIN batch : batch[r] \in Report, Upsert(batch)
  PROVE  /\ catalog' \in Catalogs
         /\ \A r \in DOMAIN batch : /\ catalog'[r] = Upserted(catalog[r], batch[r])
                                    /\ catalog'[r].sort = batch[r].sort
                                    /\ r \in RowsIn(catalog', Touched(batch))
         /\ \A r \in Releases \ DOMAIN batch : catalog'[r] = catalog[r]
         /\ \A r \in Releases : catalog'[r] = Unknown => catalog[r] = Unknown
         /\ IsFiniteSet(Touched(batch)) /\ thinned' = thinned \ Touched(batch)
         /\ Touched(batch) \subseteq SortTitles
         /\ \A s : s \notin Touched(batch) =>
               /\ Family(catalog', s) = Family(catalog, s)
               /\ \A r \in Family(catalog, s) : r \notin DOMAIN batch /\ catalog'[r] = catalog[r]
<1> DEFINE D == DOMAIN batch
           T == Touched(batch)
           left == {b \in D : catalog[b] # Unknown}
<1>1. catalog \in Catalogs
  BY DEF CatalogTypeOK, Catalogs
<1>2. catalog' = [r \in Releases |-> IF r \in D THEN Upserted(catalog[r], batch[r]) ELSE catalog[r]]
  BY DEF Upsert
<1>3. ASSUME NEW r \in D
      PROVE  /\ r \in Releases /\ batch[r] \in Report /\ catalog[r] \in Report \cup {Unknown}
             /\ Upserted(catalog[r], batch[r]) \in Report
             /\ Upserted(catalog[r], batch[r]) # Unknown
             /\ Upserted(catalog[r], batch[r]).sort = batch[r].sort
  <2>1. r \in Releases /\ batch[r] \in Report /\ catalog[r] \in Report \cup {Unknown}
    BY <1>1 DEF Catalogs
  <2> QED BY <2>1, UpsertedIs
<1>4. T = {batch[r].sort : r \in D} \cup {catalog[r].sort : r \in left}
  BY DEF Touched
<1>5. \A r \in left : r \in D /\ catalog[r] \in Report
  BY <1>3
<1>6. IsFiniteSet(T)
  <2> DEFINE b == [r \in D |-> batch[r].sort]
             c == [r \in left |-> catalog[r].sort]
             B == {b[r] : r \in D}
             C == {c[r] : r \in left}
  <2>1. IsFiniteSet(B)
    <3> HIDE DEF b
    <3> QED BY SortsAreFinite
  <2>2. IsFiniteSet(C)
    <3>1. left \in SUBSET Releases
      BY <1>3
    <3> HIDE DEF c, left
    <3> QED BY <3>1, SortsAreFinite
  <2>3. T = B \cup C
    BY <1>4
  <2> HIDE DEF B, C, T
  <2> QED BY <2>1, <2>2, <2>3, FS_Union
<1>7. T \subseteq SortTitles
  <2>1. \A r \in D : batch[r].sort \in SortTitles
    BY ReportIs
  <2>2. \A r \in left : catalog[r].sort \in SortTitles
    BY <1>5, ReportIs
  <2> HIDE DEF T, left
  <2> QED BY <1>4, <2>1, <2>2
<1>8. thinned' = thinned \ T
  BY DEF Upsert
<1>9. /\ \A r \in D : batch[r].sort \in T
      /\ \A r \in D : catalog[r] # Unknown => catalog[r].sort \in T
  BY <1>4
<1> HIDE DEF T, left
<1>10. catalog' \in Catalogs
  BY <1>1, <1>2, <1>3 DEF Catalogs
<1>11. \A r \in D : /\ catalog'[r] = Upserted(catalog[r], batch[r]) /\ catalog'[r] # Unknown
                    /\ catalog'[r].sort = batch[r].sort
  BY <1>2, <1>3
<1>12. \A r \in Releases \ D : catalog'[r] = catalog[r]
  BY <1>2
<1>13. \A r \in D : r \in RowsIn(catalog', T)
  BY <1>3, <1>9, <1>11 DEF RowsIn
<1>14. ASSUME NEW s, s \notin T
       PROVE  /\ Family(catalog', s) = Family(catalog, s)
              /\ \A r \in Family(catalog, s) : r \notin D /\ catalog'[r] = catalog[r]
  <2>1. ASSUME NEW r \in Releases
        PROVE  catalog'[r] # Unknown /\ catalog'[r].sort = s <=> catalog[r] # Unknown /\ catalog[r].sort = s
    <3>1. CASE r \in D
      BY <3>1, <1>9, <1>11, <1>14
    <3>2. CASE r \notin D
      BY <3>2, <1>12
    <3> QED BY <3>1, <3>2
  <2>2. Family(catalog', s) = Family(catalog, s)
    BY <2>1 DEF Family
  <2>3. \A r \in Family(catalog, s) : r \in Releases /\ r \notin D
    BY <1>9, <1>14 DEF Family
  <2> QED BY <2>2, <2>3, <1>12
<1>15. \A r \in Releases : catalog'[r] = Unknown => catalog[r] = Unknown
  BY <1>11, <1>12
<1> QED BY <1>6, <1>7, <1>8, <1>10, <1>11, <1>12, <1>13, <1>14, <1>15 DEF T

(* How an upsert reconciles: from the titles that it projects, which are   *)
(* those of what was reported.                                             *)
Projects(batch, titles) ==
    /\ titles \in TitleRows
    /\ \A r \in Releases : titles[r] = IF r \in DOMAIN batch THEN CatalogTitleID(batch[r])
                                       ELSE titleOf[r]

LEMMA UpsertTitles ==
  ASSUME CatalogTypeOK, NEW batch, DOMAIN batch \in SUBSET Releases,
         \A r \in DOMAIN batch : batch[r] \in Report, Upsert(batch)
  PROVE  /\ \E titles, sorts, done :
              /\ Projects(batch, titles) /\ Enumerates(sorts, Touched(batch))
              /\ done = Reconciled(catalog', titles, favourites, sorts)
              /\ titleOf' = done.titles /\ favourites' = done.favs
         /\ titleOf' \in TitleRows
         /\ \A r \in Releases : titleOf'[r] =
               IF r \in RowsIn(catalog', Touched(batch)) THEN TitleBy(catalog', r) ELSE titleOf[r]
<1> DEFINE T == Touched(batch)
           new == catalog'
           titles == [r \in Releases |-> IF r \in DOMAIN batch THEN CatalogTitleID(batch[r])
                                         ELSE titleOf[r]]
<1>1. /\ new \in Catalogs /\ IsFiniteSet(T)
      /\ \A r \in DOMAIN batch : r \in RowsIn(new, T)
  BY UpsertRows
<1>2. Projects(batch, titles)
  <2>1. \A r \in DOMAIN batch : CatalogTitleID(batch[r]) \in TitleIDs
    BY ReportIs
  <2>2. titleOf \in TitleRows
    BY DEF CatalogTypeOK, TitleRows
  <2> QED BY <2>1, <2>2 DEF Projects, TitleRows
<1>3. PICK sorts \in SetToSeqs(T) :
         /\ titleOf' = Reconciled(new, titles, favourites, sorts).titles
         /\ favourites' = Reconciled(new, titles, favourites, sorts).favs
  BY DEF Upsert
<1>4. Enumerates(sorts, T)
  BY <1>1, <1>3, SetToSeqIs
<1> DEFINE done == Reconciled(new, titles, favourites, sorts)
<1> HIDE DEF titles, new, T
<1>5. titles \in TitleRows
  BY <1>2 DEF Projects
<1>6. /\ done.titles \in TitleRows
      /\ \A r \in Releases : done.titles[r] =
            IF r \in RowsIn(new, T) THEN TitleBy(new, r) ELSE titles[r]
  <2>1. done = Reconciled(new, titles, favourites, sorts)
    OBVIOUS
  <2> HIDE DEF done
  <2> QED BY <1>1, <1>4, <1>5, <2>1, ReconciledTitles
<1>7. titleOf' = done.titles /\ favourites' = done.favs
  BY <1>3
<1> HIDE DEF done
<1>8. \A r \in Releases : titleOf'[r] = IF r \in RowsIn(new, T) THEN TitleBy(new, r) ELSE titleOf[r]
  <2> SUFFICES ASSUME NEW r \in Releases
               PROVE  titleOf'[r] = IF r \in RowsIn(new, T) THEN TitleBy(new, r) ELSE titleOf[r]
    OBVIOUS
  <2>1. CASE r \in RowsIn(new, T)
    BY <2>1, <1>6, <1>7
  <2>2. CASE r \notin RowsIn(new, T)
    <3>1. r \notin DOMAIN batch
      BY <2>2, <1>1
    <3>2. titles[r] = titleOf[r]
      BY <3>1, <1>2 DEF Projects
    <3> QED BY <2>2, <3>2, <1>6, <1>7
  <2> QED BY <2>1, <2>2
<1>9. \E k, s, d : /\ Projects(batch, k) /\ Enumerates(s, T)
                   /\ d = Reconciled(new, k, favourites, s)
                   /\ titleOf' = d.titles /\ favourites' = d.favs
  BY <1>2, <1>4, <1>7 DEF done
<1> QED BY <1>6, <1>7, <1>8, <1>9 DEF new, T

(* What holds of the tables between the steps.  Every release that has a   *)
(* title is known; but for a database that nothing was backfilled in, each *)
(* known release has a title, and the one that its family gives it unless  *)
(* the family lost a release; the favourites of releases are all there, or *)
(* they are all favourites of titles.                                      *)
CatalogSettled ==
    \A r \in Releases : catalog[r] # Unknown =>
        /\ titleOf[r] \in TitleIDs
        /\ catalog[r].sort \notin thinned => titleOf[r] = TitleBy(catalog, r)

CatalogInv ==
    /\ CatalogTypeOK
    /\ \A r \in Releases : titleOf[r] # NoTitle => catalog[r] # Unknown
    /\ \/ opening = "closed" /\ \A r \in Releases : titleOf[r] = NoTitle
       \/ CatalogSettled
    /\ \A r \in Releases : ReleaseID(r) \in favourites => catalog[r] # Unknown
    /\ \/ favourites \subseteq TitleIDs
       \/ favourites \cap TitleIDs = {} /\ thinned = {} /\ opening \notin {"reconcile", "open"}
    /\ opening = "refused" =>
          \E r, q \in Releases : r # q /\ {ReleaseID(r), ReleaseID(q)} \subseteq favourites
                                         /\ titleOf[r] = titleOf[q]

(* What an upsert does to the titles and the favourites.                   *)
LEMMA UpsertKeeps ==
  ASSUME CatalogTypeOK, NEW batch, DOMAIN batch \in SUBSET Releases,
         \A r \in DOMAIN batch : batch[r] \in Report, Upsert(batch),
         \A r \in Releases : titleOf[r] # NoTitle => catalog[r] # Unknown,
         \A r \in Releases : catalog[r] # Unknown /\ titleOf[r] = NoTitle => r \in DOMAIN batch,
         CatalogSettled \/ \A r \in Releases : titleOf[r] = NoTitle
  PROVE  /\ catalog' \in Catalogs /\ titleOf' \in TitleRows /\ thinned' \subseteq thinned
         /\ CatalogSettled'
         /\ \A r \in Releases : titleOf'[r] # NoTitle => catalog'[r] # Unknown
         /\ favourites' \subseteq favourites \cup TitleIDs
         /\ favourites \subseteq TitleIDs => favourites' \subseteq TitleIDs
         /\ favourites \cap TitleIDs = {} => favourites' = favourites
<1> DEFINE T == Touched(batch)
           new == catalog'
<1>1. /\ new \in Catalogs /\ thinned' = thinned \ T
      /\ \A r \in DOMAIN batch : r \in RowsIn(new, T)
      /\ \A r \in Releases \ DOMAIN batch : new[r] = catalog[r]
      /\ \A r \in Releases : new[r] = Unknown => catalog[r] = Unknown
      /\ \A s : s \notin T =>
            /\ Family(new, s) = Family(catalog, s)
            /\ \A r \in Family(catalog, s) : r \notin DOMAIN batch /\ new[r] = catalog[r]
  BY UpsertRows
<1>2. /\ titleOf' \in TitleRows
      /\ \A r \in Releases : titleOf'[r] = IF r \in RowsIn(new, T) THEN TitleBy(new, r) ELSE titleOf[r]
  BY UpsertTitles
<1>3. PICK titles, sorts, done :
              /\ Projects(batch, titles) /\ Enumerates(sorts, T)
              /\ done = Reconciled(new, titles, favourites, sorts)
              /\ titleOf' = done.titles /\ favourites' = done.favs
  BY UpsertTitles
<1>4. catalog \in Catalogs
  BY DEF CatalogTypeOK, Catalogs
<1> HIDE DEF new, T
<1>5. \A r \in RowsIn(new, T) : r \in Releases /\ new[r] # Unknown /\ TitleBy(new, r) \in TitleIDs
  <2> SUFFICES ASSUME NEW r \in RowsIn(new, T)
               PROVE  r \in Releases /\ new[r] # Unknown /\ TitleBy(new, r) \in TitleIDs
    OBVIOUS
  <2>1. r \in Releases /\ new[r] # Unknown
    BY DEF RowsIn
  <2> QED BY <2>1, <1>1, TitleByIs
<1>6. ASSUME NEW r \in Releases, new[r] # Unknown
      PROVE  /\ titleOf'[r] \in TitleIDs
             /\ new[r].sort \notin thinned' => titleOf'[r] = TitleBy(new, r)
  <2>1. CASE r \in RowsIn(new, T)
    BY <2>1, <1>2, <1>5
  <2>2. CASE r \notin RowsIn(new, T)
    <3>1. r \notin DOMAIN batch /\ new[r].sort \notin T /\ titleOf'[r] = titleOf[r]
      BY <1>1, <1>2, <1>6, <2>2 DEF RowsIn
    <3>2. new[r] = catalog[r]
      BY <3>1, <1>1
    <3>3. titleOf[r] # NoTitle
      BY <3>1, <3>2, <1>6
    <3>4. titleOf[r] \in TitleIDs /\ (catalog[r].sort \notin thinned => titleOf[r] = TitleBy(catalog, r))
      BY <3>2, <3>3, <1>6 DEF CatalogSettled
    <3>5. TitleBy(new, r) = TitleBy(catalog, r)
      <4> DEFINE s == catalog[r].sort
      <4>1. /\ Family(new, s) = Family(catalog, s)
            /\ \A q \in Family(catalog, s) : new[q] = catalog[q]
        BY <3>1, <3>2, <1>1
      <4>2. r \in Family(catalog, s)
        BY <3>2, <1>6 DEF Family
      <4> HIDE DEF s
      <4> QED BY <4>1, <4>2, <1>1, <1>4, TitleByStays
    <3> QED BY <3>1, <3>2, <3>4, <3>5, <1>1
  <2> QED BY <2>1, <2>2
<1>7. CatalogSettled'
  BY <1>6 DEF CatalogSettled, new
<1>8. \A r \in Releases : titleOf'[r] # NoTitle => new[r] # Unknown
  <2> SUFFICES ASSUME NEW r \in Releases, titleOf'[r] # NoTitle, new[r] = Unknown PROVE FALSE
    OBVIOUS
  <2>1. titleOf'[r] = titleOf[r]
    BY <1>2, <1>5
  <2>2. catalog[r] # Unknown
    BY <2>1
  <2> QED BY <2>2, <1>1
<1>9. titles \in TitleRows
  BY <1>3 DEF Projects
<1>10. /\ \A x \in done.favs :
               \/ x \in favourites
               \/ /\ \E r \in RowsIn(new, T) : x = TitleBy(new, r)
                  /\ favourites \cap (TitleIDs \cup {NoTitle}) # {}
       /\ \A t \in favourites \ done.favs : \E m \in RowsIn(new, T) : titles[m] = t
  BY <1>1, <1>3, <1>9, ReconciledFavourites
<1>11. favourites' \subseteq favourites \cup TitleIDs
  BY <1>3, <1>5, <1>10
<1>12. ASSUME favourites \cap TitleIDs = {} PROVE favourites' = favourites
  <2>1. \A x \in favourites : x \notin TitleIDs \cup {NoTitle}
    BY <1>12, TitlesDiffer DEF CatalogTypeOK
  <2>2. \A x \in done.favs : x \in favourites
    BY <2>1, <1>10
  <2>3. \A r \in Releases : titles[r] \in TitleIDs \cup {NoTitle}
    BY <1>9 DEF TitleRows
  <2>4. \A t \in favourites : t \in done.favs
    BY <2>1, <2>3, <1>5, <1>10
  <2> QED BY <2>2, <2>4, <1>3
<1> QED BY <1>1, <1>2, <1>7, <1>8, <1>11, <1>12 DEF new

LEMMA CatalogInitOK == CatalogInit => CatalogInv
<1> SUFFICES ASSUME CatalogInit PROVE CatalogInv
  OBVIOUS
<1>1. PICK cat \in OldCatalogs \cup {<< >>} :
         /\ catalog = [r \in Releases |-> IF r \in DOMAIN cat THEN cat[r] ELSE Unknown]
         /\ \E liked \in SUBSET DOMAIN cat :
               favourites = {ReleaseID(r) : r \in liked} /\ favourited = Cardinality(liked)
  BY DEF CatalogInit
<1>2. PICK liked \in SUBSET DOMAIN cat :
         favourites = {ReleaseID(r) : r \in liked} /\ favourited = Cardinality(liked)
  BY <1>1
<1>3. titleOf = [r \in Releases |-> NoTitle] /\ thinned = {} /\ opening = "closed"
  BY DEF CatalogInit
<1>4. DOMAIN cat \subseteq Releases /\ \A r \in DOMAIN cat : cat[r] \in Report
  <2>1. CASE cat = << >>
    BY <2>1
  <2>2. CASE cat \in OldCatalogs
    BY <2>2, CatalogAssumption
  <2> QED BY <2>1, <2>2
<1>5. catalog \in [Releases -> Report \cup {Unknown}]
  BY <1>1, <1>4
<1>6. favourited \in Nat
  <2>1. liked \in SUBSET Releases
    BY <1>4
  <2> QED BY <1>2, <2>1, CatalogAssumption, FS_Subset, FS_CardinalityType
<1>7. CatalogTypeOK
  BY <1>2, <1>3, <1>4, <1>5, <1>6 DEF CatalogTypeOK
<1>8. \A r \in Releases : ReleaseID(r) \in favourites => catalog[r] # Unknown
  <2> SUFFICES ASSUME NEW r \in Releases, ReleaseID(r) \in favourites PROVE catalog[r] # Unknown
    OBVIOUS
  <2>1. r \in liked
    BY <1>2, TitlesDiffer
  <2>2. catalog[r] \in Report
    BY <2>1, <1>1, <1>4
  <2> QED BY <2>2, ReportIs
<1>9. favourites \cap TitleIDs = {}
  BY <1>2, TitlesDiffer
<1> QED BY <1>3, <1>7, <1>8, <1>9 DEF CatalogInv

LEMMA SettledIs ==
  ASSUME CatalogInv
  PROVE  /\ catalog \in Catalogs /\ titleOf \in TitleRows
         /\ opening # "closed" => CatalogSettled
         /\ opening \in {"reconcile", "open"} => favourites \subseteq TitleIDs
         /\ CatalogTypeOK
         /\ \A r \in Releases : titleOf[r] # NoTitle => catalog[r] # Unknown
         /\ CatalogSettled => \A r \in Releases : catalog[r] # Unknown => titleOf[r] # NoTitle
BY TitlesDiffer DEF CatalogInv, CatalogTypeOK, CatalogSettled, Catalogs, TitleRows

(* The batches that the operations upsert.                                 *)
LEMMA ReportedBatch ==
  ASSUME CatalogInv, NEW S \in Batches, NEW batch \in [S -> Reports], UpsertReleases(batch)
  PROVE  /\ DOMAIN batch \in SUBSET Releases /\ \A r \in DOMAIN batch : batch[r] \in Report
         /\ Upsert(batch) /\ opening = "open" /\ CatalogSettled /\ favourites \subseteq TitleIDs
         /\ \A r \in Releases : titleOf[r] # NoTitle => catalog[r] # Unknown
         /\ \A r \in Releases : catalog[r] # Unknown /\ titleOf[r] = NoTitle => r \in DOMAIN batch
         /\ UNCHANGED <<favourited, opening>>
<1>1. DOMAIN batch \in SUBSET Releases /\ \A r \in DOMAIN batch : batch[r] \in Report
  BY CatalogAssumption DEF Batches
<1>2. Upsert(batch) /\ opening = "open" /\ UNCHANGED <<favourited, opening>>
  BY DEF UpsertReleases
<1> QED BY <1>1, <1>2, SettledIs

LEMMA BackfillDoes ==
  ASSUME CatalogInv, BackfillReleases
  PROVE  /\ opening = "closed" /\ opening' = "favourites" /\ UNCHANGED <<catalog, favourited>>
         /\ \/ CatalogSettled /\ UNCHANGED <<titleOf, favourites, thinned>>
            \/ /\ \A r \in Releases : titleOf[r] = NoTitle
               /\ titleOf' \in TitleRows /\ thinned' \subseteq thinned /\ CatalogSettled'
               /\ \A r \in Releases : titleOf'[r] # NoTitle => catalog[r] # Unknown
               /\ favourites' \subseteq favourites \cup TitleIDs
               /\ favourites \subseteq TitleIDs => favourites' \subseteq TitleIDs
               /\ favourites \cap TitleIDs = {} => favourites' = favourites
<1> DEFINE old == {r \in Releases : catalog[r] # Unknown /\ titleOf[r] = NoTitle}
           batch == [r \in old |-> catalog[r]]
<1>1. opening = "closed" /\ opening' = "favourites" /\ UNCHANGED favourited
  BY DEF BackfillReleases
<1>2. CASE old = {}
  <2>1. UNCHANGED <<catalog, titleOf, favourites, thinned>>
    BY <1>2 DEF BackfillReleases
  <2>2. CatalogSettled
    <3>1. CASE \A r \in Releases : titleOf[r] = NoTitle
      BY <1>2, <3>1 DEF CatalogSettled
    <3> QED BY <3>1 DEF CatalogInv
  <2> QED BY <1>1, <2>1, <2>2
<1>3. CASE old # {}
  <2>1. Upsert(batch)
    BY <1>3 DEF BackfillReleases
  <2>2. /\ \A r \in Releases : titleOf[r] = NoTitle
        /\ catalog \in Catalogs /\ CatalogTypeOK
        /\ \A r \in Releases : titleOf[r] # NoTitle => catalog[r] # Unknown
    BY <1>3, SettledIs DEF CatalogInv
  <2>3. \A r \in old : r \in Releases /\ catalog[r] \in Report
    BY <2>2 DEF Catalogs
  <2>4. DOMAIN batch = old /\ \A r \in old : batch[r] = catalog[r]
    OBVIOUS
  <2>5. \A r \in Releases : catalog[r] # Unknown /\ titleOf[r] = NoTitle => r \in old
    OBVIOUS
  <2> HIDE DEF old, batch
  <2>6. /\ DOMAIN batch \in SUBSET Releases /\ \A r \in DOMAIN batch : batch[r] \in Report
        /\ \A r \in Releases : catalog[r] # Unknown /\ titleOf[r] = NoTitle => r \in DOMAIN batch
    BY <2>3, <2>4, <2>5
  <2>7. /\ titleOf' \in TitleRows /\ thinned' \subseteq thinned /\ CatalogSettled'
        /\ \A r \in Releases : titleOf'[r] # NoTitle => catalog'[r] # Unknown
        /\ favourites' \subseteq favourites \cup TitleIDs
        /\ favourites \subseteq TitleIDs => favourites' \subseteq TitleIDs
        /\ favourites \cap TitleIDs = {} => favourites' = favourites
    BY <2>1, <2>2, <2>6, UpsertKeeps
  <2>8. catalog' = catalog
    <3>1. /\ catalog' \in Catalogs
          /\ \A r \in DOMAIN batch : catalog'[r] = Upserted(catalog[r], batch[r])
          /\ \A r \in Releases \ DOMAIN batch : catalog'[r] = catalog[r]
      BY <2>1, <2>2, <2>6, UpsertRows
    <3>2. \A r \in DOMAIN batch : Upserted(catalog[r], batch[r]) = catalog[r]
      BY <2>3, <2>4, UpsertedIs
    <3>3. \A r \in Releases : catalog'[r] = catalog[r]
      BY <3>1, <3>2
    <3> QED BY <3>1, <3>3, <2>2 DEF Catalogs
  <2> QED BY <1>1, <2>2, <2>7, <2>8
<1> QED BY <1>2, <1>3

LEMMA ReconcileDoes ==
  ASSUME CatalogInv, ReconcileAllCatalogProjections
  PROVE  /\ opening = "reconcile" /\ opening' = "open" /\ thinned' = {}
         /\ UNCHANGED <<catalog, favourited>>
         /\ titleOf' \in TitleRows /\ favourites' \subseteq TitleIDs
         /\ \A r \in Releases : titleOf'[r] =
               IF catalog[r] # Unknown THEN TitleBy(catalog, r) ELSE titleOf[r]
<1> DEFINE known == {s \in Releases : catalog[s] # Unknown}
           S == {catalog[r].sort : r \in known}
<1>1. /\ opening = "reconcile" /\ opening' = "open" /\ thinned' = {}
      /\ UNCHANGED <<catalog, favourited>>
  BY DEF ReconcileAllCatalogProjections
<1>2. catalog \in Catalogs /\ titleOf \in TitleRows /\ favourites \subseteq TitleIDs
  BY <1>1, SettledIs
<1>3. PICK sorts \in SetToSeqs(S) :
         /\ titleOf' = Reconciled(catalog, titleOf, favourites, sorts).titles
         /\ favourites' = Reconciled(catalog, titleOf, favourites, sorts).favs
  BY DEF ReconcileAllCatalogProjections
<1>4. Enumerates(sorts, S)
  <2> DEFINE f == [r \in known |-> catalog[r].sort]
  <2>1. S = {f[r] : r \in known} /\ known \in SUBSET Releases
    OBVIOUS
  <2>2. IsFiniteSet(S)
    <3> HIDE DEF f, S, known
    <3> QED BY <2>1, SortsAreFinite
  <2> HIDE DEF S
  <2> QED BY <1>3, <2>2, SetToSeqIs
<1>5. \A r \in Releases : r \in RowsIn(catalog, S) <=> catalog[r] # Unknown
  BY DEF RowsIn
<1> HIDE DEF S
<1> DEFINE done == Reconciled(catalog, titleOf, favourites, sorts)
<1>6. done = Reconciled(catalog, titleOf, favourites, sorts)
  OBVIOUS
<1>7. titleOf' = done.titles /\ favourites' = done.favs
  BY <1>3
<1> HIDE DEF done
<1>8. /\ done.titles \in TitleRows
      /\ \A r \in Releases : done.titles[r] =
            IF r \in RowsIn(catalog, S) THEN TitleBy(catalog, r) ELSE titleOf[r]
  BY <1>2, <1>4, <1>6, ReconciledTitles
<1>9. \A x \in done.favs : x \in favourites \/ \E r \in RowsIn(catalog, S) : x = TitleBy(catalog, r)
  BY <1>2, <1>4, <1>6, ReconciledFavourites
<1>10. \A r \in RowsIn(catalog, S) : TitleBy(catalog, r) \in TitleIDs
  <2> SUFFICES ASSUME NEW r \in RowsIn(catalog, S) PROVE TitleBy(catalog, r) \in TitleIDs
    OBVIOUS
  <2>1. r \in Releases /\ catalog[r] # Unknown
    BY DEF RowsIn
  <2> QED BY <2>1, <1>2, TitleByIs
<1> QED BY <1>1, <1>2, <1>5, <1>7, <1>8, <1>9, <1>10

LEMMA UpsertReleasesOK ==
  ASSUME CatalogInv, NEW S \in Batches, NEW batch \in [S -> Reports], UpsertReleases(batch)
  PROVE  CatalogInv'
<1>1. /\ DOMAIN batch \in SUBSET Releases /\ \A r \in DOMAIN batch : batch[r] \in Report
      /\ Upsert(batch) /\ opening = "open" /\ CatalogSettled /\ favourites \subseteq TitleIDs
      /\ \A r \in Releases : titleOf[r] # NoTitle => catalog[r] # Unknown
      /\ \A r \in Releases : catalog[r] # Unknown /\ titleOf[r] = NoTitle => r \in DOMAIN batch
      /\ UNCHANGED <<favourited, opening>>
  BY ReportedBatch
<1>2. CatalogTypeOK
  BY SettledIs
<1>3. /\ catalog' \in Catalogs /\ titleOf' \in TitleRows /\ thinned' \subseteq thinned
      /\ CatalogSettled'
      /\ \A r \in Releases : titleOf'[r] # NoTitle => catalog'[r] # Unknown
      /\ favourites' \subseteq TitleIDs
  BY <1>1, <1>2, UpsertKeeps
<1>4. CatalogTypeOK'
  BY <1>1, <1>2, <1>3 DEF CatalogTypeOK, Catalogs, TitleRows
<1>5. \A r \in Releases : ReleaseID(r) \notin favourites'
  BY <1>3, TitlesDiffer
<1>6. opening' = "open"
  BY <1>1
<1> QED BY <1>3, <1>4, <1>5, <1>6 DEF CatalogInv

LEMMA BackfillReleasesOK == CatalogInv /\ BackfillReleases => CatalogInv'
<1> SUFFICES ASSUME CatalogInv, BackfillReleases PROVE CatalogInv'
  OBVIOUS
<1>1. opening = "closed" /\ opening' = "favourites" /\ UNCHANGED <<catalog, favourited>>
  BY BackfillDoes
<1>2. CASE CatalogSettled /\ UNCHANGED <<titleOf, favourites, thinned>>
  <2>1. CatalogSettled'
    BY <1>1, <1>2 DEF CatalogSettled
  <2>2. CatalogTypeOK'
    BY <1>1, <1>2 DEF CatalogTypeOK, CatalogInv
  <2> QED BY <1>1, <1>2, <2>1, <2>2 DEF CatalogInv
<1>3. CASE /\ titleOf' \in TitleRows /\ thinned' \subseteq thinned /\ CatalogSettled'
           /\ \A r \in Releases : titleOf'[r] # NoTitle => catalog[r] # Unknown
           /\ favourites' \subseteq favourites \cup TitleIDs
           /\ favourites \subseteq TitleIDs => favourites' \subseteq TitleIDs
           /\ favourites \cap TitleIDs = {} => favourites' = favourites
  <2>1. CatalogTypeOK'
    BY <1>1, <1>3 DEF CatalogTypeOK, CatalogInv, TitleRows
  <2>2. \A r \in Releases : ReleaseID(r) \in favourites' => catalog[r] # Unknown
    BY <1>3, TitlesDiffer DEF CatalogInv
  <2>3. \/ favourites' \subseteq TitleIDs
        \/ favourites' \cap TitleIDs = {} /\ thinned' = {}
    BY <1>3 DEF CatalogInv
  <2> QED BY <1>1, <1>3, <2>1, <2>2, <2>3 DEF CatalogInv
<1> QED BY <1>2, <1>3, BackfillDoes

(* What a favourite becomes: a title is one already, a release's is the    *)
(* title of that release.                                                  *)
LEMMA BackfillFavouritesDoes ==
  ASSUME CatalogInv, BackfillFavourites
  PROVE  /\ opening = "favourites" /\ CatalogSettled
         /\ UNCHANGED <<catalog, titleOf, favourited, thinned>>
         /\ \/ /\ opening' = "refused" /\ UNCHANGED favourites
               /\ \E r, q \in Releases : /\ r # q /\ titleOf[r] = titleOf[q]
                                         /\ {ReleaseID(r), ReleaseID(q)} \subseteq favourites
            \/ /\ opening' = "reconcile" /\ favourites' \subseteq TitleIDs
               /\ \A r \in Releases : ReleaseID(r) \in favourites => titleOf[r] \in favourites'
<1> DEFINE title(t) == IF t \in TitleIDs THEN t ELSE titleOf[t[2]]
           same == \E t, u \in favourites : t # u /\ title(t) = title(u)
<1>1. opening = "favourites" /\ UNCHANGED <<catalog, titleOf, favourited, thinned>>
  BY DEF BackfillFavourites
<1>2. CatalogSettled
  BY <1>1, SettledIs
<1>3. \A t \in favourites : t \in TitleIDs \/ \E r \in Releases : t = ReleaseID(r)
  BY DEF CatalogInv, CatalogTypeOK
<1>4. \A r : title(ReleaseID(r)) = titleOf[r]
  BY TitlesDiffer
<1>5. CASE same
  <2>1. opening' = "refused" /\ UNCHANGED favourites
    BY <1>5 DEF BackfillFavourites
  <2>2. PICK t \in favourites, u \in favourites : t # u /\ title(t) = title(u)
    BY <1>5
  <2>3. t \notin TitleIDs /\ u \notin TitleIDs
    <3>1. ASSUME favourites \subseteq TitleIDs PROVE FALSE
      BY <3>1, <2>2
    <3>2. favourites \cap TitleIDs = {}
      BY <3>1 DEF CatalogInv
    <3> QED BY <3>2
  <2>4. PICK r \in Releases : t = ReleaseID(r)
    BY <1>3, <2>3
  <2>5. PICK q \in Releases : u = ReleaseID(q)
    BY <1>3, <2>3
  <2>6. titleOf[r] = titleOf[q] /\ r # q
    <3> HIDE DEF title
    <3> QED BY <2>2, <2>4, <2>5, <1>4
  <2> QED BY <1>1, <1>2, <2>1, <2>2, <2>4, <2>5, <2>6
<1>6. CASE ~same
  <2>1. opening' = "reconcile" /\ favourites' = {title(t) : t \in favourites}
    BY <1>6 DEF BackfillFavourites
  <2>2. ASSUME NEW t \in favourites PROVE title(t) \in TitleIDs
    <3>1. CASE t \in TitleIDs
      BY <3>1
    <3>2. CASE t \notin TitleIDs
      <4>1. PICK r \in Releases : t = ReleaseID(r)
        BY <1>3, <3>2
      <4>2. catalog[r] # Unknown
        BY <4>1, <2>2 DEF CatalogInv
      <4>3. titleOf[r] \in TitleIDs
        BY <4>2, <1>2 DEF CatalogSettled
      <4> HIDE DEF title
      <4> QED BY <4>1, <4>3, <1>4
    <3> QED BY <3>1, <3>2
  <2> HIDE DEF title
  <2> QED BY <1>1, <1>2, <1>4, <2>1, <2>2
<1> QED BY <1>5, <1>6

LEMMA BackfillFavouritesOK == CatalogInv /\ BackfillFavourites => CatalogInv'
<1> SUFFICES ASSUME CatalogInv, BackfillFavourites PROVE CatalogInv'
  OBVIOUS
<1>1. CatalogSettled /\ UNCHANGED <<catalog, titleOf, favourited, thinned>>
  BY BackfillFavouritesDoes
<1>2. CatalogSettled'
  BY <1>1 DEF CatalogSettled
<1>3. CASE /\ opening' = "refused" /\ UNCHANGED favourites
           /\ \E r, q \in Releases : /\ r # q /\ titleOf[r] = titleOf[q]
                                     /\ {ReleaseID(r), ReleaseID(q)} \subseteq favourites
  BY <1>1, <1>2, <1>3 DEF CatalogInv, CatalogTypeOK
<1>4. CASE opening' = "reconcile" /\ favourites' \subseteq TitleIDs
  <2>1. \A r \in Releases : ReleaseID(r) \notin favourites'
    BY <1>4, TitlesDiffer
  <2> QED BY <1>1, <1>2, <1>4, <2>1 DEF CatalogInv, CatalogTypeOK
<1> QED BY <1>3, <1>4, BackfillFavouritesDoes

LEMMA SetFavoriteOK ==
  ASSUME CatalogInv, NEW t \in TitleIDs, NEW favourite \in BOOLEAN, SetFavorite(t, favourite)
  PROVE  CatalogInv'
<1>1. /\ opening = "open" /\ UNCHANGED <<catalog, titleOf, thinned, opening>>
      /\ favourited' \in {favourited, favourited + 1}
      /\ favourites' \subseteq favourites \cup {t}
  BY DEF SetFavorite
<1>2. CatalogSettled /\ favourites \subseteq TitleIDs /\ CatalogTypeOK
  BY <1>1, SettledIs
<1>3. CatalogSettled'
  BY <1>1, <1>2 DEF CatalogSettled
<1>4. favourites' \subseteq TitleIDs /\ favourited' \in Nat
  BY <1>1, <1>2 DEF CatalogTypeOK
<1>5. CatalogTypeOK' /\ opening' = "open"
  BY <1>1, <1>2, <1>4 DEF CatalogTypeOK
<1>6. \A r \in Releases : ReleaseID(r) \notin favourites'
  BY <1>4, TitlesDiffer
<1> QED BY <1>1, <1>3, <1>4, <1>5, <1>6 DEF CatalogInv

LEMMA RemoveReleaseOK ==
  ASSUME CatalogInv, NEW r \in Releases, RemoveRelease(r)
  PROVE  CatalogInv'
<1>1. /\ opening = "open" /\ catalog[r] # Unknown
      /\ catalog' = [catalog EXCEPT ![r] = Unknown] /\ titleOf' = [titleOf EXCEPT ![r] = NoTitle]
      /\ thinned' = thinned \cup {catalog[r].sort} /\ UNCHANGED <<favourites, favourited, opening>>
  BY DEF RemoveRelease
<1>2. /\ CatalogSettled /\ favourites \subseteq TitleIDs /\ CatalogTypeOK
      /\ catalog \in Catalogs /\ titleOf \in TitleRows
  BY <1>1, SettledIs
<1>3. /\ catalog' \in Catalogs /\ titleOf' \in TitleRows
      /\ catalog'[r] = Unknown /\ titleOf'[r] = NoTitle
      /\ \A q \in Releases \ {r} : catalog'[q] = catalog[q] /\ titleOf'[q] = titleOf[q]
  BY <1>1, <1>2 DEF Catalogs, TitleRows
<1>4. catalog[r].sort \in SortTitles
  BY <1>1, <1>2, ReportIs DEF Catalogs
<1>5. CatalogTypeOK'
  BY <1>1, <1>2, <1>3, <1>4 DEF CatalogTypeOK, Catalogs, TitleRows
<1> DEFINE new == catalog'
<1>6. new = catalog'
  OBVIOUS
<1> HIDE DEF new
<1>7. ASSUME NEW q \in Releases, new[q] # Unknown
      PROVE  /\ titleOf'[q] \in TitleIDs
             /\ new[q].sort \notin thinned' => titleOf'[q] = TitleBy(new, q)
  <2> DEFINE s == catalog[q].sort
  <2>1. q # r /\ new[q] = catalog[q] /\ titleOf'[q] = titleOf[q]
    BY <1>3, <1>6, <1>7
  <2>2. titleOf[q] \in TitleIDs /\ (s \notin thinned => titleOf[q] = TitleBy(catalog, q))
    BY <2>1, <1>2, <1>7 DEF CatalogSettled
  <2>3. ASSUME s \notin thinned' PROVE TitleBy(new, q) = TitleBy(catalog, q)
    <3>1. \A p \in Releases : /\ catalog[p] # Unknown /\ catalog[p].sort = s => p # r
      BY <2>3, <1>1
    <3>2. Family(new, s) = Family(catalog, s)
      BY <3>1, <1>3, <1>6 DEF Family
    <3>3. \A p \in Family(catalog, s) : new[p] = catalog[p]
      BY <3>1, <1>3, <1>6 DEF Family
    <3>4. q \in Family(catalog, s)
      BY <2>1, <1>7 DEF Family
    <3>5. new \in Catalogs
      BY <1>3, <1>6
    <3> HIDE DEF s
    <3> QED BY <3>2, <3>3, <3>4, <3>5, <1>2, TitleByStays
  <2> QED BY <2>1, <2>2, <2>3, <1>1
<1>8. CatalogSettled'
  BY <1>6, <1>7 DEF CatalogSettled
<1>9. \A q \in Releases : titleOf'[q] # NoTitle => catalog'[q] # Unknown
  BY <1>3 DEF CatalogInv
<1>10. \A q \in Releases : ReleaseID(q) \notin favourites'
  BY <1>1, <1>2, TitlesDiffer
<1> QED BY <1>1, <1>2, <1>5, <1>8, <1>9, <1>10 DEF CatalogInv

LEMMA ReconcileAllOK == CatalogInv /\ ReconcileAllCatalogProjections => CatalogInv'
<1> SUFFICES ASSUME CatalogInv, ReconcileAllCatalogProjections PROVE CatalogInv'
  OBVIOUS
<1>1. /\ opening' = "open" /\ thinned' = {}
      /\ UNCHANGED <<catalog, favourited>>
      /\ titleOf' \in TitleRows /\ favourites' \subseteq TitleIDs
      /\ \A r \in Releases : titleOf'[r] =
            IF catalog[r] # Unknown THEN TitleBy(catalog, r) ELSE titleOf[r]
  BY ReconcileDoes
<1>2. /\ CatalogTypeOK /\ catalog \in Catalogs
      /\ \A r \in Releases : titleOf[r] # NoTitle => catalog[r] # Unknown
  BY SettledIs
<1>3. \A r \in Releases : catalog[r] # Unknown => TitleBy(catalog, r) \in TitleIDs
  BY <1>2, TitleByIs
<1>4. CatalogSettled'
  BY <1>1, <1>3 DEF CatalogSettled
<1>5. CatalogTypeOK'
  BY <1>1, <1>2 DEF CatalogTypeOK, TitleRows
<1>6. \A r \in Releases : ReleaseID(r) \notin favourites'
  BY <1>1, TitlesDiffer
<1>7. \A r \in Releases : titleOf'[r] # NoTitle => catalog'[r] # Unknown
  BY <1>1, <1>2
<1> QED BY <1>1, <1>4, <1>5, <1>6, <1>7 DEF CatalogInv

LEMMA CatalogStepOK == CatalogInv /\ [CatalogNext]_catalogVars => CatalogInv'
<1> SUFFICES ASSUME CatalogInv, [CatalogNext]_catalogVars PROVE CatalogInv'
  OBVIOUS
<1>1. CASE UNCHANGED catalogVars
  BY <1>1 DEF CatalogInv, CatalogTypeOK, CatalogSettled, catalogVars
<1>2. CASE CloseCatalog
  <2>1. UNCHANGED <<catalog, titleOf, favourites, favourited, thinned>> /\ opening' = "closed"
    BY <1>2 DEF CloseCatalog
  <2>2. CatalogTypeOK' /\ (CatalogSettled => CatalogSettled')
    BY <2>1 DEF CatalogInv, CatalogTypeOK, CatalogSettled
  <2> QED BY <2>1, <2>2 DEF CatalogInv
<1>3. CASE \E S \in Batches : \E batch \in [S -> Reports] : UpsertReleases(batch)
  BY <1>3, UpsertReleasesOK
<1>4. CASE \E t \in TitleIDs, favourite \in BOOLEAN : SetFavorite(t, favourite)
  BY <1>4, SetFavoriteOK
<1>5. CASE \E r \in Releases : RemoveRelease(r)
  BY <1>5, RemoveReleaseOK
<1> QED BY <1>1, <1>2, <1>3, <1>4, <1>5, BackfillReleasesOK, BackfillFavouritesOK, ReconcileAllOK
        DEF CatalogNext

(* What the invariant gives of the titles and of the old favourites.       *)
LEMMA CatalogInvGives ==
  ASSUME CatalogInv
  PROVE  /\ CatalogTypeOK /\ TitlesAreResolved /\ OrderIndependent
         /\ opening = "open" => favourites \subseteq TitleIDs
         /\ opening = "refused" =>
               \E r, q \in Releases : r # q /\ {ReleaseID(r), ReleaseID(q)} \subseteq favourites
                                              /\ titleOf[r] = titleOf[q]
<1>1. /\ CatalogTypeOK /\ catalog \in Catalogs
      /\ opening = "open" => CatalogSettled /\ favourites \subseteq TitleIDs
  BY SettledIs
<1>2. ASSUME opening = "open" PROVE TitlesAreResolved
  <2>1. ASSUME NEW sort \in SortTitles \ thinned
        PROVE  LET resolved == ResolvedTitles(catalog, SetToSeq(Family(catalog, sort)))
               IN  \A r \in DOMAIN resolved : titleOf[r] = resolved[r]
    <3> DEFINE F == Family(catalog, sort)
               resolved == ResolvedTitles(catalog, SetToSeq(F))
    <3>1. resolved = [r \in F |-> TitleBy(catalog, r)]
      BY <1>1, FamilyIs
    <3>2. \A r \in F : titleOf[r] = TitleBy(catalog, r)
      BY <1>1, <1>2 DEF CatalogSettled, Family
    <3>3. DOMAIN resolved = F /\ \A r \in F : resolved[r] = TitleBy(catalog, r)
      <4> HIDE DEF resolved, F
      <4> QED BY <3>1
    <3> HIDE DEF F
    <3>4. \A r \in DOMAIN resolved : titleOf[r] = resolved[r]
      <4> HIDE DEF resolved
      <4> QED BY <3>2, <3>3
    <3> QED BY <3>4 DEF F
  <2> QED BY <2>1 DEF TitlesAreResolved
<1>3. OrderIndependent
  <2>1. ASSUME NEW sort \in SortTitles, NEW order \in SetToSeqs(Family(catalog, sort))
        PROVE  ResolvedTitles(catalog, order) = ResolvedTitles(catalog, SetToSeq(Family(catalog, sort)))
    <3> DEFINE F == Family(catalog, sort)
    <3>1. IsFiniteSet(F)
      BY <1>1, FamilyIs
    <3>2. Enumerates(order, F)
      <4> HIDE DEF F
      <4>1. order \in SetToSeqs(F)
        BY <2>1 DEF F
      <4> QED BY <3>1, <4>1, SetToSeqIs
    <3> DEFINE byTitle == [r \in F |-> TitleBy(catalog, r)]
    <3>3. ResolvedTitles(catalog, order) = byTitle
      BY <1>1, <3>2, FamilyIs
    <3>4. ResolvedTitles(catalog, SetToSeq(F)) = byTitle
      BY <1>1, FamilyIs
    <3> QED BY <3>3, <3>4
  <2> QED BY <2>1 DEF OrderIndependent
<1>4. TitlesAreResolved
  BY <1>2 DEF TitlesAreResolved
<1>5. opening = "refused" =>
         \E r, q \in Releases : r # q /\ {ReleaseID(r), ReleaseID(q)} \subseteq favourites
                                        /\ titleOf[r] = titleOf[q]
  BY DEF CatalogInv
<1> QED BY <1>1, <1>3, <1>4, <1>5

(* Favourites of releases leave in one step only, for their titles.        *)
OldFavouritesStep ==
    \A r \in Releases : ReleaseID(r) \in favourites \ favourites' =>
       LET family == SetToSeq(Family(catalog, catalog[r].sort))
       IN  ResolvedTitles(catalog, family)[r] \in favourites'

LEMMA OldFavouritesOK == CatalogInv /\ [CatalogNext]_catalogVars => OldFavouritesStep
<1> SUFFICES ASSUME CatalogInv, [CatalogNext]_catalogVars,
                    NEW r \in Releases, ReleaseID(r) \in favourites \ favourites'
             PROVE  LET family == SetToSeq(Family(catalog, catalog[r].sort))
                    IN  ResolvedTitles(catalog, family)[r] \in favourites'
  BY DEF OldFavouritesStep
<1>1. ~(favourites \subseteq TitleIDs) /\ opening \notin {"reconcile", "open"}
      /\ favourites \cap TitleIDs = {} /\ thinned = {}
  BY TitlesDiffer DEF CatalogInv
<1>2. BackfillFavourites
  <2>1. ~BackfillReleases
    <3> SUFFICES ASSUME BackfillReleases PROVE FALSE
      OBVIOUS
    <3>1. favourites' = favourites
      BY <1>1, BackfillDoes
    <3> QED BY <3>1
  <2>2. /\ ~UNCHANGED catalogVars /\ ~CloseCatalog
        /\ ~\E q \in Releases : RemoveRelease(q)
        /\ ~\E S \in Batches : \E batch \in [S -> Reports] : UpsertReleases(batch)
        /\ ~\E t \in TitleIDs, favourite \in BOOLEAN : SetFavorite(t, favourite)
        /\ ~ReconcileAllCatalogProjections
    BY <1>1 DEF catalogVars, CloseCatalog, RemoveRelease, UpsertReleases, SetFavorite,
                ReconcileAllCatalogProjections
  <2> QED BY <2>1, <2>2 DEF CatalogNext
<1>3. CatalogSettled /\ titleOf[r] \in favourites'
  BY <1>2, BackfillFavouritesDoes
<1>4. catalog[r] # Unknown /\ catalog \in Catalogs
  BY SettledIs DEF CatalogInv
<1>5. titleOf[r] = TitleBy(catalog, r)
  BY <1>1, <1>3, <1>4 DEF CatalogSettled
<1> DEFINE s == catalog[r].sort
           F == Family(catalog, s)
           resolved == ResolvedTitles(catalog, SetToSeq(F))
<1>6. resolved = [q \in F |-> TitleBy(catalog, q)]
  <2> HIDE DEF s
  <2> QED BY <1>4, FamilyIs
<1>7. r \in F
  BY <1>4 DEF Family
<1>8. resolved[r] = TitleBy(catalog, r)
  <2> HIDE DEF resolved, F
  <2> QED BY <1>6, <1>7
<1> QED BY <1>3, <1>5, <1>8

(* A favourite that leaves in a step that changes the catalog.             *)
FavouritesStayStep ==
    \A t \in favourites \ favourites' :
       \/ \A r \in Releases : titleOf'[r] # t
       \/ UNCHANGED catalog
       \/ Cardinality(NamesOf(t)) > 1

LEMMA TwoNames ==
  ASSUME NEW t, NEW a \in NamesOf(t), NEW b \in NamesOf(t), a # b
  PROVE  Cardinality(NamesOf(t)) > 1
<1> DEFINE before == {q \in Releases : titleOf[q] = t}
           after == {q \in Releases : titleOf'[q] = t}
           f == [r \in before |-> catalog[r].sort]
           g == [r \in after |-> catalog'[r].sort]
           A == {f[r] : r \in before}
           B == {g[r] : r \in after}
<1>1. NamesOf(t) = A \cup B
  BY DEF NamesOf
<1>2. IsFiniteSet(A)
  <2>1. before \in SUBSET Releases
    OBVIOUS
  <2> HIDE DEF f, before
  <2> QED BY <2>1, SortsAreFinite
<1>3. IsFiniteSet(B)
  <2>1. after \in SUBSET Releases
    OBVIOUS
  <2> HIDE DEF g, after
  <2> QED BY <2>1, SortsAreFinite
<1>4. IsFiniteSet(NamesOf(t))
  <2> HIDE DEF A, B
  <2> QED BY <1>1, <1>2, <1>3, FS_Union
<1> DEFINE n == NamesOf(t)
<1>5. IsFiniteSet(n) /\ a \in n /\ b \in n
  BY <1>4
<1> HIDE DEF n
<1>6. Cardinality(n) \in Nat
  BY <1>5, FS_CardinalityType
<1>7. Cardinality(n) # 0
  BY <1>5, FS_EmptySet
<1>8. Cardinality(n) # 1
  <2> SUFFICES ASSUME Cardinality(n) = 1 PROVE FALSE
    OBVIOUS
  <2>1. \E x : n = {x}
    BY <1>5, FS_Singleton
  <2> QED BY <2>1, <1>5
<1>9. Cardinality(n) > 1
  BY <1>6, <1>7, <1>8
<1> QED BY <1>9 DEF n

LEMMA FavouritesStayOK == CatalogInv /\ [CatalogNext]_catalogVars => FavouritesStayStep
<1> SUFFICES ASSUME CatalogInv, [CatalogNext]_catalogVars, NEW t \in favourites \ favourites',
                    ~UNCHANGED catalog, NEW r \in Releases, titleOf'[r] = t
             PROVE  Cardinality(NamesOf(t)) > 1
  BY DEF FavouritesStayStep
<1>1. PICK S \in Batches : \E batch \in [S -> Reports] : UpsertReleases(batch)
  <2>1. ~BackfillReleases
    <3>1. BackfillReleases => UNCHANGED catalog
      BY BackfillDoes
    <3> QED BY <3>1
  <2>2. /\ ~UNCHANGED catalogVars /\ ~CloseCatalog /\ ~BackfillFavourites
        /\ ~\E q \in Releases : RemoveRelease(q)
        /\ ~\E u \in TitleIDs, favourite \in BOOLEAN : SetFavorite(u, favourite)
        /\ ~ReconcileAllCatalogProjections
    BY DEF catalogVars, CloseCatalog, BackfillFavourites, RemoveRelease, SetFavorite,
           ReconcileAllCatalogProjections
  <2> QED BY <2>1, <2>2 DEF CatalogNext
<1>2. PICK batch \in [S -> Reports] : UpsertReleases(batch)
  BY <1>1
<1>3. /\ DOMAIN batch \in SUBSET Releases /\ \A q \in DOMAIN batch : batch[q] \in Report
      /\ Upsert(batch)
  BY <1>2, ReportedBatch
<1> DEFINE T == Touched(batch)
           new == catalog'
<1>4. CatalogTypeOK /\ catalog \in Catalogs
  BY SettledIs
<1>5. /\ new \in Catalogs
      /\ \A q \in DOMAIN batch : new[q] = Upserted(catalog[q], batch[q])
      /\ \A q \in Releases \ DOMAIN batch : new[q] = catalog[q]
  BY <1>3, <1>4, UpsertRows
<1>6. PICK titles, sorts, done :
         /\ Projects(batch, titles) /\ Enumerates(sorts, T)
         /\ done = Reconciled(new, titles, favourites, sorts)
         /\ titleOf' = done.titles /\ favourites' = done.favs
  BY <1>3, <1>4, UpsertTitles
<1>7. \A q \in Releases : titleOf'[q] = IF q \in RowsIn(new, T) THEN TitleBy(new, q) ELSE titleOf[q]
  BY <1>3, <1>4, UpsertTitles
<1>8. new = catalog'
  OBVIOUS
<1> HIDE DEF T, new
<1>9. PICK m \in RowsIn(new, T) :
         /\ titles[m] = t /\ TitleBy(new, m) # t
         /\ \A q \in Releases : done.titles[q] = t => q \in RowsIn(new, T) /\ new[q].sort # new[m].sort
  <2>1. titles \in TitleRows /\ t \in favourites \ done.favs
    BY <1>6 DEF Projects
  <2> QED BY <2>1, <1>5, <1>6, ReconciledFavourites
<1>10. m \in Releases /\ new[m] # Unknown /\ r \in RowsIn(new, T) /\ new[r].sort # new[m].sort
  BY <1>6, <1>9 DEF RowsIn
<1>11. m \notin DOMAIN batch
  <2> SUFFICES ASSUME m \in DOMAIN batch PROVE FALSE
    OBVIOUS
  <2>1. CatalogTitleID(batch[m]) = t /\ batch[m] \in Report
    BY <1>3, <1>6, <1>9, <1>10 DEF Projects
  <2>2. catalog[m] \in Report \cup {Unknown}
    BY <1>4, <1>10 DEF Catalogs
  <2>3. new[m].sort = batch[m].sort /\ (batch[m].imdb # NoIMDb => new[m].imdb = batch[m].imdb)
    BY <2>1, <2>2, <1>5, UpsertedIs
  <2>4. CASE batch[m].imdb # NoIMDb
    <3>1. t = <<"imdb", batch[m].imdb>>
      BY <2>1, <2>4 DEF CatalogTitleID
    <3>2. TitleBy(new, m) = <<"imdb", new[m].imdb>>
      BY <2>3, <2>4, <1>5, <1>10, TitleByIs
    <3> QED BY <2>3, <2>4, <3>1, <3>2, <1>9
  <2>5. CASE batch[m].imdb = NoIMDb
    <3>1. t = <<"name", batch[m].sort, batch[m].year>>
      BY <2>1, <2>5 DEF CatalogTitleID
    <3>2. TitleBy(new, r) = t /\ new[r] # Unknown
      BY <1>7, <1>10 DEF RowsIn
    <3>3. \/ TitleBy(new, r) = <<"name", new[r].sort, new[r].year>>
          \/ \E i : TitleBy(new, r) = <<"imdb", i>>
      BY <3>2, <1>5, TitleByIs
    <3>4. new[r].sort = batch[m].sort
      BY <3>1, <3>2, <3>3, TitlesDiffer
    <3> QED BY <3>4, <2>3, <1>10
  <2> QED BY <2>4, <2>5
<1>12. titleOf[m] = t /\ new[m] = catalog[m]
  BY <1>5, <1>6, <1>9, <1>10, <1>11 DEF Projects
<1>13. catalog[m].sort \in NamesOf(t)
  BY <1>10, <1>12 DEF NamesOf
<1>14. new[r].sort \in NamesOf(t)
  BY <1>8 DEF NamesOf
<1>15. catalog[m].sort # new[r].sort
  BY <1>10, <1>12
<1> QED BY <1>13, <1>14, <1>15, TwoNames

(* A favourite that stays behind although its title's releases went to one *)
(* other title.                                                            *)
FavouritesFollowStep ==
    \A t \in favourites \cap favourites' :
       Merged(t) # {t} /\ Cardinality(Merged(t)) = 1 =>
          \E r \in Releases : /\ titleOf[r] = t
                              /\ catalog'[r] # catalog[r] \/ catalog[r].sort \in thinned

(* The upsert that merges a title leaves no favourite of it: its releases  *)
(* have one evidence, which nothing else of the family resolves to it with.*)
LEMMA MergeIsFollowed ==
  ASSUME CatalogInv, NEW S \in Batches, NEW batch \in [S -> Reports], UpsertReleases(batch),
         NEW t, NEW u, t # u, NEW g \in Releases, titleOf[g] = t, t \in TitleIDs,
         \A r \in Releases : titleOf[r] = t =>
            titleOf'[r] = u /\ catalog'[r] = catalog[r] /\ catalog[r].sort \notin thinned
  PROVE  t \notin favourites'
<1>1. /\ DOMAIN batch \in SUBSET Releases /\ \A q \in DOMAIN batch : batch[q] \in Report
      /\ Upsert(batch) /\ CatalogSettled
      /\ \A r \in Releases : titleOf[r] # NoTitle => catalog[r] # Unknown
  BY ReportedBatch
<1> DEFINE T == Touched(batch)
           new == catalog'
<1>2. CatalogTypeOK /\ catalog \in Catalogs
  BY SettledIs
<1>3. /\ new \in Catalogs
      /\ \A q \in DOMAIN batch : /\ new[q] = Upserted(catalog[q], batch[q])
                                 /\ q \in RowsIn(new, T)
      /\ \A q \in Releases \ DOMAIN batch : new[q] = catalog[q]
  BY <1>1, <1>2, UpsertRows
<1>4. PICK titles, sorts, done :
         /\ Projects(batch, titles) /\ Enumerates(sorts, T)
         /\ done = Reconciled(new, titles, favourites, sorts)
         /\ titleOf' = done.titles /\ favourites' = done.favs
  BY <1>1, <1>2, UpsertTitles
<1>5. \A q \in Releases : titleOf'[q] = IF q \in RowsIn(new, T) THEN TitleBy(new, q) ELSE titleOf[q]
  BY <1>1, <1>2, UpsertTitles
<1>6. \A r \in Releases : titleOf[r] = t =>
            titleOf'[r] = u /\ new[r] = catalog[r] /\ catalog[r].sort \notin thinned
  OBVIOUS
<1> HIDE DEF T, new
<1>7. ASSUME NEW r \in Releases, titleOf[r] = t
      PROVE  /\ catalog[r] # Unknown /\ TitleBy(catalog, r) = t
             /\ r \in RowsIn(new, T) /\ TitleBy(new, r) = u /\ new[r] = catalog[r]
             /\ new[r] \in Report
  <2>1. catalog[r] # Unknown /\ catalog[r] \in Report
    BY <1>1, <1>2, <1>7, TitlesDiffer DEF Catalogs
  <2>2. TitleBy(catalog, r) = t
    BY <2>1, <1>1, <1>6, <1>7 DEF CatalogSettled
  <2>3. r \in RowsIn(new, T) /\ TitleBy(new, r) = u
    BY <1>5, <1>6, <1>7
  <2> QED BY <2>1, <2>2, <2>3, <1>6, <1>7
<1>8. ASSUME NEW i, t = <<"imdb", i>> PROVE FALSE
  <2> DEFINE s == catalog[g].sort
  <2>1. TitleBy(catalog, g) = <<"imdb", i>> /\ catalog[g] # Unknown
    BY <1>7, <1>8
  <2>2. \/ TitleBy(catalog, g) = <<"name", catalog[g].sort, catalog[g].year>>
        \/ catalog[g].imdb # NoIMDb
        \/ \E q \in Family(catalog, s) : /\ catalog[q].imdb # NoIMDb
                                         /\ TitleBy(catalog, g) = <<"imdb", catalog[q].imdb>>
                                         /\ TitleBy(catalog, q) = TitleBy(catalog, g)
    BY <2>1, <1>2, TitleByIs
  <2>3. \E q \in Family(catalog, s) : catalog[q].imdb = i /\ i # NoIMDb /\ TitleBy(catalog, q) = t
    <3>1. CASE catalog[g].imdb # NoIMDb
      <4>1. TitleBy(catalog, g) = <<"imdb", catalog[g].imdb>> /\ g \in Family(catalog, s)
        BY <2>1, <3>1, <1>2, TitleByIs
      <4> HIDE DEF s
      <4> QED BY <4>1, <2>1, <3>1, <1>8, TitlesDiffer
    <3>2. CASE catalog[g].imdb = NoIMDb
      <4>1. PICK q \in Family(catalog, s) : /\ catalog[q].imdb # NoIMDb
                                            /\ TitleBy(catalog, g) = <<"imdb", catalog[q].imdb>>
                                            /\ TitleBy(catalog, q) = TitleBy(catalog, g)
        BY <2>1, <2>2, <3>2, TitlesDiffer
      <4> HIDE DEF s
      <4> QED BY <4>1, <2>1, <1>8, TitlesDiffer
    <3> QED BY <3>1, <3>2
  <2>4. PICK q \in Family(catalog, s) : catalog[q].imdb = i /\ i # NoIMDb /\ TitleBy(catalog, q) = t
    BY <2>3
  <2>5. q \in Releases /\ catalog[q] # Unknown /\ catalog[q].sort = s
    BY DEF Family
  <2>6. s \notin thinned
    BY <1>6
  <2>7. titleOf[q] = t
    BY <2>4, <2>5, <2>6, <1>1 DEF CatalogSettled
  <2>8. TitleBy(new, q) = u /\ new[q] # Unknown /\ new[q].imdb = i
    BY <2>4, <2>5, <2>7, <1>7
  <2>9. TitleBy(new, q) = <<"imdb", i>>
    BY <2>4, <2>5, <2>8, <1>3, TitleByIs
  <2> QED BY <2>8, <2>9, <1>8
<1>9. PICK s \in SortTitles, y \in Years : t = <<"name", s, y>>
  BY <1>8, TitlesDiffer
<1>10. ASSUME NEW r \in Releases, titleOf[r] = t
       PROVE  /\ new[r].sort = s /\ new[r].year = y /\ new[r].imdb = NoIMDb
              /\ r \in Family(new, s) /\ s \in T
  <2>1. TitleBy(catalog, r) = t /\ catalog[r] # Unknown
    BY <1>7, <1>10
  <2>2. \/ /\ TitleBy(catalog, r) = <<"name", catalog[r].sort, catalog[r].year>>
           /\ catalog[r].imdb = NoIMDb
        \/ \E i : TitleBy(catalog, r) = <<"imdb", i>>
    BY <2>1, <1>2, <1>10, TitleByIs
  <2>3. catalog[r].sort = s /\ catalog[r].year = y /\ catalog[r].imdb = NoIMDb
    BY <2>1, <2>2, <1>9, TitlesDiffer
  <2> QED BY <2>3, <1>7, <1>10 DEF RowsIn, Family
<1>11. /\ g \in Family(new, s) /\ new[g].sort = s /\ new[g].year = y /\ new[g].imdb = NoIMDb
       /\ TitleBy(new, g) = u /\ s \in T
  BY <1>7, <1>10
<1>12. \A r \in RowsIn(new, T) : TitleBy(new, r) # t
  <2> SUFFICES ASSUME NEW r \in RowsIn(new, T), TitleBy(new, r) = t PROVE FALSE
    OBVIOUS
  <2>1. r \in Releases /\ new[r] # Unknown
    BY DEF RowsIn
  <2>2. \/ /\ TitleBy(new, r) = <<"name", new[r].sort, new[r].year>> /\ new[r].imdb = NoIMDb
        \/ \E i : TitleBy(new, r) = <<"imdb", i>>
    BY <2>1, <1>3, TitleByIs
  <2>3. new[r].sort = s /\ new[r].year = y /\ new[r].imdb = NoIMDb
    BY <2>2, <1>9, TitlesDiffer
  <2>4. r \in Family(new, s)
    BY <2>1, <2>3 DEF Family
  <2>5. TitleBy(new, r) = TitleBy(new, g)
    BY <2>3, <2>4, <1>3, <1>11, SameEvidence
  <2> QED BY <2>5, <1>11
<1>13. titles \in TitleRows /\ titles[g] = t
  <2>1. CASE g \notin DOMAIN batch
    BY <2>1, <1>4 DEF Projects
  <2>2. CASE g \in DOMAIN batch
    <3>1. batch[g] \in Report /\ catalog[g] \in Report
      BY <2>2, <1>1, <1>7
    <3>2. /\ batch[g].sort = s /\ batch[g].year = y
          /\ batch[g].imdb = NoIMDb
      <4>1. new[g] = Upserted(catalog[g], batch[g])
        BY <2>2, <1>3
      <4>2. /\ new[g].sort = batch[g].sort /\ new[g].year = batch[g].year
            /\ batch[g].imdb # NoIMDb => new[g].imdb = batch[g].imdb
        BY <3>1, <4>1, UpsertedIs
      <4> QED BY <4>2, <1>11
    <3>3. CatalogTitleID(batch[g]) = t
      BY <3>2, <1>9 DEF CatalogTitleID
    <3> QED BY <2>2, <3>3, <1>4 DEF Projects
  <2> QED BY <2>1, <2>2
<1>14. ASSUME NEW r \in Releases, titles[r] = t
       PROVE  r \in Family(new, s) /\ TitleBy(new, r) = u
  <2>1. CASE titleOf[r] = t
    BY <2>1, <1>7, <1>10
  <2>2. CASE titleOf[r] # t
    <3>1. r \in DOMAIN batch /\ CatalogTitleID(batch[r]) = t
      BY <2>2, <1>4, <1>14 DEF Projects
    <3>2. batch[r] \in Report /\ catalog[r] \in Report \cup {Unknown} /\ r \in RowsIn(new, T)
      BY <3>1, <1>1, <1>2, <1>3 DEF Catalogs
    <3>3. batch[r].sort = s /\ batch[r].year = y
      <4>1. \/ CatalogTitleID(batch[r]) = <<"name", batch[r].sort, batch[r].year>>
            \/ CatalogTitleID(batch[r]) = <<"imdb", batch[r].imdb>>
        BY DEF CatalogTitleID
      <4> QED BY <3>1, <4>1, <1>9, TitlesDiffer
    <3>4. new[r].sort = s /\ new[r].year = y
      <4>1. new[r] = Upserted(catalog[r], batch[r])
        BY <3>1, <1>3
      <4> QED BY <3>2, <3>3, <4>1, UpsertedIs
    <3>5. r \in Family(new, s)
      BY <3>2, <3>4 DEF RowsIn, Family
    <3>6. CASE new[r].imdb = NoIMDb
      <4>1. TitleBy(new, r) = TitleBy(new, g)
        BY <3>4, <3>5, <3>6, <1>3, <1>11, SameEvidence
      <4> QED BY <3>5, <4>1, <1>11
    <3>7. CASE new[r].imdb # NoIMDb
      <4>1. \/ TitleBy(new, g) = <<"imdb", new[r].imdb>>
            \/ TitleBy(new, g) = <<"name", new[g].sort, new[g].year>>
        BY <3>4, <3>5, <3>7, <1>3, <1>11, SameEvidence
      <4>2. TitleBy(new, g) = <<"imdb", new[r].imdb>>
        BY <4>1, <1>9, <1>11
      <4>3. TitleBy(new, r) = <<"imdb", new[r].imdb>>
        BY <3>2, <3>7, <1>3, TitleByIs DEF RowsIn
      <4> QED BY <3>5, <4>2, <4>3, <1>11
    <3> QED BY <3>6, <3>7
  <2> QED BY <2>1, <2>2
<1>15. t \notin done.favs
  BY <1>3, <1>4, <1>11, <1>12, <1>13, <1>14, ReconciledLeaves
<1> QED BY <1>4, <1>15

LEMMA FavouritesFollowOK == CatalogInv /\ [CatalogNext]_catalogVars => FavouritesFollowStep
<1> SUFFICES ASSUME CatalogInv, [CatalogNext]_catalogVars, NEW t \in favourites \cap favourites',
                    Merged(t) # {t}, Cardinality(Merged(t)) = 1,
                    \A r \in Releases : titleOf[r] = t =>
                       catalog'[r] = catalog[r] /\ catalog[r].sort \notin thinned
             PROVE  FALSE
  BY DEF FavouritesFollowStep
<1> DEFINE group == {r \in Releases : titleOf[r] = t}
           M == {titleOf'[r] : r \in group}
<1>1. PICK u : M = {u}
  <2>1. IsFiniteSet(M)
    <3> DEFINE f == titleOf'
    <3>1. M = {f[r] : r \in group} /\ group \in SUBSET Releases
      OBVIOUS
    <3> HIDE DEF f, M, group
    <3> QED BY <3>1, SortsAreFinite
  <2>2. Cardinality(M) = 1
    BY DEF Merged
  <2> HIDE DEF M
  <2> QED BY <2>1, <2>2, FS_Singleton
<1>2. u # t
  <2>1. M # {t}
    BY DEF Merged
  <2> HIDE DEF M
  <2> QED BY <2>1, <1>1
<1>3. \A r \in Releases : titleOf[r] = t => titleOf'[r] = u
  BY <1>1
<1>4. PICK g \in Releases : titleOf[g] = t
  BY <1>1
<1> HIDE DEF M, group
<1>5. titleOf'[g] # titleOf[g]
  BY <1>2, <1>3, <1>4
<1>6. /\ titleOf \in TitleRows /\ t # NoTitle
      /\ \A r \in Releases : titleOf[r] # NoTitle => catalog[r] # Unknown
  BY SettledIs, TitlesDiffer DEF CatalogInv, CatalogTypeOK
<1>7. t \in TitleIDs /\ catalog[g] # Unknown
  BY <1>4, <1>6 DEF TitleRows
<1>8. ASSUME NEW S \in Batches, NEW batch \in [S -> Reports], UpsertReleases(batch) PROVE FALSE
  BY <1>2, <1>3, <1>4, <1>7, <1>8, MergeIsFollowed
<1>9. ASSUME NEW r \in Releases, RemoveRelease(r) PROVE FALSE
  <2>1. /\ catalog[r] # Unknown /\ catalog' = [catalog EXCEPT ![r] = Unknown]
        /\ titleOf' = [titleOf EXCEPT ![r] = NoTitle] /\ catalog \in Catalogs
    BY <1>9, SettledIs DEF RemoveRelease
  <2>2. g # r
    <3>1. ASSUME g = r PROVE FALSE
      BY <3>1, <2>1, <1>4 DEF Catalogs
    <3> QED BY <3>1
  <2> QED BY <2>1, <2>2, <1>5, <1>6 DEF TitleRows
<1>10. ASSUME BackfillReleases PROVE FALSE
  <2>1. UNCHANGED titleOf \/ \A r \in Releases : titleOf[r] = NoTitle
    BY <1>10, BackfillDoes
  <2> QED BY <2>1, <1>4, <1>5, <1>6
<1>11. ASSUME ReconcileAllCatalogProjections PROVE FALSE
  <2>1. titleOf'[g] = TitleBy(catalog, g) /\ CatalogSettled
    BY <1>7, <1>11, ReconcileDoes, SettledIs
  <2>2. titleOf[g] = TitleBy(catalog, g)
    BY <2>1, <1>4, <1>7 DEF CatalogSettled
  <2> QED BY <2>1, <2>2, <1>5
<1>12. /\ ~UNCHANGED catalogVars /\ ~CloseCatalog /\ ~BackfillFavourites
       /\ ~\E v \in TitleIDs, favourite \in BOOLEAN : SetFavorite(v, favourite)
  BY <1>5 DEF catalogVars, CloseCatalog, BackfillFavourites, SetFavorite
<1> QED BY <1>8, <1>9, <1>10, <1>11, <1>12 DEF CatalogNext

(* In every behaviour of the catalog: each release is under the title that *)
(* the evidence of its whole family gives it, in whatever order its rows   *)
(* come, in every family that lost no release since; an old database's     *)
(* favourites reach their titles, whenever a process stops on the way, or  *)
(* it is refused for two of one title; a title keeps its favourite while   *)
(* it keeps a release, and the favourite goes with its releases when they  *)
(* are all merged into one other title.                                    *)
THEOREM CatalogTheorem ==
  CatalogInit /\ [][CatalogNext]_catalogVars => CatalogSafe
<1> DEFINE OpenMoves == opening = "open" => favourites \subseteq TitleIDs
           RefusedFor == opening = "refused" =>
             \E r, q \in Releases : r # q /\ {ReleaseID(r), ReleaseID(q)} \subseteq favourites
                                            /\ titleOf[r] = titleOf[q]
<1>1. CatalogInit => CatalogInv
  BY CatalogInitOK
<1>2. CatalogInv /\ [CatalogNext]_catalogVars => CatalogInv'
  BY CatalogStepOK
<1>3. CatalogInv => CatalogTypeOK /\ TitlesAreResolved /\ OrderIndependent
  BY CatalogInvGives
<1>4. CatalogInv => OpenMoves /\ RefusedFor
  BY CatalogInvGives
<1>5. CatalogInv /\ [CatalogNext]_catalogVars => [OldFavouritesStep]_catalogVars
  BY OldFavouritesOK
<1>6. CatalogInv /\ [CatalogNext]_catalogVars => [FavouritesStayStep]_catalogVars
  BY FavouritesStayOK
<1>7. CatalogInv /\ [CatalogNext]_catalogVars => [FavouritesFollowStep]_catalogVars
  BY FavouritesFollowOK
<1>8. CatalogInit /\ [][CatalogNext]_catalogVars =>
        /\ [](CatalogTypeOK /\ TitlesAreResolved /\ OrderIndependent)
        /\ []OpenMoves /\ []RefusedFor
        /\ [][OldFavouritesStep]_catalogVars /\ [][FavouritesStayStep]_catalogVars
        /\ [][FavouritesFollowStep]_catalogVars
  <2> HIDE DEF OpenMoves, RefusedFor
  <2> QED BY <1>1, <1>2, <1>3, <1>4, <1>5, <1>6, <1>7, PTL
<1> QED BY <1>8, PTL
        DEF CatalogSafe, OldFavouritesMove, FavouritesStay, FavouritesFollow, OldFavouritesStep,
            FavouritesStayStep, FavouritesFollowStep
================================================================================
