------------------------------ MODULE FilesProofs ------------------------------
(***************************************************************************)
(* Proofs about what the service keeps in files that others touch as well: *)
(* the torrent of the qBittorrent daemon and its bytes on disk, the data   *)
(* directory while the user moves it, the settings file, and a download of *)
(* the program's own update, for every value of their constants.           *)
(*                                                                         *)
(* In each part the effect of an action on the fields it touches is stated *)
(* first; the invariant of the component is then preserved by one step per *)
(* action.                                                                 *)
(*   QBittorrent: the gate and the lock are held by the calls between      *)
(* their first and last step, so that a removal runs alone and what one    *)
(* call has looked at is still so when it acts.                            *)
(*   DataDir: while no two calls have overlapped there is one mover, and   *)
(* the place it moves to holds as much as the one it has copied from.      *)
(*   Settings: saves take turns, and what is written is what a start would *)
(* accept, and load but for a blank language.                              *)
(*   Staging: nothing is on the disk between attempts, and from the digest *)
(* on the archive is the one published and every member is whole.          *)
(***************************************************************************)
EXTENDS QBittorrent, DataDir, Settings, Staging, NaturalsInduction,
        WellFoundedInduction, TLAPS
-----------------------------------------------------------------------------
(* The qBittorrent adapter: the inductive invariant.  The gate and the     *)
(* lock are held by the calls between their first and last step.           *)

Daemons == [there: BOOLEAN, by: {"app", "resolver"}, listed: BOOLEAN, meta: BOOLEAN,
            selected: BOOLEAN, seq: BOOLEAN, firstLast: BOOLEAN, edges: BOOLEAN,
            doomed: {"no", "remove", "resolver"}]

ResolverStages == {"export", "addMagnet", "look", "poll", "cleanup", "removing"}
GatedStages == ResolverStages \cup {"gated"}
LockedStages == {"files", "status", "verify"}
QBCalls == [op: QBOps \cup {"none"}, at: GatedStages \cup LockedStages \cup {"rest", "wait"},
            changed: BOOLEAN]

QBTypes ==
    /\ torrent \in Daemons /\ call \in [QBCallers -> QBCalls]
    /\ ready \in BOOLEAN /\ promised \in BOOLEAN /\ streaming \in BOOLEAN
    /\ qbGate \in QBCallers \cup {"free"} /\ qbLock \in QBCallers \cup {"free"}
    /\ qbCount \in [ops: 0..MaxQBOps, lost: 0..MaxLost]

QBPlace(k, c, g, l) ==
    /\ k.op = "none" <=> k.at = "rest"
    /\ k.at = "gated" => k.op \in {"add", "resolve"}
    /\ k.at \in ResolverStages => k.op = "resolve"
    /\ k.at \in LockedStages => k.op = "prepare"
    /\ k.at \in GatedStages <=> g = c
    /\ k.at \in LockedStages <=> l = c

(* While nothing has happened that the adapter does not provide for: a     *)
(* removal runs alone; what Add has answered for stays; a torrent of a     *)
(* resolver has that resolver at work on it, which touches no other.       *)
QBAlone == \A c, d \in QBCallers : c # d /\ call[c].op = "remove" => call[d].op = "none"

QBPromise ==
    /\ promised => torrent.there /\ torrent.by = "app" /\ torrent.doomed = "no"
    /\ torrent.doomed = "remove" => \A c \in QBCallers : call[c].op = "none"
    /\ torrent.doomed = "resolver" => torrent.by = "resolver"
    /\ torrent.there \/ torrent = NoTorrent

QBWork(k, c, g) ==
    /\ k.op = "remove" => ~promised
    /\ k.op = "prepare" => promised
    /\ torrent.there /\ torrent.by = "resolver" /\ g = c =>
          k.at \in {"look", "poll", "cleanup", "removing"}
    /\ k.at \in {"poll", "cleanup", "removing"} /\ torrent.there =>
          torrent.by = "resolver" /\ torrent.listed

(* A selection that has just been made, its first and last pieces not yet  *)
(* scheduled, is known to the preparation that holds the lock.             *)
QBSelection(k) ==
    /\ k.at \in {"status", "verify"} => torrent.selected
    /\ k.at = "verify" => torrent.edges

QBOrderly ==
    /\ QBAlone /\ QBPromise /\ streaming
    /\ torrent.there /\ torrent.by = "resolver" => qbGate # "free"
    /\ \A c \in QBCallers : QBWork(call[c], c, qbGate) /\ QBSelection(call[c])
    /\ torrent.selected =>
          torrent.edges \/ \E c \in QBCallers : call[c].at = "status" /\ call[c].changed

QBInv ==
    /\ QBTypes /\ \A c \in QBCallers : QBPlace(call[c], c, qbGate, qbLock)
    /\ qbGaps = {} => QBOrderly

LEMMA AcquireGateOK ==
  ASSUME QBInv, NEW c \in QBCallers, AcquireGate(c)
  PROVE  QBInv'
<1> USE QBAssumption DEF AcquireGate, QBTo
<1>1. QBTypes /\ QBTypes'
  <2>1. QBTypes
    BY DEF QBInv
  <2>2. torrent' \in Daemons
    BY <2>1 DEF QBTypes, QBCalls, Daemons, NoTorrent
  <2>3. call' \in [QBCallers -> QBCalls]
    BY <2>1 DEF QBTypes, QBCalls, Resting, GatedStages, ResolverStages, LockedStages
  <2>4. qbCount' \in [ops: 0..MaxQBOps, lost: 0..MaxLost]
    BY <2>1 DEF QBTypes
  <2> QED BY <2>1, <2>2, <2>3, <2>4 DEF QBTypes
<1>2. \A d \in QBCallers : QBPlace(call[d], d, qbGate, qbLock) /\ QBPlace(call'[d], d, qbGate', qbLock')
  BY <1>1 DEF QBInv, QBTypes, QBCalls, QBPlace, Resting, GatedStages, ResolverStages, LockedStages
<1>3. ASSUME qbGaps' = {} PROVE QBOrderly'
  <2>1. qbGaps = {} /\ QBOrderly
    BY <1>3 DEF QBInv
  <2> QED BY <1>1, <1>2, <2>1, <1>3 DEF QBTypes, QBCalls, QBOrderly, QBAlone, QBPromise, QBWork, QBSelection, QBPlace, Resting, NoTorrent, Daemons, ResolverStages, GatedStages, LockedStages
<1> QED BY <1>1, <1>2, <1>3 DEF QBInv

LEMMA ExportPreexistingOK ==
  ASSUME QBInv, NEW c \in QBCallers, ExportPreexisting(c)
  PROVE  QBInv'
<1> USE QBAssumption DEF ExportPreexisting, QBAt, ResolveEnds, Rests
<1>1. QBTypes /\ QBTypes'
  <2>1. QBTypes
    BY DEF QBInv
  <2>2. torrent' \in Daemons
    BY <2>1 DEF QBTypes, QBCalls, Daemons, NoTorrent
  <2>3. call' \in [QBCallers -> QBCalls]
    BY <2>1 DEF QBTypes, QBCalls, Resting, GatedStages, ResolverStages, LockedStages
  <2>4. qbCount' \in [ops: 0..MaxQBOps, lost: 0..MaxLost]
    BY <2>1 DEF QBTypes
  <2> QED BY <2>1, <2>2, <2>3, <2>4 DEF QBTypes
<1>2. \A d \in QBCallers : QBPlace(call[d], d, qbGate, qbLock) /\ QBPlace(call'[d], d, qbGate', qbLock')
  BY <1>1 DEF QBInv, QBTypes, QBCalls, QBPlace, Resting, GatedStages, ResolverStages, LockedStages
<1>3. ASSUME qbGaps' = {} PROVE QBOrderly'
  <2>1. qbGaps = {} /\ QBOrderly
    BY <1>3 DEF QBInv
  <2> QED BY <1>1, <1>2, <2>1, <1>3 DEF QBTypes, QBCalls, QBOrderly, QBAlone, QBPromise, QBWork, QBSelection, QBPlace, Resting, NoTorrent, Daemons, ResolverStages, GatedStages, LockedStages
<1> QED BY <1>1, <1>2, <1>3 DEF QBInv

LEMMA PollMetadataOK ==
  ASSUME QBInv, NEW c \in QBCallers, PollMetadata(c)
  PROVE  QBInv'
<1> USE QBAssumption DEF PollMetadata, QBAt, QBTo
<1>1. QBTypes /\ QBTypes'
  <2>1. QBTypes
    BY DEF QBInv
  <2>2. torrent' \in Daemons
    BY <2>1 DEF QBTypes, QBCalls, Daemons, NoTorrent
  <2>3. call' \in [QBCallers -> QBCalls]
    BY <2>1 DEF QBTypes, QBCalls, Resting, GatedStages, ResolverStages, LockedStages
  <2>4. qbCount' \in [ops: 0..MaxQBOps, lost: 0..MaxLost]
    BY <2>1 DEF QBTypes
  <2> QED BY <2>1, <2>2, <2>3, <2>4 DEF QBTypes
<1>2. \A d \in QBCallers : QBPlace(call[d], d, qbGate, qbLock) /\ QBPlace(call'[d], d, qbGate', qbLock')
  BY <1>1 DEF QBInv, QBTypes, QBCalls, QBPlace, Resting, GatedStages, ResolverStages, LockedStages
<1>3. ASSUME qbGaps' = {} PROVE QBOrderly'
  <2>1. qbGaps = {} /\ QBOrderly
    BY <1>3 DEF QBInv
  <2> QED BY <1>1, <1>2, <2>1, <1>3 DEF QBTypes, QBCalls, QBOrderly, QBAlone, QBPromise, QBWork, QBSelection, QBPlace, Resting, NoTorrent, Daemons, ResolverStages, GatedStages, LockedStages
<1> QED BY <1>1, <1>2, <1>3 DEF QBInv

LEMMA CleanupRemovesOK ==
  ASSUME QBInv, NEW c \in QBCallers, CleanupRemoves(c)
  PROVE  QBInv'
<1> USE QBAssumption DEF CleanupRemoves, QBAt, QBTo, Commanded, Doomed
<1>1. QBTypes /\ QBTypes'
  <2>1. QBTypes
    BY DEF QBInv
  <2>2. torrent' \in Daemons
    BY <2>1 DEF QBTypes, QBCalls, Daemons, NoTorrent
  <2>3. call' \in [QBCallers -> QBCalls]
    BY <2>1 DEF QBTypes, QBCalls, Resting, GatedStages, ResolverStages, LockedStages
  <2>4. qbCount' \in [ops: 0..MaxQBOps, lost: 0..MaxLost]
    BY <2>1 DEF QBTypes
  <2> QED BY <2>1, <2>2, <2>3, <2>4 DEF QBTypes
<1>2. \A d \in QBCallers : QBPlace(call[d], d, qbGate, qbLock) /\ QBPlace(call'[d], d, qbGate', qbLock')
  BY <1>1 DEF QBInv, QBTypes, QBCalls, QBPlace, Resting, GatedStages, ResolverStages, LockedStages
<1>3. ASSUME qbGaps' = {} PROVE QBOrderly'
  <2>1. qbGaps = {} /\ QBOrderly
    BY <1>3 DEF QBInv
  <2> QED BY <1>1, <1>2, <2>1, <1>3 DEF QBTypes, QBCalls, QBOrderly, QBAlone, QBPromise, QBWork, QBSelection, QBPlace, Resting, NoTorrent, Daemons, ResolverStages, GatedStages, LockedStages
<1> QED BY <1>1, <1>2, <1>3 DEF QBInv

LEMMA CleanupWaitsOK ==
  ASSUME QBInv, NEW c \in QBCallers, CleanupWaits(c)
  PROVE  QBInv'
<1> USE QBAssumption DEF CleanupWaits, QBAt, ResolveEnds, Rests, Listed
<1>1. QBTypes /\ QBTypes'
  <2>1. QBTypes
    BY DEF QBInv
  <2>2. torrent' \in Daemons
    BY <2>1 DEF QBTypes, QBCalls, Daemons, NoTorrent
  <2>3. call' \in [QBCallers -> QBCalls]
    BY <2>1 DEF QBTypes, QBCalls, Resting, GatedStages, ResolverStages, LockedStages
  <2>4. qbCount' \in [ops: 0..MaxQBOps, lost: 0..MaxLost]
    BY <2>1 DEF QBTypes
  <2> QED BY <2>1, <2>2, <2>3, <2>4 DEF QBTypes
<1>2. \A d \in QBCallers : QBPlace(call[d], d, qbGate, qbLock) /\ QBPlace(call'[d], d, qbGate', qbLock')
  BY <1>1 DEF QBInv, QBTypes, QBCalls, QBPlace, Resting, GatedStages, ResolverStages, LockedStages
<1>3. ASSUME qbGaps' = {} PROVE QBOrderly'
  <2>1. qbGaps = {} /\ QBOrderly
    BY <1>3 DEF QBInv
  <2> QED BY <1>1, <1>2, <2>1, <1>3 DEF QBTypes, QBCalls, QBOrderly, QBAlone, QBPromise, QBWork, QBSelection, QBPlace, Resting, NoTorrent, Daemons, ResolverStages, GatedStages, LockedStages
<1> QED BY <1>1, <1>2, <1>3 DEF QBInv

LEMMA TakeLockOK ==
  ASSUME QBInv, NEW c \in QBCallers, TakeLock(c)
  PROVE  QBInv'
<1> USE QBAssumption DEF TakeLock, QBAt, QBTo
<1>1. QBTypes /\ QBTypes'
  <2>1. QBTypes
    BY DEF QBInv
  <2>2. torrent' \in Daemons
    BY <2>1 DEF QBTypes, QBCalls, Daemons, NoTorrent
  <2>3. call' \in [QBCallers -> QBCalls]
    BY <2>1 DEF QBTypes, QBCalls, Resting, GatedStages, ResolverStages, LockedStages
  <2>4. qbCount' \in [ops: 0..MaxQBOps, lost: 0..MaxLost]
    BY <2>1 DEF QBTypes
  <2> QED BY <2>1, <2>2, <2>3, <2>4 DEF QBTypes
<1>2. \A d \in QBCallers : QBPlace(call[d], d, qbGate, qbLock) /\ QBPlace(call'[d], d, qbGate', qbLock')
  BY <1>1 DEF QBInv, QBTypes, QBCalls, QBPlace, Resting, GatedStages, ResolverStages, LockedStages
<1>3. ASSUME qbGaps' = {} PROVE QBOrderly'
  <2>1. qbGaps = {} /\ QBOrderly
    BY <1>3 DEF QBInv
  <2> QED BY <1>1, <1>2, <2>1, <1>3 DEF QBTypes, QBCalls, QBOrderly, QBAlone, QBPromise, QBWork, QBSelection, QBPlace, Resting, NoTorrent, Daemons, ResolverStages, GatedStages, LockedStages
<1> QED BY <1>1, <1>2, <1>3 DEF QBInv

LEMMA QBRemoveOK ==
  ASSUME QBInv, NEW c \in QBCallers, QBRemove(c)
  PROVE  QBInv'
<1> USE QBAssumption DEF QBRemove, QBAt, Rests, Commanded, Doomed
<1>1. QBTypes /\ QBTypes'
  <2>1. QBTypes
    BY DEF QBInv
  <2>2. torrent' \in Daemons
    BY <2>1 DEF QBTypes, QBCalls, Daemons, NoTorrent
  <2>3. call' \in [QBCallers -> QBCalls]
    BY <2>1 DEF QBTypes, QBCalls, Resting, GatedStages, ResolverStages, LockedStages
  <2>4. qbCount' \in [ops: 0..MaxQBOps, lost: 0..MaxLost]
    BY <2>1 DEF QBTypes
  <2> QED BY <2>1, <2>2, <2>3, <2>4 DEF QBTypes
<1>2. \A d \in QBCallers : QBPlace(call[d], d, qbGate, qbLock) /\ QBPlace(call'[d], d, qbGate', qbLock')
  BY <1>1 DEF QBInv, QBTypes, QBCalls, QBPlace, Resting, GatedStages, ResolverStages, LockedStages
<1>3. ASSUME qbGaps' = {} PROVE QBOrderly'
  <2>1. qbGaps = {} /\ QBOrderly
    BY <1>3 DEF QBInv
  <2> QED BY <1>1, <1>2, <2>1, <1>3 DEF QBTypes, QBCalls, QBOrderly, QBAlone, QBPromise, QBWork, QBSelection, QBPlace, Resting, NoTorrent, Daemons, ResolverStages, GatedStages, LockedStages
<1> QED BY <1>1, <1>2, <1>3 DEF QBInv

LEMMA PreflightOK ==
  ASSUME QBInv, NEW c \in QBCallers, Preflight(c)
  PROVE  QBInv'
<1> USE QBAssumption
<1> DEFINE Way1 == 
             /\ call' = [call EXCEPT ![c].at = "export"]
             /\ UNCHANGED <<torrent, ready, qbGate, qbLock, promised, streaming, qbGaps, qbCount>>
           Way2 == 
             /\ ~(torrent.there /\ torrent.listed)
             /\ call' = [call EXCEPT ![c].at = "addMagnet"]
             /\ UNCHANGED <<torrent, ready, qbGate, qbLock, promised, streaming, qbGaps, qbCount>>
           Way3 == 
             /\ call' = [call EXCEPT ![c] = Resting]
             /\ qbGate' = "free"
             /\ UNCHANGED <<torrent, ready, qbLock, promised, streaming, qbGaps, qbCount>>
<1>1. call[c].op = "resolve" /\ call[c].at = "gated" /\ (Way1 \/ Way2 \/ Way3)
  BY DEF Preflight, QBAt, QBTo, ResolveEnds, Rests, Listed, QBInv, QBTypes, QBCalls, Daemons
<1>2. CASE Way1
  <2>1. QBTypes /\ QBTypes'
    <3>1. QBTypes
      BY DEF QBInv
    <3>2. torrent' \in Daemons
      BY <3>1, <1>1, <1>2 DEF QBTypes, QBCalls, Daemons, NoTorrent
    <3>3. call' \in [QBCallers -> QBCalls]
      BY <3>1, <1>1, <1>2 DEF QBTypes, QBCalls, Resting, GatedStages, ResolverStages, LockedStages
    <3>4. qbCount' \in [ops: 0..MaxQBOps, lost: 0..MaxLost]
      BY <3>1, <1>1, <1>2 DEF QBTypes
    <3> QED BY <3>1, <3>2, <3>3, <3>4, <1>1, <1>2 DEF QBTypes
  <2>2. \A d \in QBCallers : QBPlace(call[d], d, qbGate, qbLock) /\ QBPlace(call'[d], d, qbGate', qbLock')
    BY <2>1, <1>1, <1>2 DEF QBInv, QBTypes, QBCalls, QBPlace, Resting, GatedStages, ResolverStages, LockedStages
  <2>3. ASSUME qbGaps' = {} PROVE QBOrderly'
    <3>1. qbGaps = {} /\ QBOrderly
      BY <2>3, <1>1, <1>2 DEF QBInv
    <3> QED BY <2>1, <2>2, <3>1, <2>3, <1>1, <1>2 DEF QBTypes, QBCalls, QBOrderly, QBAlone, QBPromise, QBWork, QBSelection, QBPlace, Resting, NoTorrent, Daemons, ResolverStages, GatedStages, LockedStages
  <2> QED BY <2>1, <2>2, <2>3 DEF QBInv
<1>3. CASE Way2
  <2>1. QBTypes /\ QBTypes'
    <3>1. QBTypes
      BY DEF QBInv
    <3>2. torrent' \in Daemons
      BY <3>1, <1>1, <1>3 DEF QBTypes, QBCalls, Daemons, NoTorrent
    <3>3. call' \in [QBCallers -> QBCalls]
      BY <3>1, <1>1, <1>3 DEF QBTypes, QBCalls, Resting, GatedStages, ResolverStages, LockedStages
    <3>4. qbCount' \in [ops: 0..MaxQBOps, lost: 0..MaxLost]
      BY <3>1, <1>1, <1>3 DEF QBTypes
    <3> QED BY <3>1, <3>2, <3>3, <3>4, <1>1, <1>3 DEF QBTypes
  <2>2. \A d \in QBCallers : QBPlace(call[d], d, qbGate, qbLock) /\ QBPlace(call'[d], d, qbGate', qbLock')
    BY <2>1, <1>1, <1>3 DEF QBInv, QBTypes, QBCalls, QBPlace, Resting, GatedStages, ResolverStages, LockedStages
  <2>3. ASSUME qbGaps' = {} PROVE QBOrderly'
    <3>1. qbGaps = {} /\ QBOrderly
      BY <2>3, <1>1, <1>3 DEF QBInv
    <3> QED BY <2>1, <2>2, <3>1, <2>3, <1>1, <1>3 DEF QBTypes, QBCalls, QBOrderly, QBAlone, QBPromise, QBWork, QBSelection, QBPlace, Resting, NoTorrent, Daemons, ResolverStages, GatedStages, LockedStages
  <2> QED BY <2>1, <2>2, <2>3 DEF QBInv
<1>4. CASE Way3
  <2>1. QBTypes /\ QBTypes'
    <3>1. QBTypes
      BY DEF QBInv
    <3>2. torrent' \in Daemons
      BY <3>1, <1>1, <1>4 DEF QBTypes, QBCalls, Daemons, NoTorrent
    <3>3. call' \in [QBCallers -> QBCalls]
      BY <3>1, <1>1, <1>4 DEF QBTypes, QBCalls, Resting, GatedStages, ResolverStages, LockedStages
    <3>4. qbCount' \in [ops: 0..MaxQBOps, lost: 0..MaxLost]
      BY <3>1, <1>1, <1>4 DEF QBTypes
    <3> QED BY <3>1, <3>2, <3>3, <3>4, <1>1, <1>4 DEF QBTypes
  <2>2. \A d \in QBCallers : QBPlace(call[d], d, qbGate, qbLock) /\ QBPlace(call'[d], d, qbGate', qbLock')
    BY <2>1, <1>1, <1>4 DEF QBInv, QBTypes, QBCalls, QBPlace, Resting, GatedStages, ResolverStages, LockedStages
  <2>3. ASSUME qbGaps' = {} PROVE QBOrderly'
    <3>1. qbGaps = {} /\ QBOrderly
      BY <2>3, <1>1, <1>4 DEF QBInv
    <3> QED BY <2>1, <2>2, <3>1, <2>3, <1>1, <1>4 DEF QBTypes, QBCalls, QBOrderly, QBAlone, QBPromise, QBWork, QBSelection, QBPlace, Resting, NoTorrent, Daemons, ResolverStages, GatedStages, LockedStages
  <2> QED BY <2>1, <2>2, <2>3 DEF QBInv
<1> QED BY <1>1, <1>2, <1>3, <1>4

LEMMA QBAddOK ==
  ASSUME QBInv, NEW c \in QBCallers, QBAdd(c)
  PROVE  QBInv'
<1> USE QBAssumption
<1> DEFINE Way1 == 
             /\ torrent.there
             /\ torrent' = torrent
             /\ UNCHANGED qbCount
             /\ promised' \in BOOLEAN
             /\ promised => promised'
           Way2 == 
             /\ ~torrent.there
             /\ torrent' = [NoTorrent EXCEPT !.there = TRUE, !.meta = TRUE, !.seq = TRUE, !.firstLast = TRUE]
             /\ qbCount' \in [ops: 0..MaxQBOps, lost: 0..MaxLost]
             /\ promised' \in BOOLEAN
             /\ promised => promised'
           Way3 == 
             /\ ~torrent.there
             /\ torrent' = torrent
             /\ UNCHANGED <<qbCount, promised>>
<1>1. call[c].op = "add" /\ call[c].at = "gated" /\ ready' = FALSE /\ call' = [call EXCEPT ![c] = Resting] /\ qbGate' = "free" /\ UNCHANGED <<qbLock, streaming, qbGaps>> /\ (Way1 \/ Way2 \/ Way3)
  BY DEF QBAdd, QBAt, Rests, Commanded, Listed, QBInv, QBTypes, QBCalls, Daemons
<1>2. CASE Way1
  <2>1. QBTypes /\ QBTypes'
    <3>1. QBTypes
      BY DEF QBInv
    <3>2. torrent' \in Daemons
      BY <3>1, <1>1, <1>2 DEF QBTypes, QBCalls, Daemons, NoTorrent
    <3>3. call' \in [QBCallers -> QBCalls]
      BY <3>1, <1>1, <1>2 DEF QBTypes, QBCalls, Resting, GatedStages, ResolverStages, LockedStages
    <3>4. qbCount' \in [ops: 0..MaxQBOps, lost: 0..MaxLost]
      BY <3>1, <1>1, <1>2 DEF QBTypes
    <3> QED BY <3>1, <3>2, <3>3, <3>4, <1>1, <1>2 DEF QBTypes
  <2>2. \A d \in QBCallers : QBPlace(call[d], d, qbGate, qbLock) /\ QBPlace(call'[d], d, qbGate', qbLock')
    BY <2>1, <1>1, <1>2 DEF QBInv, QBTypes, QBCalls, QBPlace, Resting, GatedStages, ResolverStages, LockedStages
  <2>3. ASSUME qbGaps' = {} PROVE QBOrderly'
    <3>1. qbGaps = {} /\ QBOrderly
      BY <2>3, <1>1, <1>2 DEF QBInv
    <3> QED BY <2>1, <2>2, <3>1, <2>3, <1>1, <1>2 DEF QBTypes, QBCalls, QBOrderly, QBAlone, QBPromise, QBWork, QBSelection, QBPlace, Resting, NoTorrent, Daemons, ResolverStages, GatedStages, LockedStages
  <2> QED BY <2>1, <2>2, <2>3 DEF QBInv
<1>3. CASE Way2
  <2>1. QBTypes /\ QBTypes'
    <3>1. QBTypes
      BY DEF QBInv
    <3>2. torrent' \in Daemons
      BY <3>1, <1>1, <1>3 DEF QBTypes, QBCalls, Daemons, NoTorrent
    <3>3. call' \in [QBCallers -> QBCalls]
      BY <3>1, <1>1, <1>3 DEF QBTypes, QBCalls, Resting, GatedStages, ResolverStages, LockedStages
    <3>4. qbCount' \in [ops: 0..MaxQBOps, lost: 0..MaxLost]
      BY <3>1, <1>1, <1>3 DEF QBTypes
    <3> QED BY <3>1, <3>2, <3>3, <3>4, <1>1, <1>3 DEF QBTypes
  <2>2. \A d \in QBCallers : QBPlace(call[d], d, qbGate, qbLock) /\ QBPlace(call'[d], d, qbGate', qbLock')
    BY <2>1, <1>1, <1>3 DEF QBInv, QBTypes, QBCalls, QBPlace, Resting, GatedStages, ResolverStages, LockedStages
  <2>3. ASSUME qbGaps' = {} PROVE QBOrderly'
    <3>1. qbGaps = {} /\ QBOrderly
      BY <2>3, <1>1, <1>3 DEF QBInv
    <3> QED BY <2>1, <2>2, <3>1, <2>3, <1>1, <1>3 DEF QBTypes, QBCalls, QBOrderly, QBAlone, QBPromise, QBWork, QBSelection, QBPlace, Resting, NoTorrent, Daemons, ResolverStages, GatedStages, LockedStages
  <2> QED BY <2>1, <2>2, <2>3 DEF QBInv
<1>4. CASE Way3
  <2>1. QBTypes /\ QBTypes'
    <3>1. QBTypes
      BY DEF QBInv
    <3>2. torrent' \in Daemons
      BY <3>1, <1>1, <1>4 DEF QBTypes, QBCalls, Daemons, NoTorrent
    <3>3. call' \in [QBCallers -> QBCalls]
      BY <3>1, <1>1, <1>4 DEF QBTypes, QBCalls, Resting, GatedStages, ResolverStages, LockedStages
    <3>4. qbCount' \in [ops: 0..MaxQBOps, lost: 0..MaxLost]
      BY <3>1, <1>1, <1>4 DEF QBTypes
    <3> QED BY <3>1, <3>2, <3>3, <3>4, <1>1, <1>4 DEF QBTypes
  <2>2. \A d \in QBCallers : QBPlace(call[d], d, qbGate, qbLock) /\ QBPlace(call'[d], d, qbGate', qbLock')
    BY <2>1, <1>1, <1>4 DEF QBInv, QBTypes, QBCalls, QBPlace, Resting, GatedStages, ResolverStages, LockedStages
  <2>3. ASSUME qbGaps' = {} PROVE QBOrderly'
    <3>1. qbGaps = {} /\ QBOrderly
      BY <2>3, <1>1, <1>4 DEF QBInv
    <3> QED BY <2>1, <2>2, <3>1, <2>3, <1>1, <1>4 DEF QBTypes, QBCalls, QBOrderly, QBAlone, QBPromise, QBWork, QBSelection, QBPlace, Resting, NoTorrent, Daemons, ResolverStages, GatedStages, LockedStages
  <2> QED BY <2>1, <2>2, <2>3 DEF QBInv
<1> QED BY <1>1, <1>2, <1>3, <1>4

LEMMA AddMagnetOK ==
  ASSUME QBInv, NEW c \in QBCallers, AddMagnet(c)
  PROVE  QBInv'
<1> USE QBAssumption
<1> DEFINE Way1 == 
             /\ torrent.there
             /\ call' = [call EXCEPT ![c].at = "look"]
             /\ UNCHANGED <<torrent, ready, qbGate, qbLock, promised, streaming, qbGaps, qbCount>>
           Way2 == 
             /\ ~torrent.there
             /\ torrent' = [NoTorrent EXCEPT !.there = TRUE, !.by = "resolver"]
             /\ qbCount' \in [ops: 0..MaxQBOps, lost: 0..MaxLost]
             /\ call' = [call EXCEPT ![c].at = "look"]
             /\ UNCHANGED <<ready, qbGate, qbLock, promised, streaming, qbGaps>>
           Way3 == 
             /\ torrent' = torrent
             /\ qbCount' \in [ops: 0..MaxQBOps, lost: 0..MaxLost]
             /\ call' = [call EXCEPT ![c] = Resting]
             /\ qbGate' = "free"
             /\ UNCHANGED <<ready, qbLock, promised, streaming, qbGaps>>
           Way4 == 
             /\ ~torrent.there
             /\ torrent' = [NoTorrent EXCEPT !.there = TRUE, !.by = "resolver"]
             /\ qbCount' \in [ops: 0..MaxQBOps, lost: 0..MaxLost]
             /\ call' = [call EXCEPT ![c] = Resting]
             /\ qbGate' = "free"
             /\ qbGaps' # {}
             /\ UNCHANGED <<ready, qbLock, promised, streaming>>
<1>1. call[c].op = "resolve" /\ call[c].at = "addMagnet" /\ (Way1 \/ Way2 \/ Way3 \/ Way4)
  <2>0. QBTypes /\ qbCount.lost \in 0..MaxLost /\ torrent \in Daemons
    BY DEF QBInv, QBTypes
  <2>1. PICK ok \in BOOLEAN :
          /\ IF torrent.there THEN torrent' = torrent /\ UNCHANGED qbCount
             ELSE Commanded([NoTorrent EXCEPT !.there = TRUE, !.by = "resolver"], ok)
          /\ IF ok
             THEN QBTo(c, "look") /\ UNCHANGED <<qbGate, qbGaps>>
             ELSE /\ ResolveEnds(c)
                  /\ qbGaps' = IF torrent' # torrent THEN qbGaps \cup {"lost add"}
                               ELSE qbGaps
    BY DEF AddMagnet
  <2>2. /\ call[c].op = "resolve" /\ call[c].at = "addMagnet"
        /\ UNCHANGED <<ready, qbLock, promised, streaming>>
    BY DEF AddMagnet, QBAt
  <2>3. CASE torrent.there /\ ok
    BY <2>1, <2>2, <2>3 DEF QBTo
  <2>4. CASE torrent.there /\ ~ok
    BY <2>0, <2>1, <2>2, <2>4 DEF ResolveEnds, Rests, QBTypes
  <2>5. CASE ~torrent.there
    <3>1. Commanded([NoTorrent EXCEPT !.there = TRUE, !.by = "resolver"], ok)
      BY <2>1, <2>5
    <3>2. CASE ok
      <4>1. torrent' = [NoTorrent EXCEPT !.there = TRUE, !.by = "resolver"] /\ UNCHANGED qbCount
        BY <3>1, <3>2 DEF Commanded
      <4> QED BY <2>0, <2>1, <2>2, <2>5, <3>2, <4>1 DEF QBTo, QBTypes
    <3>3. CASE ~ok
      <4>1. \/ /\ torrent' = [NoTorrent EXCEPT !.there = TRUE, !.by = "resolver"]
               /\ qbCount.lost < MaxLost /\ qbCount' = [qbCount EXCEPT !.lost = @ + 1]
            \/ torrent' = torrent /\ UNCHANGED qbCount
        BY <3>1, <3>3 DEF Commanded
      <4>2. qbCount' \in [ops: 0..MaxQBOps, lost: 0..MaxLost]
        BY <2>0, <4>1 DEF QBTypes
      <4>3. [NoTorrent EXCEPT !.there = TRUE, !.by = "resolver"].there
        BY DEF NoTorrent
      <4>4. CASE torrent' = torrent
        BY <2>1, <2>2, <3>3, <4>2, <4>4 DEF ResolveEnds, Rests
      <4>5. CASE torrent' # torrent
        BY <2>1, <2>2, <2>5, <3>3, <4>1, <4>2, <4>5 DEF ResolveEnds, Rests
      <4> QED BY <4>4, <4>5
    <3> QED BY <3>2, <3>3
  <2> QED BY <2>3, <2>4, <2>5
<1>2. CASE Way1
  <2>1. QBTypes /\ QBTypes'
    <3>1. QBTypes
      BY DEF QBInv
    <3>2. torrent' \in Daemons
      BY <3>1, <1>1, <1>2 DEF QBTypes, QBCalls, Daemons, NoTorrent
    <3>3. call' \in [QBCallers -> QBCalls]
      BY <3>1, <1>1, <1>2 DEF QBTypes, QBCalls, Resting, GatedStages, ResolverStages, LockedStages
    <3>4. qbCount' \in [ops: 0..MaxQBOps, lost: 0..MaxLost]
      BY <3>1, <1>1, <1>2 DEF QBTypes
    <3> QED BY <3>1, <3>2, <3>3, <3>4, <1>1, <1>2 DEF QBTypes
  <2>2. \A d \in QBCallers : QBPlace(call[d], d, qbGate, qbLock) /\ QBPlace(call'[d], d, qbGate', qbLock')
    BY <2>1, <1>1, <1>2 DEF QBInv, QBTypes, QBCalls, QBPlace, Resting, GatedStages, ResolverStages, LockedStages
  <2>3. ASSUME qbGaps' = {} PROVE QBOrderly'
    <3>1. qbGaps = {} /\ QBOrderly
      BY <2>3, <1>1, <1>2 DEF QBInv
    <3> QED BY <2>1, <2>2, <3>1, <2>3, <1>1, <1>2 DEF QBTypes, QBCalls, QBOrderly, QBAlone, QBPromise, QBWork, QBSelection, QBPlace, Resting, NoTorrent, Daemons, ResolverStages, GatedStages, LockedStages
  <2> QED BY <2>1, <2>2, <2>3 DEF QBInv
<1>3. CASE Way2
  <2>1. QBTypes /\ QBTypes'
    <3>1. QBTypes
      BY DEF QBInv
    <3>2. torrent' \in Daemons
      BY <3>1, <1>1, <1>3 DEF QBTypes, QBCalls, Daemons, NoTorrent
    <3>3. call' \in [QBCallers -> QBCalls]
      BY <3>1, <1>1, <1>3 DEF QBTypes, QBCalls, Resting, GatedStages, ResolverStages, LockedStages
    <3>4. qbCount' \in [ops: 0..MaxQBOps, lost: 0..MaxLost]
      BY <3>1, <1>1, <1>3 DEF QBTypes
    <3> QED BY <3>1, <3>2, <3>3, <3>4, <1>1, <1>3 DEF QBTypes
  <2>2. \A d \in QBCallers : QBPlace(call[d], d, qbGate, qbLock) /\ QBPlace(call'[d], d, qbGate', qbLock')
    BY <2>1, <1>1, <1>3 DEF QBInv, QBTypes, QBCalls, QBPlace, Resting, GatedStages, ResolverStages, LockedStages
  <2>3. ASSUME qbGaps' = {} PROVE QBOrderly'
    <3>1. qbGaps = {} /\ QBOrderly
      BY <2>3, <1>1, <1>3 DEF QBInv
    <3> QED BY <2>1, <2>2, <3>1, <2>3, <1>1, <1>3 DEF QBTypes, QBCalls, QBOrderly, QBAlone, QBPromise, QBWork, QBSelection, QBPlace, Resting, NoTorrent, Daemons, ResolverStages, GatedStages, LockedStages
  <2> QED BY <2>1, <2>2, <2>3 DEF QBInv
<1>4. CASE Way3
  <2>1. QBTypes /\ QBTypes'
    <3>1. QBTypes
      BY DEF QBInv
    <3>2. torrent' \in Daemons
      BY <3>1, <1>1, <1>4 DEF QBTypes, QBCalls, Daemons, NoTorrent
    <3>3. call' \in [QBCallers -> QBCalls]
      BY <3>1, <1>1, <1>4 DEF QBTypes, QBCalls, Resting, GatedStages, ResolverStages, LockedStages
    <3>4. qbCount' \in [ops: 0..MaxQBOps, lost: 0..MaxLost]
      BY <3>1, <1>1, <1>4 DEF QBTypes
    <3> QED BY <3>1, <3>2, <3>3, <3>4, <1>1, <1>4 DEF QBTypes
  <2>2. \A d \in QBCallers : QBPlace(call[d], d, qbGate, qbLock) /\ QBPlace(call'[d], d, qbGate', qbLock')
    BY <2>1, <1>1, <1>4 DEF QBInv, QBTypes, QBCalls, QBPlace, Resting, GatedStages, ResolverStages, LockedStages
  <2>3. ASSUME qbGaps' = {} PROVE QBOrderly'
    <3>1. qbGaps = {} /\ QBOrderly
      BY <2>3, <1>1, <1>4 DEF QBInv
    <3> QED BY <2>1, <2>2, <3>1, <2>3, <1>1, <1>4 DEF QBTypes, QBCalls, QBOrderly, QBAlone, QBPromise, QBWork, QBSelection, QBPlace, Resting, NoTorrent, Daemons, ResolverStages, GatedStages, LockedStages
  <2> QED BY <2>1, <2>2, <2>3 DEF QBInv
<1>5. CASE Way4
  <2>1. QBTypes /\ QBTypes'
    <3>1. QBTypes
      BY DEF QBInv
    <3>2. torrent' \in Daemons
      BY <3>1, <1>1, <1>5 DEF QBTypes, QBCalls, Daemons, NoTorrent
    <3>3. call' \in [QBCallers -> QBCalls]
      BY <3>1, <1>1, <1>5 DEF QBTypes, QBCalls, Resting, GatedStages, ResolverStages, LockedStages
    <3>4. qbCount' \in [ops: 0..MaxQBOps, lost: 0..MaxLost]
      BY <3>1, <1>1, <1>5 DEF QBTypes
    <3> QED BY <3>1, <3>2, <3>3, <3>4, <1>1, <1>5 DEF QBTypes
  <2>2. \A d \in QBCallers : QBPlace(call[d], d, qbGate, qbLock) /\ QBPlace(call'[d], d, qbGate', qbLock')
    BY <2>1, <1>1, <1>5 DEF QBInv, QBTypes, QBCalls, QBPlace, Resting, GatedStages, ResolverStages, LockedStages
  <2>3. ASSUME qbGaps' = {} PROVE QBOrderly'
    <3>1. qbGaps = {} /\ QBOrderly
      BY <2>3, <1>1, <1>5 DEF QBInv
    <3> QED BY <2>1, <2>2, <3>1, <2>3, <1>1, <1>5 DEF QBTypes, QBCalls, QBOrderly, QBAlone, QBPromise, QBWork, QBSelection, QBPlace, Resting, NoTorrent, Daemons, ResolverStages, GatedStages, LockedStages
  <2> QED BY <2>1, <2>2, <2>3 DEF QBInv
<1> QED BY <1>1, <1>2, <1>3, <1>4, <1>5

LEMMA LookForAddedOK ==
  ASSUME QBInv, NEW c \in QBCallers, LookForAdded(c)
  PROVE  QBInv'
<1> USE QBAssumption
<1> DEFINE Way1 == 
             /\ torrent.there /\ torrent.listed
             /\ torrent.by = "resolver"
             /\ call' = [call EXCEPT ![c].at = "poll"]
             /\ UNCHANGED <<torrent, ready, qbGate, qbLock, promised, streaming, qbGaps, qbCount>>
           Way2 == 
             /\ torrent.there /\ torrent.listed
             /\ torrent.by # "resolver"
             /\ call' = [call EXCEPT ![c].at = "export"]
             /\ UNCHANGED <<torrent, ready, qbGate, qbLock, promised, streaming, qbGaps, qbCount>>
           Way3 == 
             /\ call' = [call EXCEPT ![c] = Resting]
             /\ qbGate' = "free"
             /\ \/ torrent.there /\ qbGaps' # {}
                \/ ~torrent.there /\ qbGaps' = qbGaps
             /\ UNCHANGED <<torrent, ready, qbLock, promised, streaming, qbCount>>
<1>1. call[c].op = "resolve" /\ call[c].at = "look" /\ (Way1 \/ Way2 \/ Way3)
  BY DEF LookForAdded, QBAt, QBTo, ResolveEnds, Rests, Listed, QBInv, QBTypes, QBCalls, Daemons
<1>2. CASE Way1
  <2>1. QBTypes /\ QBTypes'
    <3>1. QBTypes
      BY DEF QBInv
    <3>2. torrent' \in Daemons
      BY <3>1, <1>1, <1>2 DEF QBTypes, QBCalls, Daemons, NoTorrent
    <3>3. call' \in [QBCallers -> QBCalls]
      BY <3>1, <1>1, <1>2 DEF QBTypes, QBCalls, Resting, GatedStages, ResolverStages, LockedStages
    <3>4. qbCount' \in [ops: 0..MaxQBOps, lost: 0..MaxLost]
      BY <3>1, <1>1, <1>2 DEF QBTypes
    <3> QED BY <3>1, <3>2, <3>3, <3>4, <1>1, <1>2 DEF QBTypes
  <2>2. \A d \in QBCallers : QBPlace(call[d], d, qbGate, qbLock) /\ QBPlace(call'[d], d, qbGate', qbLock')
    BY <2>1, <1>1, <1>2 DEF QBInv, QBTypes, QBCalls, QBPlace, Resting, GatedStages, ResolverStages, LockedStages
  <2>3. ASSUME qbGaps' = {} PROVE QBOrderly'
    <3>1. qbGaps = {} /\ QBOrderly
      BY <2>3, <1>1, <1>2 DEF QBInv
    <3> QED BY <2>1, <2>2, <3>1, <2>3, <1>1, <1>2 DEF QBTypes, QBCalls, QBOrderly, QBAlone, QBPromise, QBWork, QBSelection, QBPlace, Resting, NoTorrent, Daemons, ResolverStages, GatedStages, LockedStages
  <2> QED BY <2>1, <2>2, <2>3 DEF QBInv
<1>3. CASE Way2
  <2>1. QBTypes /\ QBTypes'
    <3>1. QBTypes
      BY DEF QBInv
    <3>2. torrent' \in Daemons
      BY <3>1, <1>1, <1>3 DEF QBTypes, QBCalls, Daemons, NoTorrent
    <3>3. call' \in [QBCallers -> QBCalls]
      BY <3>1, <1>1, <1>3 DEF QBTypes, QBCalls, Resting, GatedStages, ResolverStages, LockedStages
    <3>4. qbCount' \in [ops: 0..MaxQBOps, lost: 0..MaxLost]
      BY <3>1, <1>1, <1>3 DEF QBTypes
    <3> QED BY <3>1, <3>2, <3>3, <3>4, <1>1, <1>3 DEF QBTypes
  <2>2. \A d \in QBCallers : QBPlace(call[d], d, qbGate, qbLock) /\ QBPlace(call'[d], d, qbGate', qbLock')
    BY <2>1, <1>1, <1>3 DEF QBInv, QBTypes, QBCalls, QBPlace, Resting, GatedStages, ResolverStages, LockedStages
  <2>3. ASSUME qbGaps' = {} PROVE QBOrderly'
    <3>1. qbGaps = {} /\ QBOrderly
      BY <2>3, <1>1, <1>3 DEF QBInv
    <3> QED BY <2>1, <2>2, <3>1, <2>3, <1>1, <1>3 DEF QBTypes, QBCalls, QBOrderly, QBAlone, QBPromise, QBWork, QBSelection, QBPlace, Resting, NoTorrent, Daemons, ResolverStages, GatedStages, LockedStages
  <2> QED BY <2>1, <2>2, <2>3 DEF QBInv
<1>4. CASE Way3
  <2>1. QBTypes /\ QBTypes'
    <3>1. QBTypes
      BY DEF QBInv
    <3>2. torrent' \in Daemons
      BY <3>1, <1>1, <1>4 DEF QBTypes, QBCalls, Daemons, NoTorrent
    <3>3. call' \in [QBCallers -> QBCalls]
      BY <3>1, <1>1, <1>4 DEF QBTypes, QBCalls, Resting, GatedStages, ResolverStages, LockedStages
    <3>4. qbCount' \in [ops: 0..MaxQBOps, lost: 0..MaxLost]
      BY <3>1, <1>1, <1>4 DEF QBTypes
    <3> QED BY <3>1, <3>2, <3>3, <3>4, <1>1, <1>4 DEF QBTypes
  <2>2. \A d \in QBCallers : QBPlace(call[d], d, qbGate, qbLock) /\ QBPlace(call'[d], d, qbGate', qbLock')
    BY <2>1, <1>1, <1>4 DEF QBInv, QBTypes, QBCalls, QBPlace, Resting, GatedStages, ResolverStages, LockedStages
  <2>3. ASSUME qbGaps' = {} PROVE QBOrderly'
    <3>1. qbGaps = {} /\ QBOrderly
      BY <2>3, <1>1, <1>4 DEF QBInv
    <3> QED BY <2>1, <2>2, <3>1, <2>3, <1>1, <1>4 DEF QBTypes, QBCalls, QBOrderly, QBAlone, QBPromise, QBWork, QBSelection, QBPlace, Resting, NoTorrent, Daemons, ResolverStages, GatedStages, LockedStages
  <2> QED BY <2>1, <2>2, <2>3 DEF QBInv
<1> QED BY <1>1, <1>2, <1>3, <1>4

LEMMA SetFilePrioOK ==
  ASSUME QBInv, NEW c \in QBCallers, SetFilePrio(c)
  PROVE  QBInv'
<1> USE QBAssumption
<1> DEFINE Way1 == 
             /\ torrent.there /\ torrent.selected
             /\ call' = [call EXCEPT ![c].at = "status"]
             /\ UNCHANGED <<torrent, ready, qbGate, qbLock, promised, streaming, qbGaps, qbCount>>
           Way2 == 
             /\ torrent.there
             /\ qbCount' \in [ops: 0..MaxQBOps, lost: 0..MaxLost]
             /\ torrent' \in Daemons
             /\ torrent'.there = torrent.there /\ torrent'.by = torrent.by /\ torrent'.listed = torrent.listed /\ torrent'.doomed = torrent.doomed
             /\ torrent'.selected
             /\ call' = [call EXCEPT ![c] = [op |-> "prepare", at |-> "status", changed |-> TRUE]]
             /\ UNCHANGED <<ready, qbGate, qbLock, promised, streaming, qbGaps>>
           Way3 == 
             /\ qbCount' \in [ops: 0..MaxQBOps, lost: 0..MaxLost]
             /\ torrent' \in Daemons
             /\ call' = [call EXCEPT ![c] = Resting]
             /\ qbLock' = "free"
             /\ qbGaps' # {}
             /\ UNCHANGED <<ready, qbGate, promised, streaming>>
           Way4 == 
             /\ call' = [call EXCEPT ![c] = Resting]
             /\ qbLock' = "free"
             /\ UNCHANGED <<torrent, ready, qbGate, promised, streaming, qbGaps, qbCount>>
<1>1. call[c].op = "prepare" /\ call[c].at = "files" /\ (Way1 \/ Way2 \/ Way3 \/ Way4)
  <2>0. QBTypes /\ qbCount.lost \in 0..MaxLost /\ torrent \in Daemons
    BY DEF QBInv, QBTypes
  <2>1. /\ call[c].op = "prepare" /\ call[c].at = "files" /\ call[c] \in QBCalls
        /\ UNCHANGED <<ready, qbGate, promised, streaming>>
    BY <2>0 DEF SetFilePrio, QBAt, QBTypes
  <2>2. CASE Listed /\ torrent.selected /\ QBTo(c, "status")
             /\ UNCHANGED <<torrent, qbLock, qbGaps, qbCount>>
    BY <2>1, <2>2 DEF Listed, QBTo
  <2>3. ASSUME Listed, NEW ok \in BOOLEAN, NEW all \in BOOLEAN, ok => all,
               Commanded([torrent EXCEPT !.selected = all, !.edges = FALSE], ok),
               IF ok
               THEN /\ call' = [call EXCEPT ![c].at = "status", ![c].changed = TRUE]
                    /\ UNCHANGED <<qbLock, qbGaps>>
               ELSE PrepareFails(c) /\ qbGaps' = qbGaps \cup {"half prepared"}
        PROVE  Way2 \/ Way3
    <3> DEFINE t == [torrent EXCEPT !.selected = all, !.edges = FALSE]
    <3>1. t \in Daemons /\ t.selected = all
      BY <2>0, <2>3 DEF Daemons
    <3>2. /\ t.there = torrent.there /\ t.by = torrent.by /\ t.listed = torrent.listed
          /\ t.doomed = torrent.doomed
      BY <2>0 DEF Daemons
    <3>3. qbCount' \in [ops: 0..MaxQBOps, lost: 0..MaxLost]
      <4>1. \/ UNCHANGED qbCount
            \/ qbCount.lost < MaxLost /\ qbCount' = [qbCount EXCEPT !.lost = @ + 1]
        BY <2>3 DEF Commanded
      <4> QED BY <2>0, <4>1 DEF QBTypes
    <3>4. CASE ok
      <4>1. torrent' = t /\ UNCHANGED qbCount
        BY <2>3, <3>4 DEF Commanded
      <4>2. /\ call' = [call EXCEPT ![c] = [op |-> "prepare", at |-> "status", changed |-> TRUE]]
            /\ UNCHANGED <<qbLock, qbGaps>>
        BY <2>0, <2>1, <2>3, <3>4 DEF QBTypes, QBCalls
      <4>3. t.selected /\ torrent.there
        BY <2>3, <3>1, <3>4 DEF Listed
      <4> HIDE DEF t
      <4>4. torrent' \in Daemons /\ torrent'.selected
        BY <3>1, <4>1, <4>3
      <4>5. /\ torrent'.there = torrent.there /\ torrent'.by = torrent.by
            /\ torrent'.listed = torrent.listed /\ torrent'.doomed = torrent.doomed
        BY <3>2, <4>1
      <4> QED BY <2>1, <3>3, <4>2, <4>3, <4>4, <4>5
    <3>5. CASE ~ok
      <4> HIDE DEF t
      <4>1. torrent' = t \/ torrent' = torrent
        BY <2>3, <3>5 DEF Commanded, t
      <4>2. torrent' \in Daemons
        BY <2>0, <3>1, <4>1
      <4> QED BY <2>1, <2>3, <3>3, <3>5, <4>2 DEF PrepareFails, Rests
    <3> QED BY <3>4, <3>5
  <2>4. CASE PrepareFails(c) /\ UNCHANGED <<torrent, qbGaps, qbCount>>
    BY <2>1, <2>4 DEF PrepareFails, Rests
  <2> HIDE DEF Way2, Way3, Way4
  <2> QED BY <2>1, <2>2, <2>3, <2>4 DEF SetFilePrio
<1>2. CASE Way1
  <2>1. QBTypes /\ QBTypes'
    <3>1. QBTypes
      BY DEF QBInv
    <3>2. torrent' \in Daemons
      BY <3>1, <1>1, <1>2 DEF QBTypes, QBCalls, Daemons, NoTorrent
    <3>3. call' \in [QBCallers -> QBCalls]
      BY <3>1, <1>1, <1>2 DEF QBTypes, QBCalls, Resting, GatedStages, ResolverStages, LockedStages
    <3>4. qbCount' \in [ops: 0..MaxQBOps, lost: 0..MaxLost]
      BY <3>1, <1>1, <1>2 DEF QBTypes
    <3> QED BY <3>1, <3>2, <3>3, <3>4, <1>1, <1>2 DEF QBTypes
  <2>2. \A d \in QBCallers : QBPlace(call[d], d, qbGate, qbLock) /\ QBPlace(call'[d], d, qbGate', qbLock')
    BY <2>1, <1>1, <1>2 DEF QBInv, QBTypes, QBCalls, QBPlace, Resting, GatedStages, ResolverStages, LockedStages
  <2>3. ASSUME qbGaps' = {} PROVE QBOrderly'
    <3>1. qbGaps = {} /\ QBOrderly
      BY <2>3, <1>1, <1>2 DEF QBInv
    <3> QED BY <2>1, <2>2, <3>1, <2>3, <1>1, <1>2 DEF QBTypes, QBCalls, QBOrderly, QBAlone, QBPromise, QBWork, QBSelection, QBPlace, Resting, NoTorrent, Daemons, ResolverStages, GatedStages, LockedStages
  <2> QED BY <2>1, <2>2, <2>3 DEF QBInv
<1>3. CASE Way2
  <2>1. QBTypes /\ QBTypes'
    <3>1. QBTypes
      BY DEF QBInv
    <3>2. torrent' \in Daemons
      BY <3>1, <1>1, <1>3 DEF QBTypes, QBCalls, Daemons, NoTorrent
    <3>3. call' \in [QBCallers -> QBCalls]
      BY <3>1, <1>1, <1>3 DEF QBTypes, QBCalls, Resting, GatedStages, ResolverStages, LockedStages
    <3>4. qbCount' \in [ops: 0..MaxQBOps, lost: 0..MaxLost]
      BY <3>1, <1>1, <1>3 DEF QBTypes
    <3> QED BY <3>1, <3>2, <3>3, <3>4, <1>1, <1>3 DEF QBTypes
  <2>2. \A d \in QBCallers : QBPlace(call[d], d, qbGate, qbLock) /\ QBPlace(call'[d], d, qbGate', qbLock')
    BY <2>1, <1>1, <1>3 DEF QBInv, QBTypes, QBCalls, QBPlace, Resting, GatedStages, ResolverStages, LockedStages
  <2>3. ASSUME qbGaps' = {} PROVE QBOrderly'
    <3>1. qbGaps = {} /\ QBOrderly
      BY <2>3, <1>1, <1>3 DEF QBInv
    <3> QED BY <2>1, <2>2, <3>1, <2>3, <1>1, <1>3 DEF QBTypes, QBCalls, QBOrderly, QBAlone, QBPromise, QBWork, QBSelection, QBPlace, Resting, NoTorrent, Daemons, ResolverStages, GatedStages, LockedStages
  <2> QED BY <2>1, <2>2, <2>3 DEF QBInv
<1>4. CASE Way3
  <2>1. QBTypes /\ QBTypes'
    <3>1. QBTypes
      BY DEF QBInv
    <3>2. torrent' \in Daemons
      BY <3>1, <1>1, <1>4 DEF QBTypes, QBCalls, Daemons, NoTorrent
    <3>3. call' \in [QBCallers -> QBCalls]
      BY <3>1, <1>1, <1>4 DEF QBTypes, QBCalls, Resting, GatedStages, ResolverStages, LockedStages
    <3>4. qbCount' \in [ops: 0..MaxQBOps, lost: 0..MaxLost]
      BY <3>1, <1>1, <1>4 DEF QBTypes
    <3> QED BY <3>1, <3>2, <3>3, <3>4, <1>1, <1>4 DEF QBTypes
  <2>2. \A d \in QBCallers : QBPlace(call[d], d, qbGate, qbLock) /\ QBPlace(call'[d], d, qbGate', qbLock')
    BY <2>1, <1>1, <1>4 DEF QBInv, QBTypes, QBCalls, QBPlace, Resting, GatedStages, ResolverStages, LockedStages
  <2>3. ASSUME qbGaps' = {} PROVE QBOrderly'
    <3>1. qbGaps = {} /\ QBOrderly
      BY <2>3, <1>1, <1>4 DEF QBInv
    <3> QED BY <2>1, <2>2, <3>1, <2>3, <1>1, <1>4 DEF QBTypes, QBCalls, QBOrderly, QBAlone, QBPromise, QBWork, QBSelection, QBPlace, Resting, NoTorrent, Daemons, ResolverStages, GatedStages, LockedStages
  <2> QED BY <2>1, <2>2, <2>3 DEF QBInv
<1>5. CASE Way4
  <2>1. QBTypes /\ QBTypes'
    <3>1. QBTypes
      BY DEF QBInv
    <3>2. torrent' \in Daemons
      BY <3>1, <1>1, <1>5 DEF QBTypes, QBCalls, Daemons, NoTorrent
    <3>3. call' \in [QBCallers -> QBCalls]
      BY <3>1, <1>1, <1>5 DEF QBTypes, QBCalls, Resting, GatedStages, ResolverStages, LockedStages
    <3>4. qbCount' \in [ops: 0..MaxQBOps, lost: 0..MaxLost]
      BY <3>1, <1>1, <1>5 DEF QBTypes
    <3> QED BY <3>1, <3>2, <3>3, <3>4, <1>1, <1>5 DEF QBTypes
  <2>2. \A d \in QBCallers : QBPlace(call[d], d, qbGate, qbLock) /\ QBPlace(call'[d], d, qbGate', qbLock')
    BY <2>1, <1>1, <1>5 DEF QBInv, QBTypes, QBCalls, QBPlace, Resting, GatedStages, ResolverStages, LockedStages
  <2>3. ASSUME qbGaps' = {} PROVE QBOrderly'
    <3>1. qbGaps = {} /\ QBOrderly
      BY <2>3, <1>1, <1>5 DEF QBInv
    <3> QED BY <2>1, <2>2, <3>1, <2>3, <1>1, <1>5 DEF QBTypes, QBCalls, QBOrderly, QBAlone, QBPromise, QBWork, QBSelection, QBPlace, Resting, NoTorrent, Daemons, ResolverStages, GatedStages, LockedStages
  <2> QED BY <2>1, <2>2, <2>3 DEF QBInv
<1> QED BY <1>1, <1>2, <1>3, <1>4, <1>5

LEMMA ToggleSchedulersOK ==
  ASSUME QBInv, NEW c \in QBCallers, ToggleSchedulers(c)
  PROVE  QBInv'
<1> USE QBAssumption
<1> DEFINE Way1 == 
             /\ call' = [call EXCEPT ![c].at = "verify"]
             /\ torrent' \in Daemons
             /\ torrent.there /\ torrent'.there = torrent.there /\ torrent'.by = torrent.by /\ torrent'.listed = torrent.listed /\ torrent'.doomed = torrent.doomed /\ torrent'.selected = torrent.selected
             /\ torrent.edges \/ call[c].changed => torrent'.edges
             /\ UNCHANGED <<ready, qbGate, qbLock, promised, streaming, qbGaps, qbCount>>
           Way2 == 
             /\ call' = [call EXCEPT ![c] = Resting]
             /\ qbLock' = "free"
             /\ torrent' \in Daemons
             /\ torrent'.there = torrent.there /\ torrent'.by = torrent.by /\ torrent'.listed = torrent.listed /\ torrent'.doomed = torrent.doomed /\ torrent'.selected = torrent.selected /\ torrent'.edges = torrent.edges
             /\ torrent'.there \/ torrent' = torrent
             /\ \/ call[c].changed /\ qbGaps' # {}
                \/ ~call[c].changed /\ qbGaps' = qbGaps
             /\ UNCHANGED <<ready, qbGate, promised, streaming, qbCount>>
<1>1. call[c].op = "prepare" /\ call[c].at = "status" /\ (Way1 \/ Way2)
  <2>0. QBTypes /\ qbCount.lost \in 0..MaxLost /\ torrent \in Daemons
    BY DEF QBInv, QBTypes
  <2>1. /\ call[c].op = "prepare" /\ call[c].at = "status" /\ call[c].changed \in BOOLEAN
        /\ UNCHANGED <<ready, qbGate, promised, streaming, qbCount>>
    BY <2>0 DEF ToggleSchedulers, QBAt, QBTypes, QBCalls
  <2>2. CASE Listed /\ QBTo(c, "verify") /\ torrent' = Toggled(torrent, Reapply(c))
             /\ UNCHANGED <<qbLock, qbGaps>>
    <3> DEFINE e == torrent.edges \/ Reapply(c) \/ ~torrent.firstLast
    <3>1. torrent' = [torrent EXCEPT !.seq = TRUE, !.firstLast = TRUE, !.edges = e]
      BY <2>2 DEF Toggled
    <3>2. e \in BOOLEAN
      OBVIOUS
    <3>3. torrent.edges \/ call[c].changed => e
      BY DEF Reapply
    <3> HIDE DEF e
    <3>4. torrent' \in Daemons /\ torrent'.edges = e
      BY <2>0, <3>1, <3>2 DEF Daemons
    <3>5. /\ torrent'.there = torrent.there /\ torrent'.by = torrent.by
          /\ torrent'.listed = torrent.listed /\ torrent'.doomed = torrent.doomed
          /\ torrent'.selected = torrent.selected
      BY <2>0, <3>1 DEF Daemons
    <3>6. torrent.edges \/ call[c].changed => torrent'.edges
      BY <3>3, <3>4
    <3> QED BY <2>1, <2>2, <3>4, <3>5, <3>6 DEF Listed, QBTo
  <2>3. ASSUME PrepareFails(c), NEW seq \in BOOLEAN, NEW firstLast \in BOOLEAN,
               torrent' = IF Listed THEN [torrent EXCEPT !.seq = seq, !.firstLast = firstLast]
                          ELSE torrent,
               qbGaps' = IF call[c].changed THEN qbGaps \cup {"half prepared"} ELSE qbGaps,
               UNCHANGED <<ready, qbGate, promised, streaming, qbCount>>
        PROVE  Way2
    <3>1. torrent' \in Daemons
      BY <2>0, <2>3 DEF Daemons
    <3>2. /\ torrent'.there = torrent.there /\ torrent'.by = torrent.by
          /\ torrent'.listed = torrent.listed /\ torrent'.doomed = torrent.doomed
          /\ torrent'.selected = torrent.selected /\ torrent'.edges = torrent.edges
      BY <2>0, <2>3 DEF Daemons
    <3>3. torrent'.there \/ torrent' = torrent
      BY <2>3, <3>2 DEF Listed
    <3>4. \/ call[c].changed /\ qbGaps' # {}
          \/ ~call[c].changed /\ qbGaps' = qbGaps
      BY <2>3
    <3> QED BY <2>3, <3>1, <3>2, <3>3, <3>4 DEF PrepareFails, Rests
  <2> HIDE DEF Way1, Way2
  <2> QED BY <2>1, <2>2, <2>3 DEF ToggleSchedulers
<1>2. CASE Way1
  <2>1. QBTypes /\ QBTypes'
    <3>1. QBTypes
      BY DEF QBInv
    <3>2. torrent' \in Daemons
      BY <3>1, <1>1, <1>2 DEF QBTypes, QBCalls, Daemons, NoTorrent
    <3>3. call' \in [QBCallers -> QBCalls]
      BY <3>1, <1>1, <1>2 DEF QBTypes, QBCalls, Resting, GatedStages, ResolverStages, LockedStages
    <3>4. qbCount' \in [ops: 0..MaxQBOps, lost: 0..MaxLost]
      BY <3>1, <1>1, <1>2 DEF QBTypes
    <3> QED BY <3>1, <3>2, <3>3, <3>4, <1>1, <1>2 DEF QBTypes
  <2>2. \A d \in QBCallers : QBPlace(call[d], d, qbGate, qbLock) /\ QBPlace(call'[d], d, qbGate', qbLock')
    BY <2>1, <1>1, <1>2 DEF QBInv, QBTypes, QBCalls, QBPlace, Resting, GatedStages, ResolverStages, LockedStages
  <2>3. ASSUME qbGaps' = {} PROVE QBOrderly'
    <3>1. qbGaps = {} /\ QBOrderly
      BY <2>3, <1>1, <1>2 DEF QBInv
    <3> QED BY <2>1, <2>2, <3>1, <2>3, <1>1, <1>2 DEF QBTypes, QBCalls, QBOrderly, QBAlone, QBPromise, QBWork, QBSelection, QBPlace, Resting, NoTorrent, Daemons, ResolverStages, GatedStages, LockedStages
  <2> QED BY <2>1, <2>2, <2>3 DEF QBInv
<1>3. CASE Way2
  <2>1. QBTypes /\ QBTypes'
    <3>1. QBTypes
      BY DEF QBInv
    <3>2. torrent' \in Daemons
      BY <3>1, <1>1, <1>3 DEF QBTypes, QBCalls, Daemons, NoTorrent
    <3>3. call' \in [QBCallers -> QBCalls]
      BY <3>1, <1>1, <1>3 DEF QBTypes, QBCalls, Resting, GatedStages, ResolverStages, LockedStages
    <3>4. qbCount' \in [ops: 0..MaxQBOps, lost: 0..MaxLost]
      BY <3>1, <1>1, <1>3 DEF QBTypes
    <3> QED BY <3>1, <3>2, <3>3, <3>4, <1>1, <1>3 DEF QBTypes
  <2>2. \A d \in QBCallers : QBPlace(call[d], d, qbGate, qbLock) /\ QBPlace(call'[d], d, qbGate', qbLock')
    BY <2>1, <1>1, <1>3 DEF QBInv, QBTypes, QBCalls, QBPlace, Resting, GatedStages, ResolverStages, LockedStages
  <2>3. ASSUME qbGaps' = {} PROVE QBOrderly'
    <3>1. qbGaps = {} /\ QBOrderly
      BY <2>3, <1>1, <1>3 DEF QBInv
    <3> QED BY <2>1, <2>2, <3>1, <2>3, <1>1, <1>3 DEF QBTypes, QBCalls, QBOrderly, QBAlone, QBPromise, QBWork, QBSelection, QBPlace, Resting, NoTorrent, Daemons, ResolverStages, GatedStages, LockedStages
  <2> QED BY <2>1, <2>2, <2>3 DEF QBInv
<1> QED BY <1>1, <1>2, <1>3

LEMMA VerifySchedulersOK ==
  ASSUME QBInv, NEW c \in QBCallers, VerifySchedulers(c)
  PROVE  QBInv'
<1> USE QBAssumption
<1> DEFINE Way1 == 
             /\ ready' = TRUE
             /\ \E b \in BOOLEAN : streaming' = b /\ (torrent.selected /\ torrent.edges => b)
             /\ UNCHANGED <<torrent, qbGate, promised, qbGaps, qbCount>>
           Way2 == /\ UNCHANGED <<torrent, ready, qbGate, promised, streaming, qbGaps, qbCount>>
<1>1. call[c].op = "prepare" /\ call[c].at = "verify" /\ call' = [call EXCEPT ![c] = Resting] /\ qbLock' = "free" /\ (Way1 \/ Way2)
  BY DEF VerifySchedulers, QBAt, PrepareFails, Rests, Listed, QBInv, QBTypes, QBCalls, Daemons
<1>2. CASE Way1
  <2>1. QBTypes /\ QBTypes'
    <3>1. QBTypes
      BY DEF QBInv
    <3>2. torrent' \in Daemons
      BY <3>1, <1>1, <1>2 DEF QBTypes, QBCalls, Daemons, NoTorrent
    <3>3. call' \in [QBCallers -> QBCalls]
      BY <3>1, <1>1, <1>2 DEF QBTypes, QBCalls, Resting, GatedStages, ResolverStages, LockedStages
    <3>4. qbCount' \in [ops: 0..MaxQBOps, lost: 0..MaxLost]
      BY <3>1, <1>1, <1>2 DEF QBTypes
    <3> QED BY <3>1, <3>2, <3>3, <3>4, <1>1, <1>2 DEF QBTypes
  <2>2. \A d \in QBCallers : QBPlace(call[d], d, qbGate, qbLock) /\ QBPlace(call'[d], d, qbGate', qbLock')
    BY <2>1, <1>1, <1>2 DEF QBInv, QBTypes, QBCalls, QBPlace, Resting, GatedStages, ResolverStages, LockedStages
  <2>3. ASSUME qbGaps' = {} PROVE QBOrderly'
    <3>1. qbGaps = {} /\ QBOrderly
      BY <2>3, <1>1, <1>2 DEF QBInv
    <3> QED BY <2>1, <2>2, <3>1, <2>3, <1>1, <1>2 DEF QBTypes, QBCalls, QBOrderly, QBAlone, QBPromise, QBWork, QBSelection, QBPlace, Resting, NoTorrent, Daemons, ResolverStages, GatedStages, LockedStages
  <2> QED BY <2>1, <2>2, <2>3 DEF QBInv
<1>3. CASE Way2
  <2>1. QBTypes /\ QBTypes'
    <3>1. QBTypes
      BY DEF QBInv
    <3>2. torrent' \in Daemons
      BY <3>1, <1>1, <1>3 DEF QBTypes, QBCalls, Daemons, NoTorrent
    <3>3. call' \in [QBCallers -> QBCalls]
      BY <3>1, <1>1, <1>3 DEF QBTypes, QBCalls, Resting, GatedStages, ResolverStages, LockedStages
    <3>4. qbCount' \in [ops: 0..MaxQBOps, lost: 0..MaxLost]
      BY <3>1, <1>1, <1>3 DEF QBTypes
    <3> QED BY <3>1, <3>2, <3>3, <3>4, <1>1, <1>3 DEF QBTypes
  <2>2. \A d \in QBCallers : QBPlace(call[d], d, qbGate, qbLock) /\ QBPlace(call'[d], d, qbGate', qbLock')
    BY <2>1, <1>1, <1>3 DEF QBInv, QBTypes, QBCalls, QBPlace, Resting, GatedStages, ResolverStages, LockedStages
  <2>3. ASSUME qbGaps' = {} PROVE QBOrderly'
    <3>1. qbGaps = {} /\ QBOrderly
      BY <2>3, <1>1, <1>3 DEF QBInv
    <3> QED BY <2>1, <2>2, <3>1, <2>3, <1>1, <1>3 DEF QBTypes, QBCalls, QBOrderly, QBAlone, QBPromise, QBWork, QBSelection, QBPlace, Resting, NoTorrent, Daemons, ResolverStages, GatedStages, LockedStages
  <2> QED BY <2>1, <2>2, <2>3 DEF QBInv
<1> QED BY <1>1, <1>2, <1>3

LEMMA QBBeginOK ==
  ASSUME QBInv, NEW c \in QBCallers, NEW op \in QBOps, QBBegin(c, op)
  PROVE  QBInv'
<1> USE QBAssumption
<1>1. /\ call[c].op = "none" /\ (op \in {"prepare", "remove"} => promised)
      /\ call' = [call EXCEPT ![c] = [op |-> op, at |-> "wait", changed |-> FALSE]]
      /\ UNCHANGED <<torrent, ready, qbGate, qbLock, streaming>>
  <2>1. [Resting EXCEPT !.op = op, !.at = "wait"] = [op |-> op, at |-> "wait", changed |-> FALSE]
    <3> DEFINE r == [Resting EXCEPT !.op = op, !.at = "wait"]
    <3>1. Resting \in QBCalls
      BY DEF Resting, QBCalls
    <3>2. r \in QBCalls /\ r.op = op /\ r.at = "wait"
      BY <3>1 DEF QBCalls
    <3>3. r.changed = FALSE
      BY <3>1 DEF Resting, QBCalls
    <3> HIDE DEF r
    <3>4. r = [op |-> op, at |-> "wait", changed |-> FALSE]
      BY <3>2, <3>3 DEF QBCalls
    <3> QED BY <3>4 DEF r
  <2> QED BY <2>1 DEF QBBegin
<1>2. QBTypes /\ QBTypes'
  <2>1. QBTypes
    BY DEF QBInv
  <2>2. call' \in [QBCallers -> QBCalls]
    BY <1>1, <2>1 DEF QBTypes, QBCalls
  <2>3. qbCount' \in [ops: 0..MaxQBOps, lost: 0..MaxLost]
    <3>1. qbCount.ops < MaxQBOps /\ qbCount' = [qbCount EXCEPT !.ops = @ + 1]
      BY DEF QBBegin
    <3> QED BY <2>1, <3>1 DEF QBTypes
  <2>4. promised' \in BOOLEAN
    BY DEF QBBegin
  <2> QED BY <1>1, <2>1, <2>2, <2>3, <2>4 DEF QBTypes
<1>3. \A d \in QBCallers : QBPlace(call[d], d, qbGate, qbLock) /\ QBPlace(call'[d], d, qbGate', qbLock')
  BY <1>1, <1>2 DEF QBInv, QBTypes, QBCalls, QBPlace, GatedStages, ResolverStages, LockedStages
<1>4. ASSUME qbGaps' = {} PROVE QBOrderly'
  <2>1. qbGaps = {} /\ QBOrderly
    BY <1>4 DEF QBInv, QBBegin
  <2>2. torrent.doomed # "remove"
    BY <1>4 DEF QBBegin
  <2>3. ASSUME NEW d \in QBCallers, call[d].op # "none" PROVE op # "remove" /\ call[d].op # "remove"
    BY <1>4, <2>3 DEF QBBegin
  <2>4. (promised' => promised) /\ (op = "remove" => ~promised') /\ (op = "prepare" => promised')
        /\ (op # "remove" => (promised' <=> promised))
    BY <1>1 DEF QBBegin
  <2>5. QBAlone'
    BY <1>1, <1>2, <2>1, <2>3 DEF QBTypes, QBCalls, QBOrderly, QBAlone
  <2>6. QBPromise'
    BY <1>1, <1>2, <2>1, <2>2, <2>4 DEF QBTypes, QBCalls, QBOrderly, QBPromise, NoTorrent
  <2>7. ASSUME NEW d \in QBCallers PROVE (QBWork(call[d], d, qbGate) /\ QBSelection(call[d]))'
    <3>1. QBWork(call[d], d, qbGate) /\ QBSelection(call[d])
      BY <2>1 DEF QBOrderly
    <3>2. QBPlace(call[c], c, qbGate, qbLock) /\ QBPlace(call[d], d, qbGate, qbLock)
      BY <1>3
    <3>3. CASE d = c
      <4>1. call'[d] = [op |-> op, at |-> "wait", changed |-> FALSE] /\ qbGate # d
        BY <1>1, <1>2, <3>2, <3>3 DEF QBTypes, QBPlace, GatedStages
      <4>2. QBSelection(call[d])'
        BY <4>1 DEF QBSelection
      <4> QED BY <1>1, <2>4, <4>1, <4>2 DEF QBWork
    <3>4. CASE d # c
      <4>1. call'[d] = call[d]
        BY <1>1, <1>2, <3>4 DEF QBTypes
      <4>2. call[d].op = "prepare" => op # "remove"
        BY <2>3
      <4> QED BY <1>1, <2>4, <3>1, <4>1, <4>2 DEF QBWork, QBSelection
    <3> QED BY <3>3, <3>4
  <2>8. torrent'.selected =>
          torrent'.edges \/ \E d \in QBCallers : call'[d].at = "status" /\ call'[d].changed
    <3>1. ASSUME torrent.selected, ~torrent.edges
          PROVE  \E d \in QBCallers : call'[d].at = "status" /\ call'[d].changed
      <4>1. PICK d \in QBCallers : call[d].at = "status" /\ call[d].changed
        BY <2>1, <3>1 DEF QBOrderly
      <4>2. d # c
        BY <1>1, <1>3, <4>1 DEF QBPlace
      <4>3. call'[d] = call[d]
        BY <1>1, <1>2, <4>2 DEF QBTypes
      <4> QED BY <4>1, <4>3
    <3> QED BY <1>1, <3>1
  <2>9. streaming' /\ (torrent'.there /\ torrent'.by = "resolver" => qbGate' # "free")
    BY <1>1, <2>1 DEF QBOrderly
  <2> QED BY <2>5, <2>6, <2>7, <2>8, <2>9 DEF QBOrderly
<1> QED BY <1>2, <1>3, <1>4 DEF QBInv

LEMMA DaemonWorksOK ==
  ASSUME QBInv, DaemonWorks
  PROVE  QBInv'
<1>1. /\ torrent.there
      /\ \/ torrent' = [torrent EXCEPT !.listed = TRUE]
         \/ torrent' = [torrent EXCEPT !.meta = TRUE]
         \/ torrent.doomed # "no" /\ torrent' = NoTorrent
      /\ UNCHANGED <<ready, qbGate, qbLock, call, promised, streaming, qbGaps, qbCount>>
  BY DEF DaemonWorks
<1>2. QBTypes /\ QBTypes'
  <2>1. QBTypes
    BY DEF QBInv
  <2>2. torrent' \in Daemons
    <3>1. torrent \in Daemons /\ NoTorrent \in Daemons
      BY <2>1 DEF QBTypes, Daemons, NoTorrent
    <3>2. [torrent EXCEPT !.listed = TRUE] \in Daemons /\ [torrent EXCEPT !.meta = TRUE] \in Daemons
      BY <3>1 DEF Daemons
    <3> QED BY <1>1, <3>1, <3>2
  <2> QED BY <1>1, <2>1, <2>2 DEF QBTypes
<1>3. ASSUME qbGaps' = {} PROVE QBOrderly'
  <2>1. QBOrderly
    BY <1>1, <1>3 DEF QBInv
  <2>2. CASE /\ torrent'.there /\ torrent'.by = torrent.by /\ torrent'.doomed = torrent.doomed
             /\ torrent'.selected = torrent.selected /\ torrent'.edges = torrent.edges
             /\ torrent.listed => torrent'.listed
    BY <1>1, <2>1, <2>2 DEF QBOrderly, QBAlone, QBPromise, QBWork, QBSelection
  <2>3. CASE torrent.doomed # "no" /\ torrent' = NoTorrent
    BY <1>1, <1>2, <2>1, <2>3, \A d \in QBCallers : QBPlace(call[d], d, qbGate, qbLock)
       DEF QBInv, QBTypes, QBCalls, QBPlace, QBOrderly, QBAlone, QBPromise, QBWork, QBSelection, NoTorrent, Daemons, LockedStages
  <2>4. CASE torrent' = [torrent EXCEPT !.listed = TRUE] \/ torrent' = [torrent EXCEPT !.meta = TRUE]
    BY <1>1, <1>2, <2>2, <2>4 DEF QBTypes, Daemons
  <2> QED BY <1>1, <2>3, <2>4
<1> QED BY <1>1, <1>2, <1>3 DEF QBInv

LEMMA ForeignSelectsOK ==
  ASSUME QBInv, ForeignSelects
  PROVE  QBInv'
<1>1. /\ torrent.there
      /\ torrent' = [torrent EXCEPT !.selected = FALSE, !.edges = FALSE]
      /\ qbGaps' = IF qbLock = "free" THEN qbGaps ELSE qbGaps \cup {"overlap"}
      /\ UNCHANGED <<ready, qbGate, qbLock, call, promised, streaming, qbCount>>
  BY DEF ForeignSelects, Listed
<1>2. QBTypes /\ QBTypes'
  <2>1. QBTypes
    BY DEF QBInv
  <2>2. torrent' \in Daemons
    BY <1>1, <2>1 DEF QBTypes, Daemons
  <2> QED BY <1>1, <2>1, <2>2 DEF QBTypes
<1>3. ASSUME qbGaps' = {} PROVE QBOrderly'
  <2>1. qbGaps = {} /\ QBOrderly /\ qbLock = "free"
    BY <1>1, <1>3 DEF QBInv
  <2>2. /\ torrent'.there /\ torrent'.by = torrent.by /\ torrent'.doomed = torrent.doomed
        /\ torrent'.listed = torrent.listed /\ torrent'.selected = FALSE
    BY <1>1, <1>2 DEF QBTypes, Daemons
  <2>3. \A d \in QBCallers : call[d].at \notin LockedStages
    BY <2>1, QBAssumption DEF QBInv, QBPlace
  <2> QED BY <1>1, <2>1, <2>2, <2>3 DEF QBOrderly, QBAlone, QBPromise, QBWork, QBSelection, LockedStages
<1> QED BY <1>1, <1>2, <1>3 DEF QBInv

LEMMA QBInitOK ==
  ASSUME QBInit
  PROVE  QBInv
<1>1. QBTypes
  <2>1. torrent \in Daemons /\ Resting \in QBCalls
    BY DEF QBInit, Daemons, NoTorrent, QBCalls, Resting
  <2>2. qbCount \in [ops: 0..MaxQBOps, lost: 0..MaxLost]
    BY QBAssumption DEF QBInit
  <2> QED BY <2>1, <2>2 DEF QBInit, QBTypes
<1>2. \A c \in QBCallers : QBPlace(call[c], c, qbGate, qbLock)
  BY QBAssumption DEF QBInit, QBPlace, Resting, GatedStages, ResolverStages, LockedStages
<1>3. QBOrderly
  BY QBAssumption DEF QBInit, QBOrderly, QBAlone, QBPromise, QBWork, QBSelection, NoTorrent, Resting
<1> QED BY <1>1, <1>2, <1>3 DEF QBInv

LEMMA QBStepOK ==
  ASSUME QBInv, [QBNext]_qbVars
  PROVE  QBInv'
<1>1. CASE UNCHANGED qbVars
  BY <1>1 DEF qbVars, QBInv, QBTypes, QBOrderly, QBAlone, QBPromise, QBWork, QBSelection, NoTorrent
<1>2. CASE DaemonWorks
  BY <1>2, DaemonWorksOK
<1>3. CASE ForeignSelects
  BY <1>3, ForeignSelectsOK
<1>4. ASSUME NEW c \in QBCallers, QBOperation(c) PROVE QBInv'
  <2>1. CASE AcquireGate(c) \/ QBAdd(c) \/ Preflight(c) \/ AddMagnet(c) \/ LookForAdded(c)
    BY <2>1, AcquireGateOK, QBAddOK, PreflightOK, AddMagnetOK, LookForAddedOK
  <2>2. CASE ExportPreexisting(c) \/ PollMetadata(c) \/ CleanupRemoves(c) \/ CleanupWaits(c)
    BY <2>2, ExportPreexistingOK, PollMetadataOK, CleanupRemovesOK, CleanupWaitsOK
  <2>3. CASE TakeLock(c) \/ SetFilePrio(c) \/ ToggleSchedulers(c) \/ VerifySchedulers(c)
    BY <2>3, TakeLockOK, SetFilePrioOK, ToggleSchedulersOK, VerifySchedulersOK
  <2>4. CASE QBRemove(c) \/ \E op \in QBOps : QBBegin(c, op)
    BY <2>4, QBRemoveOK, QBBeginOK
  <2> QED BY <1>4, <2>1, <2>2, <2>3, <2>4 DEF QBOperation
<1> QED BY <1>1, <1>2, <1>3, <1>4 DEF QBNext

LEMMA QBInvSafe ==
  ASSUME QBInv
  PROVE  QBittorrentSafe
<1> USE QBAssumption
<1>1. QBTypes /\ \A c \in QBCallers : QBPlace(call[c], c, qbGate, qbLock)
  BY DEF QBInv
<1>2. QBTypeOK
  <2>1. qbGate = "free" \/ call[qbGate].op \in {"add", "resolve"}
    BY <1>1 DEF QBTypes, QBPlace, GatedStages
  <2>2. qbLock = "free" \/ call[qbLock].op = "prepare"
    BY <1>1 DEF QBTypes, QBPlace
  <2>3. \A c \in QBCallers : call[c].op \in QBOps \cup {"none"} /\ call[c].changed \in BOOLEAN
    BY <1>1 DEF QBTypes, QBCalls
  <2> QED BY <1>1, <2>1, <2>2, <2>3 DEF QBTypeOK, QBTypes, Daemons
<1>3. ASSUME qbGaps = {} PROVE ResolverCleansUp /\ PreparedStreams
  <2>1. QBOrderly
    BY <1>3 DEF QBInv
  <2>2. ASSUME \A c \in QBCallers : call[c].op # "resolve", torrent.there, torrent.by # "app"
        PROVE  FALSE
    <3>1. torrent.by = "resolver" /\ qbGate \in QBCallers
      BY <1>1, <2>1, <2>2 DEF QBTypes, Daemons, QBOrderly
    <3>2. call[qbGate].at \in {"look", "poll", "cleanup", "removing"}
      BY <2>1, <2>2, <3>1 DEF QBOrderly, QBWork
    <3> QED BY <1>1, <2>2, <3>1, <3>2 DEF QBPlace, ResolverStages
  <2> QED BY <2>1, <2>2 DEF ResolverCleansUp, PreparedStreams, QBOrderly, QBPromise
<1> QED BY <1>2, <1>3 DEF QBittorrentSafe, ResolverCleansUp, PreparedStreams

(* The adapter leaves the daemon with the torrents that were asked for and *)
(* a prepared file ready to be streamed, unless something it does not      *)
(* provide for has happened (client.go, resolve.go), for any number of     *)
(* callers, operations and lost answers.                                   *)
THEOREM QBittorrentTheorem == QBInit /\ [][QBNext]_qbVars => []QBittorrentSafe
<1>1. QBInit => QBInv
  BY QBInitOK
<1>2. QBInv /\ [QBNext]_qbVars => QBInv'
  BY QBStepOK
<1>3. QBInv => QBittorrentSafe
  BY QBInvSafe
<1> QED BY <1>1, <1>2, <1>3, PTL
-----------------------------------------------------------------------------
(* The data directory: the inductive invariant.  While no two calls of     *)
(* ChangeDataDir have overlapped there is one mover, and the place it      *)
(* moves to holds as much as the one it has copied from.                   *)

AtRest == {"idle", "ended", "stranded"}
DDStages == MoveSteps \cup AtRest \cup {"state", "stop", "stopped", "move", "autostart",
                                        "restart"}
DDTrees == [holds: {"none", "fresh", "part", "full"}, paths: Locations \cup {"relative"}]
DDChanges == [at: DDStages, from: Locations \cup {"none"}, to: Locations \cup {"none"},
              wasRunning: BOOLEAN]

DDTypes ==
    /\ trees \in [Locations -> DDTrees] /\ change \in [Dialogs -> DDChanges]
    /\ pointer \in Locations \cup {"none"} /\ autostart \in Locations \cup {"none"}
    /\ app \in [up: BOOLEAN, dir: Locations, relocating: BOOLEAN, broken: BOOLEAN]
    /\ server \in [state: {"stopped", "starting", "running", "stopping", "failed"},
                   on: Locations]
    /\ changes \in 0..MaxChanges /\ launches \in 0..MaxLaunches

(* A call knows its two places, and none outlives the process.             *)
DDCalls ==
    /\ \A d \in Dialogs : change[d].at # "idle" =>
          change[d].from \in Locations /\ change[d].to \in Locations
    /\ ~app.up => server.state = "stopped" /\ \A d \in Dialogs : change[d].at = "idle"

DDCopied(k) ==
    /\ k.at = "copy" => k.to # k.from /\ trees[k.to].holds = "part"
    /\ k.at = "remove" => /\ k.to # k.from /\ trees[k.from].holds # "none"
                          /\ trees[k.to].holds = trees[k.from].holds

DDAlone ==
    /\ \A c, d \in Dialogs : c # d /\ change[c].at \notin AtRest => change[d].at \in AtRest
    /\ \A d \in Dialogs : DDCopied(change[d])
    /\ \E l \in Locations : trees[l].holds = "full"

(* With none of the gaps the property names, the whole tree is where the   *)
(* pointer, the entry and the holder say, or the call that moves it is     *)
(* between the steps that tell them, with no server running.               *)
Escapes == {"removal", "saved", "overlapped", "crashed", "unfinished"}

Whole(l, paths) == trees[l].holds = "full" /\ trees[l].paths \in {"relative", paths}
Points(l) == pointer = l \/ (pointer = "none" /\ l = Home)
Settled(l) == Whole(l, l) /\ Points(l) /\ autostart \in {"none", l}

DDMove(k) ==
    /\ k.at \notin AtRest \cup {"restart"} => app.relocating
    /\ k.at \notin AtRest \cup {"restart", "autostart"} => k.from = app.dir
    /\ k.at \in MoveSteps \cup {"move", "autostart"} => Startable
    /\ k.at = "stopped" => server.state \in {"stopping", "stopped", "failed"}
    /\ k.at \in {"copy", "remove"} => Settled(k.from) \/ app.broken
    /\ k.at = "remove" => Whole(k.to, k.from) \/ app.broken
    /\ k.at \in {"pointer", "remap"} =>
          (trees[k.from].holds = "none" /\ Whole(k.to, k.from)) \/ app.broken
    /\ k.at \in {"load", "swap", "autostart"} => Whole(k.to, k.to) \/ app.broken
    /\ k.at \in {"remap", "load", "swap", "autostart"} => pointer = k.to \/ app.broken
    /\ k.at \in {"pointer", "remap", "load", "swap"} =>
          autostart \in {"none", k.from} \/ app.broken
    /\ k.at = "autostart" => app.dir = k.to

DDSettled ==
    /\ \A d \in Dialogs : DDMove(change[d])
    /\ app.broken => Startable /\ app.up
    /\ (\A d \in Dialogs : change[d].at \notin MoveSteps \cup {"autostart"}) =>
          Settled(app.dir) \/ app.broken
    /\ server.state = "running" => server.on = app.dir

DDInv ==
    /\ DDTypes /\ DDCalls
    /\ "overlapped" \notin moveGaps => DDAlone
    /\ moveGaps \cap Escapes = {} => DDSettled

(* What a step does to the calls: one of them goes to its next stage.      *)
DDGone(d, place) ==
    /\ change' \in [Dialogs -> DDChanges] /\ change'[d].at = place
    /\ change'[d].from = change[d].from /\ change'[d].to = change[d].to
    /\ \A e \in Dialogs \ {d} : change'[e] = change[e]

LEMMA GoesIs ==
  ASSUME DDTypes, NEW d \in Dialogs, NEW place \in DDStages, Goes(d, place)
  PROVE  DDGone(d, place)
BY DEF DDTypes, Goes, DDGone, DDChanges

(* What may happen to the trees besides the steps of a move: a directory   *)
(* that was not there is made.                                             *)
DDGrown ==
    \A l \in Locations :
       \/ trees'[l].holds = trees[l].holds
       \/ trees[l].holds = "none" /\ trees'[l].holds = "fresh"

LEMMA MadeIs ==
  ASSUME NEW k \in [Locations -> DDTrees], NEW l \in Locations
  PROVE  /\ Made(k, l) \in [Locations -> DDTrees]
         /\ \A m \in Locations : /\ Made(k, l)[m].paths = k[m].paths
                                 /\ Made(k, l)[m].holds = IF m = l /\ k[m].holds = "none"
                                                         THEN "fresh" ELSE k[m].holds
         /\ k[l].holds # "none" => Made(k, l) = k
BY DEF Made, DDTrees

LEMMA AnchorsAre ==
  ASSUME DDTypes
  PROVE  /\ Anchors(trees, app.dir) \subseteq Locations
         /\ Whole(app.dir, app.dir) => Anchors(trees, app.dir) = {app.dir}
BY DataDirAssumption DEF DDTypes, DDTrees, Anchors, Whole

(* A call that ends by resuming: its move is broken when the source is     *)
(* gone, otherwise the server may be started by a call that overlaps.      *)
DDResumed(d, gone) ==
    \/ /\ gone /\ DDGone(d, "ended") /\ server' = server
       /\ app' = [app EXCEPT !.relocating = FALSE, !.broken = TRUE]
    \/ /\ ~gone /\ \E place \in {"ended", "stranded"} : DDGone(d, place)
       /\ app' = [app EXCEPT !.relocating = FALSE]
       /\ \/ server' = server
          \/ /\ app.up /\ ~app.relocating /\ ~app.broken
             /\ server' = [server EXCEPT !.state = "starting"]

LEMMA ResumeIs ==
  ASSUME DDTypes, NEW d \in Dialogs, NEW k, ResumeServer(d, k)
  PROVE  DDResumed(d, k[change[d].from].holds = "none")
<1>1. CASE k[change[d].from].holds = "none"
  BY <1>1, GoesIs DEF ResumeServer, Breaks, DDResumed, DDStages, AtRest
<1>2. CASE k[change[d].from].holds # "none"
  <2>1. \E place \in {"ended", "stranded"} : DDGone(d, place)
    <3>1. Goes(d, "ended") \/ Goes(d, "stranded")
      BY <1>2 DEF ResumeServer
    <3> QED BY <3>1, GoesIs DEF DDStages, AtRest
  <2>2. /\ app' = [app EXCEPT !.relocating = FALSE]
        /\ server' = IF change[d].wasRunning /\ Startable /\ CanStart
                      THEN [server EXCEPT !.state = "starting"] ELSE server
    BY <1>2 DEF ResumeServer
  <2>3. \/ server' = server
        \/ CanStart /\ server' = [server EXCEPT !.state = "starting"]
    BY <2>2
  <2> QED BY <1>2, <2>1, <2>2, <2>3 DEF DDResumed, CanStart
<1> QED BY <1>1, <1>2

LEMMA ResumedCalls ==
  ASSUME DDTypes, DDCalls, NEW d \in Dialogs, app.up, change[d].at # "idle",
         NEW gone, DDResumed(d, gone)
  PROVE  DDCalls'
<1>1. PICK place \in {"ended", "stranded"} : DDGone(d, place)
  BY DEF DDResumed
<1>2. app'.up
  BY DEF DDResumed, DDTypes
<1>3. \A e \in Dialogs : change'[e].at # "idle" =>
        change'[e].from \in Locations /\ change'[e].to \in Locations
  BY <1>1 DEF DDGone, DDCalls
<1> QED BY <1>2, <1>3 DEF DDCalls

LEMMA ResumedIs ==
  ASSUME DDTypes, NEW d \in Dialogs, NEW gone \in BOOLEAN, DDResumed(d, gone)
  PROVE  /\ \E place \in {"ended", "stranded"} : DDGone(d, place)
         /\ \A e \in Dialogs \ {d} : change'[e] = change[e]
         /\ app'.dir = app.dir /\ app'.up = app.up /\ ~app'.relocating
         /\ app.broken => app'.broken
         /\ gone => app'.broken
         /\ \/ server' = server
            \/ /\ app.up /\ ~app.relocating /\ ~app.broken
               /\ server' = [server EXCEPT !.state = "starting"]
BY DEF DDResumed, DDTypes, DDGone

LEMMA AloneAt ==
  ASSUME DDAlone, NEW d \in Dialogs, change[d].at \notin AtRest
  PROVE  \A e \in Dialogs \ {d} : change[e].at \in AtRest
BY DEF DDAlone

LEMMA MoveAt ==
  ASSUME DDSettled, DDAlone, NEW d \in Dialogs, change[d].at = "move"
  PROVE  Settled(app.dir) \/ app.broken
<1>1. \A e \in Dialogs : change[e].at \in AtRest \cup {"move"}
  BY AloneAt DEF AtRest
<1> QED BY <1>1 DEF DDSettled, AtRest, MoveSteps

LEMMA CheckStateOK ==
  ASSUME DDInv, NEW d \in Dialogs, CheckState(d)
  PROVE  DDInv'
<1> DEFINE Way1 ==
             /\ server.state = "running"
             /\ DDGone(d, "stop")
             /\ UNCHANGED <<trees, pointer, autostart, app, server, moveGaps, changes, launches>>
           Way2 ==
             /\ server.state \in {"starting", "stopping"}
             /\ DDGone(d, "ended")
             /\ app' = [app EXCEPT !.relocating = FALSE]
             /\ UNCHANGED <<trees, pointer, autostart, server, moveGaps, changes, launches>>
           Way3 ==
             /\ Startable
             /\ DDGone(d, "move")
             /\ UNCHANGED <<trees, pointer, autostart, app, server, moveGaps, changes, launches>>
<1>0. DDTypes
  BY DEF DDInv
<1>1. app.up /\ change[d].at = "state" /\ (Way1 \/ Way2 \/ Way3)
  BY <1>0, GoesIs, ResumeIs DEF CheckState, At, DDStages, AtRest, MoveSteps, Ends, Startable
<1>2. CASE Way1
  <2>1. DDTypes /\ DDTypes'
    <3>1. DDTypes
      BY DEF DDInv
    <3>2. trees' \in [Locations -> DDTrees]
      BY <3>1, DataDirAssumption, <1>1, <1>2 DEF DDTypes, DDTrees, DDCalls, DDInv, Absent
    <3>3. change' \in [Dialogs -> DDChanges]
      BY <3>1, <1>1, <1>2 DEF DDTypes, DDTrees, DDChanges, DDGone, DDStages, MoveSteps, AtRest, Absent
    <3>4. app' \in [up: BOOLEAN, dir: Locations, relocating: BOOLEAN, broken: BOOLEAN]
      BY <3>1, <1>1, <1>2 DEF DDTypes, DDCalls, DDInv
    <3>5. server' \in [state: {"stopped", "starting", "running", "stopping", "failed"},
                        on: Locations]
      BY <3>1, <1>1, <1>2 DEF DDTypes
    <3>6. pointer' \in Locations \cup {"none"} /\ autostart' \in Locations \cup {"none"}
      BY <3>1, <1>1, <1>2 DEF DDTypes, DDCalls, DDInv
    <3> QED BY <3>1, <3>2, <3>3, <3>4, <3>5, <3>6, <1>1, <1>2 DEF DDTypes
  <2>2. DDCalls /\ DDCalls'
    BY <2>1, <1>1, <1>2 DEF DDInv, DDCalls, DDTypes, DDTrees, DDChanges, DDGone, DDStages, MoveSteps, AtRest, Absent
  <2>3. ASSUME "overlapped" \notin moveGaps' PROVE DDAlone /\ DDAlone'
    <3>1. DDAlone
      BY <2>3, <1>1, <1>2 DEF DDInv
    <3>2. \A e, f \in Dialogs : e # f /\ change'[e].at \notin AtRest => change'[f].at \in AtRest
      BY <2>1, <3>1, <1>1, <1>2 DEF DDAlone, DDTypes, DDTrees, DDChanges, DDGone, DDStages, MoveSteps, AtRest, Absent
    <3>3. \A e \in Dialogs : DDCopied(change[e])'
      BY <2>1, <2>2, <3>1, <1>1, <1>2 DEF DDAlone, DDCopied, DDCalls, DDTypes, DDTrees, DDChanges, DDGone, DDStages, MoveSteps, AtRest, Absent
    <3>4. PICK l \in Locations : trees[l].holds = "full"
      BY <3>1 DEF DDAlone
    <3>5. \E m \in Locations : trees'[m].holds = "full"
      BY <2>1, <2>2, <3>1, <3>4, <1>1, <1>2 DEF DDAlone, DDCopied, DDCalls, DDTypes, DDTrees, DDChanges, DDGone, DDStages, MoveSteps, AtRest, Absent
    <3> QED BY <3>1, <3>2, <3>3, <3>5 DEF DDAlone
  <2>4. ASSUME moveGaps' \cap Escapes = {} PROVE DDSettled'
    <3>1. DDSettled /\ DDAlone /\ DDAlone'
      BY <2>3, <2>4, <1>1, <1>2 DEF DDInv, Escapes
    <3>2. \A e \in Dialogs : DDMove(change[e])'
      BY <2>1, <2>2, <2>4, <3>1, <1>1, <1>2
         DEF DDSettled, DDMove, DDAlone, DDCopied, DDCalls, Settled, Whole, Points, Startable, Escapes, DDTypes, DDTrees, DDChanges, DDGone, DDStages, MoveSteps, AtRest, Absent
    <3>3. (app.broken => Startable /\ app.up)' /\ (server.state = "running" => server.on = app.dir)'
      BY <2>1, <2>2, <2>4, <3>1, <1>1, <1>2 DEF DDSettled, DDMove, DDCalls, Startable, DDTypes, DDTrees, DDChanges, DDGone, DDStages, MoveSteps, AtRest, Absent
    <3>4. ASSUME \A e \in Dialogs : change'[e].at \notin MoveSteps \cup {"autostart"}
           PROVE  (Settled(app.dir) \/ app.broken)'
      BY <2>1, <2>2, <2>4, <3>1, <3>4, <1>1, <1>2
         DEF DDSettled, DDMove, DDAlone, DDCopied, DDCalls, Settled, Whole, Points, Startable, Escapes, DDTypes, DDTrees, DDChanges, DDGone, DDStages, MoveSteps, AtRest, Absent
    <3> QED BY <3>2, <3>3, <3>4 DEF DDSettled
  <2> QED BY <2>1, <2>2, <2>3, <2>4 DEF DDInv
<1>3. CASE Way2
  <2>1. DDTypes /\ DDTypes'
    <3>1. DDTypes
      BY DEF DDInv
    <3>2. trees' \in [Locations -> DDTrees]
      BY <3>1, DataDirAssumption, <1>1, <1>3 DEF DDTypes, DDTrees, DDCalls, DDInv, Absent
    <3>3. change' \in [Dialogs -> DDChanges]
      BY <3>1, <1>1, <1>3 DEF DDTypes, DDTrees, DDChanges, DDGone, DDStages, MoveSteps, AtRest, Absent
    <3>4. app' \in [up: BOOLEAN, dir: Locations, relocating: BOOLEAN, broken: BOOLEAN]
      BY <3>1, <1>1, <1>3 DEF DDTypes, DDCalls, DDInv
    <3>5. server' \in [state: {"stopped", "starting", "running", "stopping", "failed"},
                        on: Locations]
      BY <3>1, <1>1, <1>3 DEF DDTypes
    <3>6. pointer' \in Locations \cup {"none"} /\ autostart' \in Locations \cup {"none"}
      BY <3>1, <1>1, <1>3 DEF DDTypes, DDCalls, DDInv
    <3> QED BY <3>1, <3>2, <3>3, <3>4, <3>5, <3>6, <1>1, <1>3 DEF DDTypes
  <2>2. DDCalls /\ DDCalls'
    BY <2>1, <1>1, <1>3 DEF DDInv, DDCalls, DDTypes, DDTrees, DDChanges, DDGone, DDStages, MoveSteps, AtRest, Absent
  <2>3. ASSUME "overlapped" \notin moveGaps' PROVE DDAlone /\ DDAlone'
    <3>1. DDAlone
      BY <2>3, <1>1, <1>3 DEF DDInv
    <3>2. \A e, f \in Dialogs : e # f /\ change'[e].at \notin AtRest => change'[f].at \in AtRest
      BY <2>1, <3>1, <1>1, <1>3 DEF DDAlone, DDTypes, DDTrees, DDChanges, DDGone, DDStages, MoveSteps, AtRest, Absent
    <3>3. \A e \in Dialogs : DDCopied(change[e])'
      BY <2>1, <2>2, <3>1, <1>1, <1>3 DEF DDAlone, DDCopied, DDCalls, DDTypes, DDTrees, DDChanges, DDGone, DDStages, MoveSteps, AtRest, Absent
    <3>4. PICK l \in Locations : trees[l].holds = "full"
      BY <3>1 DEF DDAlone
    <3>5. \E m \in Locations : trees'[m].holds = "full"
      BY <2>1, <2>2, <3>1, <3>4, <1>1, <1>3 DEF DDAlone, DDCopied, DDCalls, DDTypes, DDTrees, DDChanges, DDGone, DDStages, MoveSteps, AtRest, Absent
    <3> QED BY <3>1, <3>2, <3>3, <3>5 DEF DDAlone
  <2>4. ASSUME moveGaps' \cap Escapes = {} PROVE DDSettled'
    <3>1. DDSettled /\ DDAlone /\ DDAlone'
      BY <2>3, <2>4, <1>1, <1>3 DEF DDInv, Escapes
    <3>2. \A e \in Dialogs : DDMove(change[e])'
      BY <2>1, <2>2, <2>4, <3>1, <1>1, <1>3
         DEF DDSettled, DDMove, DDAlone, DDCopied, DDCalls, Settled, Whole, Points, Startable, Escapes, DDTypes, DDTrees, DDChanges, DDGone, DDStages, MoveSteps, AtRest, Absent
    <3>3. (app.broken => Startable /\ app.up)' /\ (server.state = "running" => server.on = app.dir)'
      BY <2>1, <2>2, <2>4, <3>1, <1>1, <1>3 DEF DDSettled, DDMove, DDCalls, Startable, DDTypes, DDTrees, DDChanges, DDGone, DDStages, MoveSteps, AtRest, Absent
    <3>4. ASSUME \A e \in Dialogs : change'[e].at \notin MoveSteps \cup {"autostart"}
           PROVE  (Settled(app.dir) \/ app.broken)'
      BY <2>1, <2>2, <2>4, <3>1, <3>4, <1>1, <1>3
         DEF DDSettled, DDMove, DDAlone, DDCopied, DDCalls, Settled, Whole, Points, Startable, Escapes, DDTypes, DDTrees, DDChanges, DDGone, DDStages, MoveSteps, AtRest, Absent
    <3> QED BY <3>2, <3>3, <3>4 DEF DDSettled
  <2> QED BY <2>1, <2>2, <2>3, <2>4 DEF DDInv
<1>4. CASE Way3
  <2>1. DDTypes /\ DDTypes'
    <3>1. DDTypes
      BY DEF DDInv
    <3>2. trees' \in [Locations -> DDTrees]
      BY <3>1, DataDirAssumption, <1>1, <1>4 DEF DDTypes, DDTrees, DDCalls, DDInv, Absent
    <3>3. change' \in [Dialogs -> DDChanges]
      BY <3>1, <1>1, <1>4 DEF DDTypes, DDTrees, DDChanges, DDGone, DDStages, MoveSteps, AtRest, Absent
    <3>4. app' \in [up: BOOLEAN, dir: Locations, relocating: BOOLEAN, broken: BOOLEAN]
      BY <3>1, <1>1, <1>4 DEF DDTypes, DDCalls, DDInv
    <3>5. server' \in [state: {"stopped", "starting", "running", "stopping", "failed"},
                        on: Locations]
      BY <3>1, <1>1, <1>4 DEF DDTypes
    <3>6. pointer' \in Locations \cup {"none"} /\ autostart' \in Locations \cup {"none"}
      BY <3>1, <1>1, <1>4 DEF DDTypes, DDCalls, DDInv
    <3> QED BY <3>1, <3>2, <3>3, <3>4, <3>5, <3>6, <1>1, <1>4 DEF DDTypes
  <2>2. DDCalls /\ DDCalls'
    BY <2>1, <1>1, <1>4 DEF DDInv, DDCalls, DDTypes, DDTrees, DDChanges, DDGone, DDStages, MoveSteps, AtRest, Absent
  <2>3. ASSUME "overlapped" \notin moveGaps' PROVE DDAlone /\ DDAlone'
    <3>1. DDAlone
      BY <2>3, <1>1, <1>4 DEF DDInv
    <3>2. \A e, f \in Dialogs : e # f /\ change'[e].at \notin AtRest => change'[f].at \in AtRest
      BY <2>1, <3>1, <1>1, <1>4 DEF DDAlone, DDTypes, DDTrees, DDChanges, DDGone, DDStages, MoveSteps, AtRest, Absent
    <3>3. \A e \in Dialogs : DDCopied(change[e])'
      BY <2>1, <2>2, <3>1, <1>1, <1>4 DEF DDAlone, DDCopied, DDCalls, DDTypes, DDTrees, DDChanges, DDGone, DDStages, MoveSteps, AtRest, Absent
    <3>4. PICK l \in Locations : trees[l].holds = "full"
      BY <3>1 DEF DDAlone
    <3>5. \E m \in Locations : trees'[m].holds = "full"
      BY <2>1, <2>2, <3>1, <3>4, <1>1, <1>4 DEF DDAlone, DDCopied, DDCalls, DDTypes, DDTrees, DDChanges, DDGone, DDStages, MoveSteps, AtRest, Absent
    <3> QED BY <3>1, <3>2, <3>3, <3>5 DEF DDAlone
  <2>4. ASSUME moveGaps' \cap Escapes = {} PROVE DDSettled'
    <3>1. DDSettled /\ DDAlone /\ DDAlone'
      BY <2>3, <2>4, <1>1, <1>4 DEF DDInv, Escapes
    <3>2. \A e \in Dialogs : DDMove(change[e])'
      BY <2>1, <2>2, <2>4, <3>1, <1>1, <1>4
         DEF DDSettled, DDMove, DDAlone, DDCopied, DDCalls, Settled, Whole, Points, Startable, Escapes, DDTypes, DDTrees, DDChanges, DDGone, DDStages, MoveSteps, AtRest, Absent
    <3>3. (app.broken => Startable /\ app.up)' /\ (server.state = "running" => server.on = app.dir)'
      BY <2>1, <2>2, <2>4, <3>1, <1>1, <1>4 DEF DDSettled, DDMove, DDCalls, Startable, DDTypes, DDTrees, DDChanges, DDGone, DDStages, MoveSteps, AtRest, Absent
    <3>4. ASSUME \A e \in Dialogs : change'[e].at \notin MoveSteps \cup {"autostart"}
           PROVE  (Settled(app.dir) \/ app.broken)'
      BY <2>1, <2>2, <2>4, <3>1, <3>4, <1>1, <1>4
         DEF DDSettled, DDMove, DDAlone, DDCopied, DDCalls, Settled, Whole, Points, Startable, Escapes, DDTypes, DDTrees, DDChanges, DDGone, DDStages, MoveSteps, AtRest, Absent
    <3> QED BY <3>2, <3>3, <3>4 DEF DDSettled
  <2> QED BY <2>1, <2>2, <2>3, <2>4 DEF DDInv
<1> QED BY <1>1, <1>2, <1>3, <1>4

LEMMA StopServerOK ==
  ASSUME DDInv, NEW d \in Dialogs, StopServer(d)
  PROVE  DDInv'
<1> DEFINE Way1 ==
             /\ server.state = "running"
             /\ server' = [server EXCEPT !.state = "stopping"]
             /\ DDGone(d, "stopped")
             /\ UNCHANGED <<trees, pointer, autostart, app, moveGaps, changes, launches>>
           Way2 ==
             /\ DDGone(d, "ended")
             /\ app' = [app EXCEPT !.relocating = FALSE]
             /\ UNCHANGED <<trees, pointer, autostart, server, moveGaps, changes, launches>>
<1>0. DDTypes
  BY DEF DDInv
<1>1. app.up /\ change[d].at = "stop" /\ (Way1 \/ Way2)
  <2>1. app.up /\ change[d].at = "stop" /\ UNCHANGED <<trees, pointer, autostart, moveGaps, changes, launches>>
    BY DEF StopServer, At
  <2>2. CASE server.state = "running"
    <3>1. /\ server' = [server EXCEPT !.state = "stopping"] /\ UNCHANGED app
          /\ change' = [change EXCEPT ![d].at = "stopped", ![d].wasRunning = TRUE]
      BY <2>2 DEF StopServer
    <3>2. DDGone(d, "stopped")
      <4>1. change[d] \in DDChanges /\ "stopped" \in DDStages
        BY <1>0 DEF DDTypes, DDStages
      <4>2. [change[d] EXCEPT !.at = "stopped", !.wasRunning = TRUE] \in DDChanges
        BY <4>1 DEF DDChanges
      <4>3. /\ change'[d] = [change[d] EXCEPT !.at = "stopped", !.wasRunning = TRUE]
            /\ \A e \in Dialogs \ {d} : change'[e] = change[e]
            /\ change' \in [Dialogs -> DDChanges]
        BY <1>0, <3>1, <4>2 DEF DDTypes
      <4> QED BY <4>1, <4>3 DEF DDGone, DDChanges
    <3> QED BY <2>1, <2>2, <3>1, <3>2
  <2>3. CASE server.state # "running"
    <3>1. Goes(d, "ended") /\ app' = [app EXCEPT !.relocating = FALSE] /\ UNCHANGED server
      BY <2>3 DEF StopServer, Ends
    <3>2. DDGone(d, "ended")
      BY <1>0, <3>1, GoesIs DEF DDStages, AtRest
    <3> QED BY <2>1, <3>1, <3>2
  <2> QED BY <2>2, <2>3
<1>2. CASE Way1
  <2>1. DDTypes /\ DDTypes'
    <3>1. DDTypes
      BY DEF DDInv
    <3>2. trees' \in [Locations -> DDTrees]
      BY <3>1, DataDirAssumption, <1>1, <1>2 DEF DDTypes, DDTrees, DDCalls, DDInv, Absent
    <3>3. change' \in [Dialogs -> DDChanges]
      BY <3>1, <1>1, <1>2 DEF DDTypes, DDTrees, DDChanges, DDGone, DDStages, MoveSteps, AtRest, Absent
    <3>4. app' \in [up: BOOLEAN, dir: Locations, relocating: BOOLEAN, broken: BOOLEAN]
      BY <3>1, <1>1, <1>2 DEF DDTypes, DDCalls, DDInv
    <3>5. server' \in [state: {"stopped", "starting", "running", "stopping", "failed"},
                        on: Locations]
      BY <3>1, <1>1, <1>2 DEF DDTypes
    <3>6. pointer' \in Locations \cup {"none"} /\ autostart' \in Locations \cup {"none"}
      BY <3>1, <1>1, <1>2 DEF DDTypes, DDCalls, DDInv
    <3> QED BY <3>1, <3>2, <3>3, <3>4, <3>5, <3>6, <1>1, <1>2 DEF DDTypes
  <2>2. DDCalls /\ DDCalls'
    BY <2>1, <1>1, <1>2 DEF DDInv, DDCalls, DDTypes, DDTrees, DDChanges, DDGone, DDStages, MoveSteps, AtRest, Absent
  <2>3. ASSUME "overlapped" \notin moveGaps' PROVE DDAlone /\ DDAlone'
    <3>1. DDAlone
      BY <2>3, <1>1, <1>2 DEF DDInv
    <3>2. \A e, f \in Dialogs : e # f /\ change'[e].at \notin AtRest => change'[f].at \in AtRest
      BY <2>1, <3>1, <1>1, <1>2 DEF DDAlone, DDTypes, DDTrees, DDChanges, DDGone, DDStages, MoveSteps, AtRest, Absent
    <3>3. \A e \in Dialogs : DDCopied(change[e])'
      BY <2>1, <2>2, <3>1, <1>1, <1>2 DEF DDAlone, DDCopied, DDCalls, DDTypes, DDTrees, DDChanges, DDGone, DDStages, MoveSteps, AtRest, Absent
    <3>4. PICK l \in Locations : trees[l].holds = "full"
      BY <3>1 DEF DDAlone
    <3>5. \E m \in Locations : trees'[m].holds = "full"
      BY <2>1, <2>2, <3>1, <3>4, <1>1, <1>2 DEF DDAlone, DDCopied, DDCalls, DDTypes, DDTrees, DDChanges, DDGone, DDStages, MoveSteps, AtRest, Absent
    <3> QED BY <3>1, <3>2, <3>3, <3>5 DEF DDAlone
  <2>4. ASSUME moveGaps' \cap Escapes = {} PROVE DDSettled'
    <3>1. DDSettled /\ DDAlone /\ DDAlone'
      BY <2>3, <2>4, <1>1, <1>2 DEF DDInv, Escapes
    <3>2. \A e \in Dialogs : DDMove(change[e])'
      BY <2>1, <2>2, <2>4, <3>1, <1>1, <1>2
         DEF DDSettled, DDMove, DDAlone, DDCopied, DDCalls, Settled, Whole, Points, Startable, Escapes, DDTypes, DDTrees, DDChanges, DDGone, DDStages, MoveSteps, AtRest, Absent
    <3>3. (app.broken => Startable /\ app.up)' /\ (server.state = "running" => server.on = app.dir)'
      BY <2>1, <2>2, <2>4, <3>1, <1>1, <1>2 DEF DDSettled, DDMove, DDCalls, Startable, DDTypes, DDTrees, DDChanges, DDGone, DDStages, MoveSteps, AtRest, Absent
    <3>4. ASSUME \A e \in Dialogs : change'[e].at \notin MoveSteps \cup {"autostart"}
           PROVE  (Settled(app.dir) \/ app.broken)'
      BY <2>1, <2>2, <2>4, <3>1, <3>4, <1>1, <1>2
         DEF DDSettled, DDMove, DDAlone, DDCopied, DDCalls, Settled, Whole, Points, Startable, Escapes, DDTypes, DDTrees, DDChanges, DDGone, DDStages, MoveSteps, AtRest, Absent
    <3> QED BY <3>2, <3>3, <3>4 DEF DDSettled
  <2> QED BY <2>1, <2>2, <2>3, <2>4 DEF DDInv
<1>3. CASE Way2
  <2>1. DDTypes /\ DDTypes'
    <3>1. DDTypes
      BY DEF DDInv
    <3>2. trees' \in [Locations -> DDTrees]
      BY <3>1, DataDirAssumption, <1>1, <1>3 DEF DDTypes, DDTrees, DDCalls, DDInv, Absent
    <3>3. change' \in [Dialogs -> DDChanges]
      BY <3>1, <1>1, <1>3 DEF DDTypes, DDTrees, DDChanges, DDGone, DDStages, MoveSteps, AtRest, Absent
    <3>4. app' \in [up: BOOLEAN, dir: Locations, relocating: BOOLEAN, broken: BOOLEAN]
      BY <3>1, <1>1, <1>3 DEF DDTypes, DDCalls, DDInv
    <3>5. server' \in [state: {"stopped", "starting", "running", "stopping", "failed"},
                        on: Locations]
      BY <3>1, <1>1, <1>3 DEF DDTypes
    <3>6. pointer' \in Locations \cup {"none"} /\ autostart' \in Locations \cup {"none"}
      BY <3>1, <1>1, <1>3 DEF DDTypes, DDCalls, DDInv
    <3> QED BY <3>1, <3>2, <3>3, <3>4, <3>5, <3>6, <1>1, <1>3 DEF DDTypes
  <2>2. DDCalls /\ DDCalls'
    BY <2>1, <1>1, <1>3 DEF DDInv, DDCalls, DDTypes, DDTrees, DDChanges, DDGone, DDStages, MoveSteps, AtRest, Absent
  <2>3. ASSUME "overlapped" \notin moveGaps' PROVE DDAlone /\ DDAlone'
    <3>1. DDAlone
      BY <2>3, <1>1, <1>3 DEF DDInv
    <3>2. \A e, f \in Dialogs : e # f /\ change'[e].at \notin AtRest => change'[f].at \in AtRest
      BY <2>1, <3>1, <1>1, <1>3 DEF DDAlone, DDTypes, DDTrees, DDChanges, DDGone, DDStages, MoveSteps, AtRest, Absent
    <3>3. \A e \in Dialogs : DDCopied(change[e])'
      BY <2>1, <2>2, <3>1, <1>1, <1>3 DEF DDAlone, DDCopied, DDCalls, DDTypes, DDTrees, DDChanges, DDGone, DDStages, MoveSteps, AtRest, Absent
    <3>4. PICK l \in Locations : trees[l].holds = "full"
      BY <3>1 DEF DDAlone
    <3>5. \E m \in Locations : trees'[m].holds = "full"
      BY <2>1, <2>2, <3>1, <3>4, <1>1, <1>3 DEF DDAlone, DDCopied, DDCalls, DDTypes, DDTrees, DDChanges, DDGone, DDStages, MoveSteps, AtRest, Absent
    <3> QED BY <3>1, <3>2, <3>3, <3>5 DEF DDAlone
  <2>4. ASSUME moveGaps' \cap Escapes = {} PROVE DDSettled'
    <3>1. DDSettled /\ DDAlone /\ DDAlone'
      BY <2>3, <2>4, <1>1, <1>3 DEF DDInv, Escapes
    <3>2. \A e \in Dialogs : DDMove(change[e])'
      BY <2>1, <2>2, <2>4, <3>1, <1>1, <1>3
         DEF DDSettled, DDMove, DDAlone, DDCopied, DDCalls, Settled, Whole, Points, Startable, Escapes, DDTypes, DDTrees, DDChanges, DDGone, DDStages, MoveSteps, AtRest, Absent
    <3>3. (app.broken => Startable /\ app.up)' /\ (server.state = "running" => server.on = app.dir)'
      BY <2>1, <2>2, <2>4, <3>1, <1>1, <1>3 DEF DDSettled, DDMove, DDCalls, Startable, DDTypes, DDTrees, DDChanges, DDGone, DDStages, MoveSteps, AtRest, Absent
    <3>4. ASSUME \A e \in Dialogs : change'[e].at \notin MoveSteps \cup {"autostart"}
           PROVE  (Settled(app.dir) \/ app.broken)'
      BY <2>1, <2>2, <2>4, <3>1, <3>4, <1>1, <1>3
         DEF DDSettled, DDMove, DDAlone, DDCopied, DDCalls, Settled, Whole, Points, Startable, Escapes, DDTypes, DDTrees, DDChanges, DDGone, DDStages, MoveSteps, AtRest, Absent
    <3> QED BY <3>2, <3>3, <3>4 DEF DDSettled
  <2> QED BY <2>1, <2>2, <2>3, <2>4 DEF DDInv
<1> QED BY <1>1, <1>2, <1>3

LEMMA ServerStoppedOK ==
  ASSUME DDInv, NEW d \in Dialogs, ServerStopped(d)
  PROVE  DDInv'
<1> DEFINE Way1 ==
             /\ server.state # "stopping"
             /\ DDGone(d, "move")
             /\ UNCHANGED <<trees, pointer, autostart, app, server, moveGaps, changes, launches>>
<1>0. DDTypes
  BY DEF DDInv
<1>1. app.up /\ change[d].at = "stopped" /\ (Way1)
  BY <1>0, GoesIs, ResumeIs DEF ServerStopped, At, DDStages, AtRest, MoveSteps
<1>2. CASE Way1
  <2>1. DDTypes /\ DDTypes'
    <3>1. DDTypes
      BY DEF DDInv
    <3>2. trees' \in [Locations -> DDTrees]
      BY <3>1, DataDirAssumption, <1>1, <1>2 DEF DDTypes, DDTrees, DDCalls, DDInv, Absent
    <3>3. change' \in [Dialogs -> DDChanges]
      BY <3>1, <1>1, <1>2 DEF DDTypes, DDTrees, DDChanges, DDGone, DDStages, MoveSteps, AtRest, Absent
    <3>4. app' \in [up: BOOLEAN, dir: Locations, relocating: BOOLEAN, broken: BOOLEAN]
      BY <3>1, <1>1, <1>2 DEF DDTypes, DDCalls, DDInv
    <3>5. server' \in [state: {"stopped", "starting", "running", "stopping", "failed"},
                        on: Locations]
      BY <3>1, <1>1, <1>2 DEF DDTypes
    <3>6. pointer' \in Locations \cup {"none"} /\ autostart' \in Locations \cup {"none"}
      BY <3>1, <1>1, <1>2 DEF DDTypes, DDCalls, DDInv
    <3> QED BY <3>1, <3>2, <3>3, <3>4, <3>5, <3>6, <1>1, <1>2 DEF DDTypes
  <2>2. DDCalls /\ DDCalls'
    BY <2>1, <1>1, <1>2 DEF DDInv, DDCalls, DDTypes, DDTrees, DDChanges, DDGone, DDStages, MoveSteps, AtRest, Absent
  <2>3. ASSUME "overlapped" \notin moveGaps' PROVE DDAlone /\ DDAlone'
    <3>1. DDAlone
      BY <2>3, <1>1, <1>2 DEF DDInv
    <3>2. \A e, f \in Dialogs : e # f /\ change'[e].at \notin AtRest => change'[f].at \in AtRest
      BY <2>1, <3>1, <1>1, <1>2 DEF DDAlone, DDTypes, DDTrees, DDChanges, DDGone, DDStages, MoveSteps, AtRest, Absent
    <3>3. \A e \in Dialogs : DDCopied(change[e])'
      BY <2>1, <2>2, <3>1, <1>1, <1>2 DEF DDAlone, DDCopied, DDCalls, DDTypes, DDTrees, DDChanges, DDGone, DDStages, MoveSteps, AtRest, Absent
    <3>4. PICK l \in Locations : trees[l].holds = "full"
      BY <3>1 DEF DDAlone
    <3>5. \E m \in Locations : trees'[m].holds = "full"
      BY <2>1, <2>2, <3>1, <3>4, <1>1, <1>2 DEF DDAlone, DDCopied, DDCalls, DDTypes, DDTrees, DDChanges, DDGone, DDStages, MoveSteps, AtRest, Absent
    <3> QED BY <3>1, <3>2, <3>3, <3>5 DEF DDAlone
  <2>4. ASSUME moveGaps' \cap Escapes = {} PROVE DDSettled'
    <3>1. DDSettled /\ DDAlone /\ DDAlone'
      BY <2>3, <2>4, <1>1, <1>2 DEF DDInv, Escapes
    <3>2. \A e \in Dialogs : DDMove(change[e])'
      <4>1. DDMove(change[d])'
        BY <2>1, <2>2, <2>4, <3>1, <1>1, <1>2
           DEF DDSettled, DDMove, DDAlone, DDCopied, DDCalls, Settled, Whole, Points, Startable, Escapes, DDTypes, DDTrees, DDChanges, DDGone, DDStages, MoveSteps, AtRest, Absent
      <4>2. ASSUME NEW e \in Dialogs, e # d PROVE DDMove(change[e])'
        BY <2>1, <2>2, <2>4, <3>1, <1>1, <1>2, <4>2
           DEF DDSettled, DDMove, DDAlone, DDCopied, DDCalls, Settled, Whole, Points, Startable, Escapes, DDTypes, DDTrees, DDChanges, DDGone, DDStages, MoveSteps, AtRest, Absent
      <4> QED BY <4>1, <4>2
    <3>3. (app.broken => Startable /\ app.up)' /\ (server.state = "running" => server.on = app.dir)'
      BY <2>1, <2>2, <2>4, <3>1, <1>1, <1>2 DEF DDSettled, DDMove, DDCalls, Startable, DDTypes, DDTrees, DDChanges, DDGone, DDStages, MoveSteps, AtRest, Absent
    <3>4. ASSUME \A e \in Dialogs : change'[e].at \notin MoveSteps \cup {"autostart"}
           PROVE  (Settled(app.dir) \/ app.broken)'
      BY <2>1, <2>2, <2>4, <3>1, <3>4, <1>1, <1>2
         DEF DDSettled, DDMove, DDAlone, DDCopied, DDCalls, Settled, Whole, Points, Startable, Escapes, DDTypes, DDTrees, DDChanges, DDGone, DDStages, MoveSteps, AtRest, Absent
    <3> QED BY <3>2, <3>3, <3>4 DEF DDSettled
  <2> QED BY <2>1, <2>2, <2>3, <2>4 DEF DDInv
<1> QED BY <1>1, <1>2

LEMMA RefuseTargetOK ==
  ASSUME DDInv, NEW d \in Dialogs, RefuseTarget(d)
  PROVE  DDInv'
<1> DEFINE Way1 ==
             /\ DDResumed(d, trees[change[d].from].holds = "none")
             /\ UNCHANGED <<trees, pointer, autostart, moveGaps, changes, launches>>
<1>0. DDTypes
  BY DEF DDInv
<1>1. app.up /\ change[d].at = "move" /\ (Way1)
  BY <1>0, GoesIs, ResumeIs DEF RefuseTarget, At, DDStages, AtRest, MoveSteps
<1>2. CASE Way1
  <2>1. DDTypes /\ DDTypes'
    <3>1. DDTypes
      BY DEF DDInv
    <3>2. trees' \in [Locations -> DDTrees]
      BY <3>1, DataDirAssumption, <1>1, <1>2 DEF DDTypes, DDTrees, DDCalls, DDInv, Absent, DDResumed
    <3>3. change' \in [Dialogs -> DDChanges]
      BY <3>1, <1>1, <1>2 DEF DDTypes, DDTrees, DDChanges, DDGone, DDStages, MoveSteps, AtRest, Absent, DDResumed
    <3>4. app' \in [up: BOOLEAN, dir: Locations, relocating: BOOLEAN, broken: BOOLEAN]
      BY <3>1, <1>1, <1>2 DEF DDTypes, DDCalls, DDInv, DDResumed
    <3>5. server' \in [state: {"stopped", "starting", "running", "stopping", "failed"},
                        on: Locations]
      BY <3>1, <1>1, <1>2 DEF DDTypes, DDResumed
    <3>6. pointer' \in Locations \cup {"none"} /\ autostart' \in Locations \cup {"none"}
      BY <3>1, <1>1, <1>2 DEF DDTypes, DDCalls, DDInv, DDResumed
    <3> QED BY <3>1, <3>2, <3>3, <3>4, <3>5, <3>6, <1>1, <1>2 DEF DDTypes, DDResumed
  <2>2. DDCalls /\ DDCalls'
    <3>1. DDCalls
      BY DEF DDInv
    <3> QED BY <2>1, <3>1, <1>1, <1>2, ResumedCalls DEF MoveSteps
  <2>3. ASSUME "overlapped" \notin moveGaps' PROVE DDAlone /\ DDAlone'
    <3>1. DDAlone
      BY <2>3, <1>1, <1>2 DEF DDInv, DDResumed
    <3>2. \A e, f \in Dialogs : e # f /\ change'[e].at \notin AtRest => change'[f].at \in AtRest
      BY <2>1, <3>1, <1>1, <1>2 DEF DDAlone, DDTypes, DDTrees, DDChanges, DDGone, DDStages, MoveSteps, AtRest, Absent, DDResumed
    <3>3. \A e \in Dialogs : DDCopied(change[e])'
      BY <2>1, <2>2, <3>1, <1>1, <1>2 DEF DDAlone, DDCopied, DDCalls, DDTypes, DDTrees, DDChanges, DDGone, DDStages, MoveSteps, AtRest, Absent, DDResumed
    <3>4. PICK l \in Locations : trees[l].holds = "full"
      BY <3>1 DEF DDAlone
    <3>5. \E m \in Locations : trees'[m].holds = "full"
      BY <2>1, <2>2, <3>1, <3>4, <1>1, <1>2 DEF DDAlone, DDCopied, DDCalls, DDTypes, DDTrees, DDChanges, DDGone, DDStages, MoveSteps, AtRest, Absent, DDResumed
    <3> QED BY <3>1, <3>2, <3>3, <3>5 DEF DDAlone
  <2>4. ASSUME moveGaps' \cap Escapes = {} PROVE DDSettled'
    <3>1. DDSettled /\ DDAlone /\ DDAlone'
      BY <2>3, <2>4, <1>1, <1>2 DEF DDInv, Escapes, DDResumed
    <3>2. \A e \in Dialogs : DDMove(change[e])'
      <4>1. DDMove(change[d])'
        BY <2>1, <2>2, <2>4, <3>1, <1>1, <1>2
           DEF DDSettled, DDMove, DDAlone, DDCopied, DDCalls, Settled, Whole, Points, Startable, Escapes, DDTypes, DDTrees, DDChanges, DDGone, DDStages, MoveSteps, AtRest, Absent, DDResumed
      <4>2. ASSUME NEW e \in Dialogs, e # d PROVE DDMove(change[e])'
        BY <2>1, <2>2, <2>4, <3>1, <1>1, <1>2, <4>2
           DEF DDSettled, DDMove, DDAlone, DDCopied, DDCalls, Settled, Whole, Points, Startable, Escapes, DDTypes, DDTrees, DDChanges, DDGone, DDStages, MoveSteps, AtRest, Absent, DDResumed
      <4> QED BY <4>1, <4>2
    <3>3. (app.broken => Startable /\ app.up)' /\ (server.state = "running" => server.on = app.dir)'
      BY <2>1, <2>2, <2>4, <3>1, <1>1, <1>2 DEF DDSettled, DDMove, DDCalls, Startable, DDTypes, DDTrees, DDChanges, DDGone, DDStages, MoveSteps, AtRest, Absent, DDResumed
    <3>4. ASSUME \A e \in Dialogs : change'[e].at \notin MoveSteps \cup {"autostart"}
           PROVE  (Settled(app.dir) \/ app.broken)'
      <4>1. /\ app'.dir = app.dir /\ (app.broken => app'.broken)
            /\ (trees[change[d].from].holds = "none" => app'.broken)
            /\ \A e \in Dialogs \ {d} : change'[e] = change[e]
        BY <2>1, ResumedIs, <1>1, <1>2
      <4>2. Settled(app.dir) \/ app'.broken
        <5>1. Settled(app.dir) \/ app.broken \/ trees[change[d].from].holds = "none" \/ moveGaps' \cap Escapes # {}
          <6>1. DDMove(change[d])
            BY <3>1 DEF DDSettled
          <6> QED BY <3>1, <6>1, MoveAt, <1>1, <1>2 DEF DDMove, AtRest, Escapes
        <5> QED BY <2>4, <4>1, <5>1
      <4>3. UNCHANGED <<trees, pointer, autostart>> \/ moveGaps' \cap Escapes # {}
        BY <2>4, <1>1, <1>2 DEF Escapes
      <4> QED
        BY <4>1, <4>2, <4>3, <2>4 DEF Settled, Whole, Points
    <3> QED BY <3>2, <3>3, <3>4 DEF DDSettled
  <2> QED BY <2>1, <2>2, <2>3, <2>4 DEF DDInv
<1> QED BY <1>1, <1>2

LEMMA RenameOK ==
  ASSUME DDInv, NEW d \in Dialogs, Rename(d)
  PROVE  DDInv'
<1> DEFINE Way1 ==
             /\ change[d].to # change[d].from
             /\ trees[change[d].from].holds # "none"
             /\ trees[change[d].to].holds = "none"
             /\ trees' = [trees EXCEPT ![change[d].to] = trees[change[d].from], ![change[d].from] = Absent]
             /\ DDGone(d, "pointer")
             /\ UNCHANGED <<pointer, autostart, app, server, moveGaps, changes, launches>>
<1>0. DDTypes
  BY DEF DDInv
<1>1. app.up /\ change[d].at = "move" /\ (Way1)
  BY <1>0, GoesIs, ResumeIs DEF Rename, At, DDStages, AtRest, MoveSteps, Acceptable
<1>2. CASE Way1
  <2>1. DDTypes /\ DDTypes'
    <3>1. DDTypes
      BY DEF DDInv
    <3>2. trees' \in [Locations -> DDTrees]
      BY <3>1, DataDirAssumption, <1>1, <1>2 DEF DDTypes, DDTrees, DDCalls, DDInv, Absent
    <3>3. change' \in [Dialogs -> DDChanges]
      BY <3>1, <1>1, <1>2 DEF DDTypes, DDTrees, DDChanges, DDGone, DDStages, MoveSteps, AtRest, Absent
    <3>4. app' \in [up: BOOLEAN, dir: Locations, relocating: BOOLEAN, broken: BOOLEAN]
      BY <3>1, <1>1, <1>2 DEF DDTypes, DDCalls, DDInv
    <3>5. server' \in [state: {"stopped", "starting", "running", "stopping", "failed"},
                        on: Locations]
      BY <3>1, <1>1, <1>2 DEF DDTypes
    <3>6. pointer' \in Locations \cup {"none"} /\ autostart' \in Locations \cup {"none"}
      BY <3>1, <1>1, <1>2 DEF DDTypes, DDCalls, DDInv
    <3> QED BY <3>1, <3>2, <3>3, <3>4, <3>5, <3>6, <1>1, <1>2 DEF DDTypes
  <2>2. DDCalls /\ DDCalls'
    BY <2>1, <1>1, <1>2 DEF DDInv, DDCalls, DDTypes, DDTrees, DDChanges, DDGone, DDStages, MoveSteps, AtRest, Absent
  <2>3. ASSUME "overlapped" \notin moveGaps' PROVE DDAlone /\ DDAlone'
    <3>1. DDAlone
      BY <2>3, <1>1, <1>2 DEF DDInv
    <3>2. \A e, f \in Dialogs : e # f /\ change'[e].at \notin AtRest => change'[f].at \in AtRest
      BY <2>1, <3>1, <1>1, <1>2 DEF DDAlone, DDTypes, DDTrees, DDChanges, DDGone, DDStages, MoveSteps, AtRest, Absent
    <3>3. \A e \in Dialogs : DDCopied(change[e])'
      BY <2>1, <2>2, <3>1, <1>1, <1>2 DEF DDAlone, DDCopied, DDCalls, DDTypes, DDTrees, DDChanges, DDGone, DDStages, MoveSteps, AtRest, Absent
    <3>4. PICK l \in Locations : trees[l].holds = "full"
      BY <3>1 DEF DDAlone
    <3>5. \E m \in Locations : trees'[m].holds = "full"
      BY <2>1, <2>2, <3>1, <3>4, <1>1, <1>2 DEF DDAlone, DDCopied, DDCalls, DDTypes, DDTrees, DDChanges, DDGone, DDStages, MoveSteps, AtRest, Absent
    <3> QED BY <3>1, <3>2, <3>3, <3>5 DEF DDAlone
  <2>4. ASSUME moveGaps' \cap Escapes = {} PROVE DDSettled'
    <3>1. DDSettled /\ DDAlone /\ DDAlone'
      BY <2>3, <2>4, <1>1, <1>2 DEF DDInv, Escapes
    <3>2. \A e \in Dialogs : DDMove(change[e])'
      <4>1. Settled(app.dir) \/ app.broken
        BY <1>1, <3>1, MoveAt
      <4>2. DDMove(change[d]) /\ \A e \in Dialogs \ {d} : change'[e] = change[e] /\ change[e].at \in AtRest
        BY <1>1, <1>2, <3>1, AloneAt DEF DDGone, DDSettled, AtRest
      <4>3. DDMove(change[d])'
        <5>1. /\ change[d].from = app.dir /\ app.relocating /\ Startable
              /\ app.dir \in Locations /\ change[d].to \in Locations
          BY <1>1, <2>1, <2>2, <4>2 DEF DDMove, AtRest, DDCalls, DDTypes
        <5>2. trees'[change[d].from].holds = "none" /\ trees'[change[d].to] = trees[change[d].from]
          BY <1>2, <2>1, <5>1 DEF DDTypes, Absent
        <5>3. /\ (trees[app.dir].holds = "full" /\ trees[app.dir].paths \in {"relative", app.dir}
                  /\ autostart \in {"none", app.dir}) \/ app.broken
          BY <4>1 DEF Settled, Whole
        <5> QED BY <1>2, <5>1, <5>2, <5>3 DEF DDMove, DDGone, Whole, Startable, MoveSteps, AtRest
      <4>4. ASSUME NEW e \in Dialogs, e # d PROVE DDMove(change[e])'
        BY <4>2, <4>4 DEF DDMove, AtRest, MoveSteps
      <4> QED BY <4>3, <4>4
    <3>3. (app.broken => Startable /\ app.up)' /\ (server.state = "running" => server.on = app.dir)'
      BY <2>1, <2>2, <2>4, <3>1, <1>1, <1>2 DEF DDSettled, DDMove, DDCalls, Startable, DDTypes, DDTrees, DDChanges, DDGone, DDStages, MoveSteps, AtRest, Absent
    <3>4. ASSUME \A e \in Dialogs : change'[e].at \notin MoveSteps \cup {"autostart"}
           PROVE  (Settled(app.dir) \/ app.broken)'
      BY <2>1, <2>2, <2>4, <3>1, <3>4, <1>1, <1>2
         DEF DDSettled, DDMove, DDAlone, DDCopied, DDCalls, Settled, Whole, Points, Startable, Escapes, DDTypes, DDTrees, DDChanges, DDGone, DDStages, MoveSteps, AtRest, Absent
    <3> QED BY <3>2, <3>3, <3>4 DEF DDSettled
  <2> QED BY <2>1, <2>2, <2>3, <2>4 DEF DDInv
<1> QED BY <1>1, <1>2

LEMMA BeginCopyOK ==
  ASSUME DDInv, NEW d \in Dialogs, BeginCopy(d)
  PROVE  DDInv'
<1> DEFINE Way1 ==
             /\ change[d].to # change[d].from
             /\ trees[change[d].from].holds # "none"
             /\ trees[change[d].to].holds = "none"
             /\ trees' = [trees EXCEPT ![change[d].to] = [holds |-> "part", paths |-> "relative"]]
             /\ DDGone(d, "copy")
             /\ UNCHANGED <<pointer, autostart, app, server, moveGaps, changes, launches>>
<1>0. DDTypes
  BY DEF DDInv
<1>1. app.up /\ change[d].at = "move" /\ (Way1)
  BY <1>0, GoesIs, ResumeIs DEF BeginCopy, At, DDStages, AtRest, MoveSteps, Acceptable
<1>2. CASE Way1
  <2>1. DDTypes /\ DDTypes'
    <3>1. DDTypes
      BY DEF DDInv
    <3>2. trees' \in [Locations -> DDTrees]
      BY <3>1, DataDirAssumption, <1>1, <1>2 DEF DDTypes, DDTrees, DDCalls, DDInv, Absent
    <3>3. change' \in [Dialogs -> DDChanges]
      BY <3>1, <1>1, <1>2 DEF DDTypes, DDTrees, DDChanges, DDGone, DDStages, MoveSteps, AtRest, Absent
    <3>4. app' \in [up: BOOLEAN, dir: Locations, relocating: BOOLEAN, broken: BOOLEAN]
      BY <3>1, <1>1, <1>2 DEF DDTypes, DDCalls, DDInv
    <3>5. server' \in [state: {"stopped", "starting", "running", "stopping", "failed"},
                        on: Locations]
      BY <3>1, <1>1, <1>2 DEF DDTypes
    <3>6. pointer' \in Locations \cup {"none"} /\ autostart' \in Locations \cup {"none"}
      BY <3>1, <1>1, <1>2 DEF DDTypes, DDCalls, DDInv
    <3> QED BY <3>1, <3>2, <3>3, <3>4, <3>5, <3>6, <1>1, <1>2 DEF DDTypes
  <2>2. DDCalls /\ DDCalls'
    BY <2>1, <1>1, <1>2 DEF DDInv, DDCalls, DDTypes, DDTrees, DDChanges, DDGone, DDStages, MoveSteps, AtRest, Absent
  <2>3. ASSUME "overlapped" \notin moveGaps' PROVE DDAlone /\ DDAlone'
    <3>1. DDAlone
      BY <2>3, <1>1, <1>2 DEF DDInv
    <3>2. \A e, f \in Dialogs : e # f /\ change'[e].at \notin AtRest => change'[f].at \in AtRest
      BY <2>1, <3>1, <1>1, <1>2 DEF DDAlone, DDTypes, DDTrees, DDChanges, DDGone, DDStages, MoveSteps, AtRest, Absent
    <3>3. \A e \in Dialogs : DDCopied(change[e])'
      BY <2>1, <2>2, <3>1, <1>1, <1>2 DEF DDAlone, DDCopied, DDCalls, DDTypes, DDTrees, DDChanges, DDGone, DDStages, MoveSteps, AtRest, Absent
    <3>4. PICK l \in Locations : trees[l].holds = "full"
      BY <3>1 DEF DDAlone
    <3>5. \E m \in Locations : trees'[m].holds = "full"
      BY <2>1, <2>2, <3>1, <3>4, <1>1, <1>2 DEF DDAlone, DDCopied, DDCalls, DDTypes, DDTrees, DDChanges, DDGone, DDStages, MoveSteps, AtRest, Absent
    <3> QED BY <3>1, <3>2, <3>3, <3>5 DEF DDAlone
  <2>4. ASSUME moveGaps' \cap Escapes = {} PROVE DDSettled'
    <3>1. DDSettled /\ DDAlone /\ DDAlone'
      BY <2>3, <2>4, <1>1, <1>2 DEF DDInv, Escapes
    <3>2. \A e \in Dialogs : DDMove(change[e])'
      <4>1. DDMove(change[d])'
        BY <2>1, <2>2, <2>4, <3>1, <1>1, <1>2
           DEF DDSettled, DDMove, DDAlone, DDCopied, DDCalls, Settled, Whole, Points, Startable, Escapes, DDTypes, DDTrees, DDChanges, DDGone, DDStages, MoveSteps, AtRest, Absent
      <4>2. ASSUME NEW e \in Dialogs, e # d PROVE DDMove(change[e])'
        <5>1. change'[e].at \in AtRest /\ change'[e] = change[e]
          BY <2>1, <4>2, <3>1, <1>1, <1>2
             DEF DDAlone, DDGone, AtRest, MoveSteps, DDStages, DDTypes, DDChanges
        <5> QED BY <5>1 DEF DDMove, AtRest, MoveSteps
      <4> QED BY <4>1, <4>2
    <3>3. (app.broken => Startable /\ app.up)' /\ (server.state = "running" => server.on = app.dir)'
      BY <2>1, <2>2, <2>4, <3>1, <1>1, <1>2 DEF DDSettled, DDMove, DDCalls, Startable, DDTypes, DDTrees, DDChanges, DDGone, DDStages, MoveSteps, AtRest, Absent
    <3>4. ASSUME \A e \in Dialogs : change'[e].at \notin MoveSteps \cup {"autostart"}
           PROVE  (Settled(app.dir) \/ app.broken)'
      BY <2>1, <2>2, <2>4, <3>1, <3>4, <1>1, <1>2
         DEF DDSettled, DDMove, DDAlone, DDCopied, DDCalls, Settled, Whole, Points, Startable, Escapes, DDTypes, DDTrees, DDChanges, DDGone, DDStages, MoveSteps, AtRest, Absent
    <3> QED BY <3>2, <3>3, <3>4 DEF DDSettled
  <2> QED BY <2>1, <2>2, <2>3, <2>4 DEF DDInv
<1> QED BY <1>1, <1>2

LEMMA CopyEndsOK ==
  ASSUME DDInv, NEW d \in Dialogs, CopyEnds(d)
  PROVE  DDInv'
<1> DEFINE Way1 ==
             /\ trees[change[d].from].holds # "none"
             /\ trees' = [trees EXCEPT ![change[d].to] = trees[change[d].from]]
             /\ DDGone(d, "remove")
             /\ UNCHANGED <<pointer, autostart, app, server, moveGaps, changes, launches>>
           Way2 ==
             /\ DDResumed(d, trees[change[d].from].holds = "none")
             /\ UNCHANGED <<trees, pointer, autostart, moveGaps, changes, launches>>
<1>0. DDTypes
  BY DEF DDInv
<1>1. app.up /\ change[d].at = "copy" /\ (Way1 \/ Way2)
  BY <1>0, GoesIs, ResumeIs DEF CopyEnds, At, DDStages, AtRest, MoveSteps
<1>2. CASE Way1
  <2>1. DDTypes /\ DDTypes'
    <3>1. DDTypes
      BY DEF DDInv
    <3>2. trees' \in [Locations -> DDTrees]
      BY <3>1, DataDirAssumption, <1>1, <1>2 DEF DDTypes, DDTrees, DDCalls, DDInv, Absent
    <3>3. change' \in [Dialogs -> DDChanges]
      BY <3>1, <1>1, <1>2 DEF DDTypes, DDTrees, DDChanges, DDGone, DDStages, MoveSteps, AtRest, Absent
    <3>4. app' \in [up: BOOLEAN, dir: Locations, relocating: BOOLEAN, broken: BOOLEAN]
      BY <3>1, <1>1, <1>2 DEF DDTypes, DDCalls, DDInv
    <3>5. server' \in [state: {"stopped", "starting", "running", "stopping", "failed"},
                        on: Locations]
      BY <3>1, <1>1, <1>2 DEF DDTypes
    <3>6. pointer' \in Locations \cup {"none"} /\ autostart' \in Locations \cup {"none"}
      BY <3>1, <1>1, <1>2 DEF DDTypes, DDCalls, DDInv
    <3> QED BY <3>1, <3>2, <3>3, <3>4, <3>5, <3>6, <1>1, <1>2 DEF DDTypes
  <2>2. DDCalls /\ DDCalls'
    BY <2>1, <1>1, <1>2 DEF DDInv, DDCalls, DDTypes, DDTrees, DDChanges, DDGone, DDStages, MoveSteps, AtRest, Absent
  <2>3. ASSUME "overlapped" \notin moveGaps' PROVE DDAlone /\ DDAlone'
    <3>1. DDAlone
      BY <2>3, <1>1, <1>2 DEF DDInv
    <3>2. \A e, f \in Dialogs : e # f /\ change'[e].at \notin AtRest => change'[f].at \in AtRest
      BY <2>1, <3>1, <1>1, <1>2 DEF DDAlone, DDTypes, DDTrees, DDChanges, DDGone, DDStages, MoveSteps, AtRest, Absent
    <3>3. \A e \in Dialogs : DDCopied(change[e])'
      BY <2>1, <2>2, <3>1, <1>1, <1>2 DEF DDAlone, DDCopied, DDCalls, DDTypes, DDTrees, DDChanges, DDGone, DDStages, MoveSteps, AtRest, Absent
    <3>4. PICK l \in Locations : trees[l].holds = "full"
      BY <3>1 DEF DDAlone
    <3>5. \E m \in Locations : trees'[m].holds = "full"
      BY <2>1, <2>2, <3>1, <3>4, <1>1, <1>2 DEF DDAlone, DDCopied, DDCalls, DDTypes, DDTrees, DDChanges, DDGone, DDStages, MoveSteps, AtRest, Absent
    <3> QED BY <3>1, <3>2, <3>3, <3>5 DEF DDAlone
  <2>4. ASSUME moveGaps' \cap Escapes = {} PROVE DDSettled'
    <3>1. DDSettled /\ DDAlone /\ DDAlone'
      BY <2>3, <2>4, <1>1, <1>2 DEF DDInv, Escapes
    <3>2. \A e \in Dialogs : DDMove(change[e])'
      BY <2>1, <2>2, <2>4, <3>1, <1>1, <1>2
         DEF DDSettled, DDMove, DDAlone, DDCopied, DDCalls, Settled, Whole, Points, Startable, Escapes, DDTypes, DDTrees, DDChanges, DDGone, DDStages, MoveSteps, AtRest, Absent
    <3>3. (app.broken => Startable /\ app.up)' /\ (server.state = "running" => server.on = app.dir)'
      BY <2>1, <2>2, <2>4, <3>1, <1>1, <1>2 DEF DDSettled, DDMove, DDCalls, Startable, DDTypes, DDTrees, DDChanges, DDGone, DDStages, MoveSteps, AtRest, Absent
    <3>4. ASSUME \A e \in Dialogs : change'[e].at \notin MoveSteps \cup {"autostart"}
           PROVE  (Settled(app.dir) \/ app.broken)'
      BY <2>1, <2>2, <2>4, <3>1, <3>4, <1>1, <1>2
         DEF DDSettled, DDMove, DDAlone, DDCopied, DDCalls, Settled, Whole, Points, Startable, Escapes, DDTypes, DDTrees, DDChanges, DDGone, DDStages, MoveSteps, AtRest, Absent
    <3> QED BY <3>2, <3>3, <3>4 DEF DDSettled
  <2> QED BY <2>1, <2>2, <2>3, <2>4 DEF DDInv
<1>3. CASE Way2
  <2>1. DDTypes /\ DDTypes'
    <3>1. DDTypes
      BY DEF DDInv
    <3>2. trees' \in [Locations -> DDTrees]
      BY <3>1, DataDirAssumption, <1>1, <1>3 DEF DDTypes, DDTrees, DDCalls, DDInv, Absent, DDResumed
    <3>3. change' \in [Dialogs -> DDChanges]
      BY <3>1, <1>1, <1>3 DEF DDTypes, DDTrees, DDChanges, DDGone, DDStages, MoveSteps, AtRest, Absent, DDResumed
    <3>4. app' \in [up: BOOLEAN, dir: Locations, relocating: BOOLEAN, broken: BOOLEAN]
      BY <3>1, <1>1, <1>3 DEF DDTypes, DDCalls, DDInv, DDResumed
    <3>5. server' \in [state: {"stopped", "starting", "running", "stopping", "failed"},
                        on: Locations]
      BY <3>1, <1>1, <1>3 DEF DDTypes, DDResumed
    <3>6. pointer' \in Locations \cup {"none"} /\ autostart' \in Locations \cup {"none"}
      BY <3>1, <1>1, <1>3 DEF DDTypes, DDCalls, DDInv, DDResumed
    <3> QED BY <3>1, <3>2, <3>3, <3>4, <3>5, <3>6, <1>1, <1>3 DEF DDTypes, DDResumed
  <2>2. DDCalls /\ DDCalls'
    <3>1. DDCalls
      BY DEF DDInv
    <3> QED BY <2>1, <3>1, <1>1, <1>3, ResumedCalls DEF MoveSteps
  <2>3. ASSUME "overlapped" \notin moveGaps' PROVE DDAlone /\ DDAlone'
    <3>1. DDAlone
      BY <2>3, <1>1, <1>3 DEF DDInv, DDResumed
    <3>2. \A e, f \in Dialogs : e # f /\ change'[e].at \notin AtRest => change'[f].at \in AtRest
      BY <2>1, <3>1, <1>1, <1>3 DEF DDAlone, DDTypes, DDTrees, DDChanges, DDGone, DDStages, MoveSteps, AtRest, Absent, DDResumed
    <3>3. \A e \in Dialogs : DDCopied(change[e])'
      BY <2>1, <2>2, <3>1, <1>1, <1>3 DEF DDAlone, DDCopied, DDCalls, DDTypes, DDTrees, DDChanges, DDGone, DDStages, MoveSteps, AtRest, Absent, DDResumed
    <3>4. PICK l \in Locations : trees[l].holds = "full"
      BY <3>1 DEF DDAlone
    <3>5. \E m \in Locations : trees'[m].holds = "full"
      BY <2>1, <2>2, <3>1, <3>4, <1>1, <1>3 DEF DDAlone, DDCopied, DDCalls, DDTypes, DDTrees, DDChanges, DDGone, DDStages, MoveSteps, AtRest, Absent, DDResumed
    <3> QED BY <3>1, <3>2, <3>3, <3>5 DEF DDAlone
  <2>4. ASSUME moveGaps' \cap Escapes = {} PROVE DDSettled'
    <3>1. DDSettled /\ DDAlone /\ DDAlone'
      BY <2>3, <2>4, <1>1, <1>3 DEF DDInv, Escapes, DDResumed
    <3>2. \A e \in Dialogs : DDMove(change[e])'
      <4>1. \A e \in Dialogs : change'[e].at \in AtRest
        BY <2>1, <3>1, <1>1, <1>3
           DEF DDAlone, DDTypes, DDChanges, DDGone, DDStages, MoveSteps, AtRest, DDResumed
      <4> QED BY <4>1 DEF DDMove, AtRest, MoveSteps
    <3>3. (app.broken => Startable /\ app.up)' /\ (server.state = "running" => server.on = app.dir)'
      BY <2>1, <2>2, <2>4, <3>1, <1>1, <1>3 DEF DDSettled, DDMove, DDCalls, Startable, DDTypes, DDTrees, DDChanges, DDGone, DDStages, MoveSteps, AtRest, Absent, DDResumed
    <3>4. ASSUME \A e \in Dialogs : change'[e].at \notin MoveSteps \cup {"autostart"}
           PROVE  (Settled(app.dir) \/ app.broken)'
      <4>1. /\ app'.dir = app.dir /\ (app.broken => app'.broken)
            /\ (trees[change[d].from].holds = "none" => app'.broken)
            /\ \A e \in Dialogs \ {d} : change'[e] = change[e]
        BY <2>1, ResumedIs, <1>1, <1>3
      <4>2. Settled(app.dir) \/ app'.broken
        <5>1. Settled(app.dir) \/ app.broken \/ trees[change[d].from].holds = "none" \/ moveGaps' \cap Escapes # {}
          <6>1. DDMove(change[d])
            BY <3>1 DEF DDSettled
          <6> QED BY <3>1, <6>1, MoveAt, <1>1, <1>3 DEF DDMove, AtRest, Escapes
        <5> QED BY <2>4, <4>1, <5>1
      <4>3. UNCHANGED <<trees, pointer, autostart>> \/ moveGaps' \cap Escapes # {}
        BY <2>4, <1>1, <1>3 DEF Escapes
      <4> QED
        BY <4>1, <4>2, <4>3, <2>4 DEF Settled, Whole, Points
    <3> QED BY <3>2, <3>3, <3>4 DEF DDSettled
  <2> QED BY <2>1, <2>2, <2>3, <2>4 DEF DDInv
<1> QED BY <1>1, <1>2, <1>3

LEMMA RemoveSourceOK ==
  ASSUME DDInv, NEW d \in Dialogs, RemoveSource(d)
  PROVE  DDInv'
<1> DEFINE Way1 ==
             /\ trees' = [trees EXCEPT ![change[d].from] = Absent]
             /\ DDGone(d, "pointer")
             /\ UNCHANGED <<pointer, autostart, app, server, moveGaps, changes, launches>>
           Way2 ==
             /\ trees' = [trees EXCEPT ![change[d].from].holds = "part"]
             /\ DDResumed(d, trees'[change[d].from].holds = "none")
             /\ moveGaps' = moveGaps \cup {"removal"}
             /\ UNCHANGED <<pointer, autostart, changes, launches>>
<1>0. DDTypes
  BY DEF DDInv
<1>1. app.up /\ change[d].at = "remove" /\ (Way1 \/ Way2)
  BY <1>0, GoesIs, ResumeIs DEF RemoveSource, At, DDStages, AtRest, MoveSteps, NoMoveGap, MoveGap
<1>2. CASE Way1
  <2>1. DDTypes /\ DDTypes'
    <3>1. DDTypes
      BY DEF DDInv
    <3>2. trees' \in [Locations -> DDTrees]
      BY <3>1, DataDirAssumption, <1>1, <1>2 DEF DDTypes, DDTrees, DDCalls, DDInv, Absent
    <3>3. change' \in [Dialogs -> DDChanges]
      BY <3>1, <1>1, <1>2 DEF DDTypes, DDTrees, DDChanges, DDGone, DDStages, MoveSteps, AtRest, Absent
    <3>4. app' \in [up: BOOLEAN, dir: Locations, relocating: BOOLEAN, broken: BOOLEAN]
      BY <3>1, <1>1, <1>2 DEF DDTypes, DDCalls, DDInv
    <3>5. server' \in [state: {"stopped", "starting", "running", "stopping", "failed"},
                        on: Locations]
      BY <3>1, <1>1, <1>2 DEF DDTypes
    <3>6. pointer' \in Locations \cup {"none"} /\ autostart' \in Locations \cup {"none"}
      BY <3>1, <1>1, <1>2 DEF DDTypes, DDCalls, DDInv
    <3> QED BY <3>1, <3>2, <3>3, <3>4, <3>5, <3>6, <1>1, <1>2 DEF DDTypes
  <2>2. DDCalls /\ DDCalls'
    BY <2>1, <1>1, <1>2 DEF DDInv, DDCalls, DDTypes, DDTrees, DDChanges, DDGone, DDStages, MoveSteps, AtRest, Absent
  <2>3. ASSUME "overlapped" \notin moveGaps' PROVE DDAlone /\ DDAlone'
    <3>1. DDAlone
      BY <2>3, <1>1, <1>2 DEF DDInv
    <3>2. \A e, f \in Dialogs : e # f /\ change'[e].at \notin AtRest => change'[f].at \in AtRest
      BY <2>1, <3>1, <1>1, <1>2 DEF DDAlone, DDTypes, DDTrees, DDChanges, DDGone, DDStages, MoveSteps, AtRest, Absent
    <3>3. \A e \in Dialogs : DDCopied(change[e])'
      BY <2>1, <2>2, <3>1, <1>1, <1>2 DEF DDAlone, DDCopied, DDCalls, DDTypes, DDTrees, DDChanges, DDGone, DDStages, MoveSteps, AtRest, Absent
    <3>4. PICK l \in Locations : trees[l].holds = "full"
      BY <3>1 DEF DDAlone
    <3>5. \E m \in Locations : trees'[m].holds = "full"
      BY <2>1, <2>2, <3>1, <3>4, <1>1, <1>2 DEF DDAlone, DDCopied, DDCalls, DDTypes, DDTrees, DDChanges, DDGone, DDStages, MoveSteps, AtRest, Absent
    <3> QED BY <3>1, <3>2, <3>3, <3>5 DEF DDAlone
  <2>4. ASSUME moveGaps' \cap Escapes = {} PROVE DDSettled'
    <3>1. DDSettled /\ DDAlone /\ DDAlone'
      BY <2>3, <2>4, <1>1, <1>2 DEF DDInv, Escapes
    <3>2. \A e \in Dialogs : DDMove(change[e])'
      <4>1. DDMove(change[d]) /\ \A e \in Dialogs \ {d} : change'[e] = change[e] /\ change[e].at \in AtRest
        BY <1>1, <1>2, <3>1, AloneAt DEF DDGone, DDSettled, AtRest
      <4>2. DDMove(change[d])'
        <5>1. /\ change[d].from = app.dir /\ app.relocating /\ Startable /\ change[d].to # change[d].from
              /\ app.dir \in Locations /\ change[d].to \in Locations
          BY <1>1, <2>1, <2>2, <3>1, <4>1 DEF DDMove, AtRest, DDCalls, DDTypes, MoveSteps, DDAlone, DDCopied
        <5>2. trees'[change[d].from].holds = "none" /\ trees'[change[d].to] = trees[change[d].to]
          BY <1>2, <2>1, <5>1 DEF DDTypes, Absent
        <5>3. (Whole(change[d].to, change[d].from) /\ autostart \in {"none", change[d].from}) \/ app.broken
          BY <1>1, <4>1 DEF DDMove, Settled
        <5> QED BY <1>2, <5>1, <5>2, <5>3 DEF DDMove, DDGone, Whole, Startable, MoveSteps, AtRest
      <4>3. ASSUME NEW e \in Dialogs, e # d PROVE DDMove(change[e])'
        BY <4>1, <4>3 DEF DDMove, AtRest, MoveSteps
      <4> QED BY <4>2, <4>3
    <3>3. (app.broken => Startable /\ app.up)' /\ (server.state = "running" => server.on = app.dir)'
      BY <2>1, <2>2, <2>4, <3>1, <1>1, <1>2 DEF DDSettled, DDMove, DDCalls, Startable, DDTypes, DDTrees, DDChanges, DDGone, DDStages, MoveSteps, AtRest, Absent
    <3>4. ASSUME \A e \in Dialogs : change'[e].at \notin MoveSteps \cup {"autostart"}
           PROVE  (Settled(app.dir) \/ app.broken)'
      BY <2>1, <2>2, <2>4, <3>1, <3>4, <1>1, <1>2
         DEF DDSettled, DDMove, DDAlone, DDCopied, DDCalls, Settled, Whole, Points, Startable, Escapes, DDTypes, DDTrees, DDChanges, DDGone, DDStages, MoveSteps, AtRest, Absent
    <3> QED BY <3>2, <3>3, <3>4 DEF DDSettled
  <2> QED BY <2>1, <2>2, <2>3, <2>4 DEF DDInv
<1>3. CASE Way2
  <2>1. DDTypes /\ DDTypes'
    <3>1. DDTypes
      BY DEF DDInv
    <3>2. trees' \in [Locations -> DDTrees]
      BY <3>1, DataDirAssumption, <1>1, <1>3 DEF DDTypes, DDTrees, DDCalls, DDInv, Absent, DDResumed
    <3>3. change' \in [Dialogs -> DDChanges]
      BY <3>1, <1>1, <1>3 DEF DDTypes, DDTrees, DDChanges, DDGone, DDStages, MoveSteps, AtRest, Absent, DDResumed
    <3>4. app' \in [up: BOOLEAN, dir: Locations, relocating: BOOLEAN, broken: BOOLEAN]
      BY <3>1, <1>1, <1>3 DEF DDTypes, DDCalls, DDInv, DDResumed
    <3>5. server' \in [state: {"stopped", "starting", "running", "stopping", "failed"},
                        on: Locations]
      BY <3>1, <1>1, <1>3 DEF DDTypes, DDResumed
    <3>6. pointer' \in Locations \cup {"none"} /\ autostart' \in Locations \cup {"none"}
      BY <3>1, <1>1, <1>3 DEF DDTypes, DDCalls, DDInv, DDResumed
    <3> QED BY <3>1, <3>2, <3>3, <3>4, <3>5, <3>6, <1>1, <1>3 DEF DDTypes, DDResumed
  <2>2. DDCalls /\ DDCalls'
    BY <2>1, <1>1, <1>3 DEF DDInv, DDCalls, DDTypes, DDTrees, DDChanges, DDGone, DDStages, MoveSteps, AtRest, Absent, DDResumed
  <2>3. ASSUME "overlapped" \notin moveGaps' PROVE DDAlone /\ DDAlone'
    <3>1. DDAlone
      BY <2>3, <1>1, <1>3 DEF DDInv, DDResumed
    <3>2. \A e, f \in Dialogs : e # f /\ change'[e].at \notin AtRest => change'[f].at \in AtRest
      BY <2>1, <3>1, <1>1, <1>3 DEF DDAlone, DDTypes, DDTrees, DDChanges, DDGone, DDStages, MoveSteps, AtRest, Absent, DDResumed
    <3>3. \A e \in Dialogs : DDCopied(change[e])'
      BY <2>1, <2>2, <3>1, <1>1, <1>3 DEF DDAlone, DDCopied, DDCalls, DDTypes, DDTrees, DDChanges, DDGone, DDStages, MoveSteps, AtRest, Absent, DDResumed
    <3>4. PICK l \in Locations : trees[l].holds = "full"
      BY <3>1 DEF DDAlone
    <3>5. \E m \in Locations : trees'[m].holds = "full"
      BY <2>1, <2>2, <3>1, <3>4, <1>1, <1>3 DEF DDAlone, DDCopied, DDCalls, DDTypes, DDTrees, DDChanges, DDGone, DDStages, MoveSteps, AtRest, Absent, DDResumed
    <3> QED BY <3>1, <3>2, <3>3, <3>5 DEF DDAlone
  <2>4. ASSUME moveGaps' \cap Escapes = {} PROVE DDSettled'
    <3>1. DDSettled /\ DDAlone /\ DDAlone'
      BY <2>3, <2>4, <1>1, <1>3 DEF DDInv, Escapes, DDResumed
    <3>2. \A e \in Dialogs : DDMove(change[e])'
      BY <2>1, <2>2, <2>4, <3>1, <1>1, <1>3
         DEF DDSettled, DDMove, DDAlone, DDCopied, DDCalls, Settled, Whole, Points, Startable, Escapes, DDTypes, DDTrees, DDChanges, DDGone, DDStages, MoveSteps, AtRest, Absent, DDResumed
    <3>3. (app.broken => Startable /\ app.up)' /\ (server.state = "running" => server.on = app.dir)'
      BY <2>1, <2>2, <2>4, <3>1, <1>1, <1>3 DEF DDSettled, DDMove, DDCalls, Startable, DDTypes, DDTrees, DDChanges, DDGone, DDStages, MoveSteps, AtRest, Absent, DDResumed
    <3>4. ASSUME \A e \in Dialogs : change'[e].at \notin MoveSteps \cup {"autostart"}
           PROVE  (Settled(app.dir) \/ app.broken)'
      <4>1. /\ app'.dir = app.dir /\ (app.broken => app'.broken)
            /\ (trees'[change[d].from].holds = "none" => app'.broken)
            /\ \A e \in Dialogs \ {d} : change'[e] = change[e]
        BY <2>1, ResumedIs, <1>1, <1>3
      <4>2. Settled(app.dir) \/ app'.broken
        <5>1. Settled(app.dir) \/ app.broken \/ trees'[change[d].from].holds = "none" \/ moveGaps' \cap Escapes # {}
          <6>1. DDMove(change[d])
            BY <3>1 DEF DDSettled
          <6> QED BY <3>1, <6>1, MoveAt, <1>1, <1>3 DEF DDMove, AtRest, Escapes
        <5> QED BY <2>4, <4>1, <5>1
      <4>3. UNCHANGED <<trees, pointer, autostart>> \/ moveGaps' \cap Escapes # {}
        BY <2>4, <1>1, <1>3 DEF Escapes
      <4> QED
        BY <4>1, <4>2, <4>3, <2>4 DEF Settled, Whole, Points
    <3> QED BY <3>2, <3>3, <3>4 DEF DDSettled
  <2> QED BY <2>1, <2>2, <2>3, <2>4 DEF DDInv
<1> QED BY <1>1, <1>2, <1>3

LEMMA SetPointerOK ==
  ASSUME DDInv, NEW d \in Dialogs, SetPointer(d)
  PROVE  DDInv'
<1> DEFINE Way1 ==
             /\ pointer' = change[d].to
             /\ DDGone(d, "remap")
             /\ UNCHANGED <<trees, autostart, app, server, moveGaps, changes, launches>>
           Way2 ==
             /\ DDResumed(d, trees[change[d].from].holds = "none")
             /\ moveGaps' = moveGaps \cup {"pointer"}
             /\ UNCHANGED <<trees, pointer, autostart, changes, launches>>
<1>0. DDTypes
  BY DEF DDInv
<1>1. app.up /\ change[d].at = "pointer" /\ (Way1 \/ Way2)
  BY <1>0, GoesIs, ResumeIs DEF SetPointer, At, DDStages, AtRest, MoveSteps, NoMoveGap, MoveGap
<1>2. CASE Way1
  <2>1. DDTypes /\ DDTypes'
    <3>1. DDTypes
      BY DEF DDInv
    <3>2. trees' \in [Locations -> DDTrees]
      BY <3>1, DataDirAssumption, <1>1, <1>2 DEF DDTypes, DDTrees, DDCalls, DDInv, Absent
    <3>3. change' \in [Dialogs -> DDChanges]
      BY <3>1, <1>1, <1>2 DEF DDTypes, DDTrees, DDChanges, DDGone, DDStages, MoveSteps, AtRest, Absent
    <3>4. app' \in [up: BOOLEAN, dir: Locations, relocating: BOOLEAN, broken: BOOLEAN]
      BY <3>1, <1>1, <1>2 DEF DDTypes, DDCalls, DDInv
    <3>5. server' \in [state: {"stopped", "starting", "running", "stopping", "failed"},
                        on: Locations]
      BY <3>1, <1>1, <1>2 DEF DDTypes
    <3>6. pointer' \in Locations \cup {"none"} /\ autostart' \in Locations \cup {"none"}
      BY <3>1, <1>1, <1>2 DEF DDTypes, DDCalls, DDInv
    <3> QED BY <3>1, <3>2, <3>3, <3>4, <3>5, <3>6, <1>1, <1>2 DEF DDTypes
  <2>2. DDCalls /\ DDCalls'
    BY <2>1, <1>1, <1>2 DEF DDInv, DDCalls, DDTypes, DDTrees, DDChanges, DDGone, DDStages, MoveSteps, AtRest, Absent
  <2>3. ASSUME "overlapped" \notin moveGaps' PROVE DDAlone /\ DDAlone'
    <3>1. DDAlone
      BY <2>3, <1>1, <1>2 DEF DDInv
    <3>2. \A e, f \in Dialogs : e # f /\ change'[e].at \notin AtRest => change'[f].at \in AtRest
      BY <2>1, <3>1, <1>1, <1>2 DEF DDAlone, DDTypes, DDTrees, DDChanges, DDGone, DDStages, MoveSteps, AtRest, Absent
    <3>3. \A e \in Dialogs : DDCopied(change[e])'
      BY <2>1, <2>2, <3>1, <1>1, <1>2 DEF DDAlone, DDCopied, DDCalls, DDTypes, DDTrees, DDChanges, DDGone, DDStages, MoveSteps, AtRest, Absent
    <3>4. PICK l \in Locations : trees[l].holds = "full"
      BY <3>1 DEF DDAlone
    <3>5. \E m \in Locations : trees'[m].holds = "full"
      BY <2>1, <2>2, <3>1, <3>4, <1>1, <1>2 DEF DDAlone, DDCopied, DDCalls, DDTypes, DDTrees, DDChanges, DDGone, DDStages, MoveSteps, AtRest, Absent
    <3> QED BY <3>1, <3>2, <3>3, <3>5 DEF DDAlone
  <2>4. ASSUME moveGaps' \cap Escapes = {} PROVE DDSettled'
    <3>1. DDSettled /\ DDAlone /\ DDAlone'
      BY <2>3, <2>4, <1>1, <1>2 DEF DDInv, Escapes
    <3>2. \A e \in Dialogs : DDMove(change[e])'
      BY <2>1, <2>2, <2>4, <3>1, <1>1, <1>2
         DEF DDSettled, DDMove, DDAlone, DDCopied, DDCalls, Settled, Whole, Points, Startable, Escapes, DDTypes, DDTrees, DDChanges, DDGone, DDStages, MoveSteps, AtRest, Absent
    <3>3. (app.broken => Startable /\ app.up)' /\ (server.state = "running" => server.on = app.dir)'
      BY <2>1, <2>2, <2>4, <3>1, <1>1, <1>2 DEF DDSettled, DDMove, DDCalls, Startable, DDTypes, DDTrees, DDChanges, DDGone, DDStages, MoveSteps, AtRest, Absent
    <3>4. ASSUME \A e \in Dialogs : change'[e].at \notin MoveSteps \cup {"autostart"}
           PROVE  (Settled(app.dir) \/ app.broken)'
      BY <2>1, <2>2, <2>4, <3>1, <3>4, <1>1, <1>2
         DEF DDSettled, DDMove, DDAlone, DDCopied, DDCalls, Settled, Whole, Points, Startable, Escapes, DDTypes, DDTrees, DDChanges, DDGone, DDStages, MoveSteps, AtRest, Absent
    <3> QED BY <3>2, <3>3, <3>4 DEF DDSettled
  <2> QED BY <2>1, <2>2, <2>3, <2>4 DEF DDInv
<1>3. CASE Way2
  <2>1. DDTypes /\ DDTypes'
    <3>1. DDTypes
      BY DEF DDInv
    <3>2. trees' \in [Locations -> DDTrees]
      BY <3>1, DataDirAssumption, <1>1, <1>3 DEF DDTypes, DDTrees, DDCalls, DDInv, Absent, DDResumed
    <3>3. change' \in [Dialogs -> DDChanges]
      BY <3>1, <1>1, <1>3 DEF DDTypes, DDTrees, DDChanges, DDGone, DDStages, MoveSteps, AtRest, Absent, DDResumed
    <3>4. app' \in [up: BOOLEAN, dir: Locations, relocating: BOOLEAN, broken: BOOLEAN]
      BY <3>1, <1>1, <1>3 DEF DDTypes, DDCalls, DDInv, DDResumed
    <3>5. server' \in [state: {"stopped", "starting", "running", "stopping", "failed"},
                        on: Locations]
      BY <3>1, <1>1, <1>3 DEF DDTypes, DDResumed
    <3>6. pointer' \in Locations \cup {"none"} /\ autostart' \in Locations \cup {"none"}
      BY <3>1, <1>1, <1>3 DEF DDTypes, DDCalls, DDInv, DDResumed
    <3> QED BY <3>1, <3>2, <3>3, <3>4, <3>5, <3>6, <1>1, <1>3 DEF DDTypes, DDResumed
  <2>2. DDCalls /\ DDCalls'
    <3>1. DDCalls
      BY DEF DDInv
    <3> QED BY <2>1, <3>1, <1>1, <1>3, ResumedCalls DEF MoveSteps
  <2>3. ASSUME "overlapped" \notin moveGaps' PROVE DDAlone /\ DDAlone'
    <3>1. DDAlone
      BY <2>3, <1>1, <1>3 DEF DDInv, DDResumed
    <3>2. \A e, f \in Dialogs : e # f /\ change'[e].at \notin AtRest => change'[f].at \in AtRest
      BY <2>1, <3>1, <1>1, <1>3 DEF DDAlone, DDTypes, DDTrees, DDChanges, DDGone, DDStages, MoveSteps, AtRest, Absent, DDResumed
    <3>3. \A e \in Dialogs : DDCopied(change[e])'
      BY <2>1, <2>2, <3>1, <1>1, <1>3 DEF DDAlone, DDCopied, DDCalls, DDTypes, DDTrees, DDChanges, DDGone, DDStages, MoveSteps, AtRest, Absent, DDResumed
    <3>4. PICK l \in Locations : trees[l].holds = "full"
      BY <3>1 DEF DDAlone
    <3>5. \E m \in Locations : trees'[m].holds = "full"
      BY <2>1, <2>2, <3>1, <3>4, <1>1, <1>3 DEF DDAlone, DDCopied, DDCalls, DDTypes, DDTrees, DDChanges, DDGone, DDStages, MoveSteps, AtRest, Absent, DDResumed
    <3> QED BY <3>1, <3>2, <3>3, <3>5 DEF DDAlone
  <2>4. ASSUME moveGaps' \cap Escapes = {} PROVE DDSettled'
    <3>1. DDSettled /\ DDAlone /\ DDAlone'
      BY <2>3, <2>4, <1>1, <1>3 DEF DDInv, Escapes, DDResumed
    <3>2. \A e \in Dialogs : DDMove(change[e])'
      BY <2>1, <2>2, <2>4, <3>1, <1>1, <1>3
         DEF DDSettled, DDMove, DDAlone, DDCopied, DDCalls, Settled, Whole, Points, Startable, Escapes, DDTypes, DDTrees, DDChanges, DDGone, DDStages, MoveSteps, AtRest, Absent, DDResumed
    <3>3. (app.broken => Startable /\ app.up)' /\ (server.state = "running" => server.on = app.dir)'
      BY <2>1, <2>2, <2>4, <3>1, <1>1, <1>3 DEF DDSettled, DDMove, DDCalls, Startable, DDTypes, DDTrees, DDChanges, DDGone, DDStages, MoveSteps, AtRest, Absent, DDResumed
    <3>4. ASSUME \A e \in Dialogs : change'[e].at \notin MoveSteps \cup {"autostart"}
           PROVE  (Settled(app.dir) \/ app.broken)'
      <4>1. /\ app'.dir = app.dir /\ (app.broken => app'.broken)
            /\ (trees[change[d].from].holds = "none" => app'.broken)
            /\ \A e \in Dialogs \ {d} : change'[e] = change[e]
        BY <2>1, ResumedIs, <1>1, <1>3
      <4>2. Settled(app.dir) \/ app'.broken
        <5>1. Settled(app.dir) \/ app.broken \/ trees[change[d].from].holds = "none" \/ moveGaps' \cap Escapes # {}
          <6>1. DDMove(change[d])
            BY <3>1 DEF DDSettled
          <6> QED BY <3>1, <6>1, MoveAt, <1>1, <1>3 DEF DDMove, AtRest, Escapes
        <5> QED BY <2>4, <4>1, <5>1
      <4>3. UNCHANGED <<trees, pointer, autostart>> \/ moveGaps' \cap Escapes # {}
        BY <2>4, <1>1, <1>3 DEF Escapes
      <4> QED
        BY <4>1, <4>2, <4>3, <2>4 DEF Settled, Whole, Points
    <3> QED BY <3>2, <3>3, <3>4 DEF DDSettled
  <2> QED BY <2>1, <2>2, <2>3, <2>4 DEF DDInv
<1> QED BY <1>1, <1>2, <1>3

LEMMA RemapPathsOK ==
  ASSUME DDInv, NEW d \in Dialogs, RemapPaths(d)
  PROVE  DDInv'
<1> DEFINE Way1 ==
             /\ trees' = IF trees[change[d].to].paths = change[d].from THEN [trees EXCEPT ![change[d].to].paths = change[d].to] ELSE trees
             /\ DDGone(d, "load")
             /\ UNCHANGED <<pointer, autostart, app, server, moveGaps, changes, launches>>
           Way2 ==
             /\ DDGone(d, "ended")
             /\ app' = [app EXCEPT !.relocating = FALSE, !.broken = TRUE]
             /\ moveGaps' = moveGaps \cup {"remap"}
             /\ UNCHANGED <<trees, pointer, autostart, server, changes, launches>>
<1>0. DDTypes
  BY DEF DDInv
<1>1. app.up /\ change[d].at = "remap" /\ (Way1 \/ Way2)
  BY <1>0, GoesIs, ResumeIs DEF RemapPaths, At, DDStages, AtRest, MoveSteps, NoMoveGap, MoveGap, Breaks
<1>2. CASE Way1
  <2>1. DDTypes /\ DDTypes'
    <3>1. DDTypes
      BY DEF DDInv
    <3>2. trees' \in [Locations -> DDTrees]
      BY <3>1, DataDirAssumption, <1>1, <1>2 DEF DDTypes, DDTrees, DDCalls, DDInv, Absent
    <3>3. change' \in [Dialogs -> DDChanges]
      BY <3>1, <1>1, <1>2 DEF DDTypes, DDTrees, DDChanges, DDGone, DDStages, MoveSteps, AtRest, Absent
    <3>4. app' \in [up: BOOLEAN, dir: Locations, relocating: BOOLEAN, broken: BOOLEAN]
      BY <3>1, <1>1, <1>2 DEF DDTypes, DDCalls, DDInv
    <3>5. server' \in [state: {"stopped", "starting", "running", "stopping", "failed"},
                        on: Locations]
      BY <3>1, <1>1, <1>2 DEF DDTypes
    <3>6. pointer' \in Locations \cup {"none"} /\ autostart' \in Locations \cup {"none"}
      BY <3>1, <1>1, <1>2 DEF DDTypes, DDCalls, DDInv
    <3> QED BY <3>1, <3>2, <3>3, <3>4, <3>5, <3>6, <1>1, <1>2 DEF DDTypes
  <2>2. DDCalls /\ DDCalls'
    BY <2>1, <1>1, <1>2 DEF DDInv, DDCalls, DDTypes, DDTrees, DDChanges, DDGone, DDStages, MoveSteps, AtRest, Absent
  <2>3. ASSUME "overlapped" \notin moveGaps' PROVE DDAlone /\ DDAlone'
    <3>1. DDAlone
      BY <2>3, <1>1, <1>2 DEF DDInv
    <3>2. \A e, f \in Dialogs : e # f /\ change'[e].at \notin AtRest => change'[f].at \in AtRest
      BY <2>1, <3>1, <1>1, <1>2 DEF DDAlone, DDTypes, DDTrees, DDChanges, DDGone, DDStages, MoveSteps, AtRest, Absent
    <3>3. \A e \in Dialogs : DDCopied(change[e])'
      BY <2>1, <2>2, <3>1, <1>1, <1>2 DEF DDAlone, DDCopied, DDCalls, DDTypes, DDTrees, DDChanges, DDGone, DDStages, MoveSteps, AtRest, Absent
    <3>4. PICK l \in Locations : trees[l].holds = "full"
      BY <3>1 DEF DDAlone
    <3>5. \E m \in Locations : trees'[m].holds = "full"
      BY <2>1, <2>2, <3>1, <3>4, <1>1, <1>2 DEF DDAlone, DDCopied, DDCalls, DDTypes, DDTrees, DDChanges, DDGone, DDStages, MoveSteps, AtRest, Absent
    <3> QED BY <3>1, <3>2, <3>3, <3>5 DEF DDAlone
  <2>4. ASSUME moveGaps' \cap Escapes = {} PROVE DDSettled'
    <3>1. DDSettled /\ DDAlone /\ DDAlone'
      BY <2>3, <2>4, <1>1, <1>2 DEF DDInv, Escapes
    <3>2. \A e \in Dialogs : DDMove(change[e])'
      <4>1. DDMove(change[d])'
        BY <2>1, <2>2, <2>4, <3>1, <1>1, <1>2
           DEF DDSettled, DDMove, DDAlone, DDCopied, DDCalls, Settled, Whole, Points, Startable, Escapes, DDTypes, DDTrees, DDChanges, DDGone, DDStages, MoveSteps, AtRest, Absent
      <4>2. ASSUME NEW e \in Dialogs, e # d PROVE DDMove(change[e])'
        BY <2>1, <2>2, <2>4, <3>1, <1>1, <1>2, <4>2
           DEF DDSettled, DDMove, DDAlone, DDCopied, DDCalls, Settled, Whole, Points, Startable, Escapes, DDTypes, DDTrees, DDChanges, DDGone, DDStages, MoveSteps, AtRest, Absent
      <4> QED BY <4>1, <4>2
    <3>3. (app.broken => Startable /\ app.up)' /\ (server.state = "running" => server.on = app.dir)'
      BY <2>1, <2>2, <2>4, <3>1, <1>1, <1>2 DEF DDSettled, DDMove, DDCalls, Startable, DDTypes, DDTrees, DDChanges, DDGone, DDStages, MoveSteps, AtRest, Absent
    <3>4. ASSUME \A e \in Dialogs : change'[e].at \notin MoveSteps \cup {"autostart"}
           PROVE  (Settled(app.dir) \/ app.broken)'
      BY <2>1, <2>2, <2>4, <3>1, <3>4, <1>1, <1>2
         DEF DDSettled, DDMove, DDAlone, DDCopied, DDCalls, Settled, Whole, Points, Startable, Escapes, DDTypes, DDTrees, DDChanges, DDGone, DDStages, MoveSteps, AtRest, Absent
    <3> QED BY <3>2, <3>3, <3>4 DEF DDSettled
  <2> QED BY <2>1, <2>2, <2>3, <2>4 DEF DDInv
<1>3. CASE Way2
  <2>1. DDTypes /\ DDTypes'
    <3>1. DDTypes
      BY DEF DDInv
    <3>2. trees' \in [Locations -> DDTrees]
      BY <3>1, DataDirAssumption, <1>1, <1>3 DEF DDTypes, DDTrees, DDCalls, DDInv, Absent
    <3>3. change' \in [Dialogs -> DDChanges]
      BY <3>1, <1>1, <1>3 DEF DDTypes, DDTrees, DDChanges, DDGone, DDStages, MoveSteps, AtRest, Absent
    <3>4. app' \in [up: BOOLEAN, dir: Locations, relocating: BOOLEAN, broken: BOOLEAN]
      BY <3>1, <1>1, <1>3 DEF DDTypes, DDCalls, DDInv
    <3>5. server' \in [state: {"stopped", "starting", "running", "stopping", "failed"},
                        on: Locations]
      BY <3>1, <1>1, <1>3 DEF DDTypes
    <3>6. pointer' \in Locations \cup {"none"} /\ autostart' \in Locations \cup {"none"}
      BY <3>1, <1>1, <1>3 DEF DDTypes, DDCalls, DDInv
    <3> QED BY <3>1, <3>2, <3>3, <3>4, <3>5, <3>6, <1>1, <1>3 DEF DDTypes
  <2>2. DDCalls /\ DDCalls'
    BY <2>1, <1>1, <1>3 DEF DDInv, DDCalls, DDTypes, DDTrees, DDChanges, DDGone, DDStages, MoveSteps, AtRest, Absent
  <2>3. ASSUME "overlapped" \notin moveGaps' PROVE DDAlone /\ DDAlone'
    <3>1. DDAlone
      BY <2>3, <1>1, <1>3 DEF DDInv
    <3>2. \A e, f \in Dialogs : e # f /\ change'[e].at \notin AtRest => change'[f].at \in AtRest
      BY <2>1, <3>1, <1>1, <1>3 DEF DDAlone, DDTypes, DDTrees, DDChanges, DDGone, DDStages, MoveSteps, AtRest, Absent
    <3>3. \A e \in Dialogs : DDCopied(change[e])'
      BY <2>1, <2>2, <3>1, <1>1, <1>3 DEF DDAlone, DDCopied, DDCalls, DDTypes, DDTrees, DDChanges, DDGone, DDStages, MoveSteps, AtRest, Absent
    <3>4. PICK l \in Locations : trees[l].holds = "full"
      BY <3>1 DEF DDAlone
    <3>5. \E m \in Locations : trees'[m].holds = "full"
      BY <2>1, <2>2, <3>1, <3>4, <1>1, <1>3 DEF DDAlone, DDCopied, DDCalls, DDTypes, DDTrees, DDChanges, DDGone, DDStages, MoveSteps, AtRest, Absent
    <3> QED BY <3>1, <3>2, <3>3, <3>5 DEF DDAlone
  <2>4. ASSUME moveGaps' \cap Escapes = {} PROVE DDSettled'
    <3>1. DDSettled /\ DDAlone /\ DDAlone'
      BY <2>3, <2>4, <1>1, <1>3 DEF DDInv, Escapes
    <3>2. \A e \in Dialogs : DDMove(change[e])'
      BY <2>1, <2>2, <2>4, <3>1, <1>1, <1>3
         DEF DDSettled, DDMove, DDAlone, DDCopied, DDCalls, Settled, Whole, Points, Startable, Escapes, DDTypes, DDTrees, DDChanges, DDGone, DDStages, MoveSteps, AtRest, Absent
    <3>3. (app.broken => Startable /\ app.up)' /\ (server.state = "running" => server.on = app.dir)'
      BY <2>1, <2>2, <2>4, <3>1, <1>1, <1>3 DEF DDSettled, DDMove, DDCalls, Startable, DDTypes, DDTrees, DDChanges, DDGone, DDStages, MoveSteps, AtRest, Absent
    <3>4. ASSUME \A e \in Dialogs : change'[e].at \notin MoveSteps \cup {"autostart"}
           PROVE  (Settled(app.dir) \/ app.broken)'
      BY <2>1, <2>2, <2>4, <3>1, <3>4, <1>1, <1>3
         DEF DDSettled, DDMove, DDAlone, DDCopied, DDCalls, Settled, Whole, Points, Startable, Escapes, DDTypes, DDTrees, DDChanges, DDGone, DDStages, MoveSteps, AtRest, Absent
    <3> QED BY <3>2, <3>3, <3>4 DEF DDSettled
  <2> QED BY <2>1, <2>2, <2>3, <2>4 DEF DDInv
<1> QED BY <1>1, <1>2, <1>3

LEMMA LoadStoreOK ==
  ASSUME DDInv, NEW d \in Dialogs, LoadStore(d)
  PROVE  DDInv'
<1> DEFINE Way1 ==
             /\ DDGone(d, "swap")
             /\ UNCHANGED <<trees, pointer, autostart, app, server, moveGaps, changes, launches>>
           Way2 ==
             /\ DDGone(d, "ended")
             /\ app' = [app EXCEPT !.relocating = FALSE, !.broken = TRUE]
             /\ moveGaps' = moveGaps \cup {"load"}
             /\ UNCHANGED <<trees, pointer, autostart, server, changes, launches>>
<1>0. DDTypes
  BY DEF DDInv
<1>1. app.up /\ change[d].at = "load" /\ (Way1 \/ Way2)
  BY <1>0, GoesIs, ResumeIs DEF LoadStore, At, DDStages, AtRest, MoveSteps, NoMoveGap, MoveGap, Breaks
<1>2. CASE Way1
  <2>1. DDTypes /\ DDTypes'
    <3>1. DDTypes
      BY DEF DDInv
    <3>2. trees' \in [Locations -> DDTrees]
      BY <3>1, DataDirAssumption, <1>1, <1>2 DEF DDTypes, DDTrees, DDCalls, DDInv, Absent
    <3>3. change' \in [Dialogs -> DDChanges]
      BY <3>1, <1>1, <1>2 DEF DDTypes, DDTrees, DDChanges, DDGone, DDStages, MoveSteps, AtRest, Absent
    <3>4. app' \in [up: BOOLEAN, dir: Locations, relocating: BOOLEAN, broken: BOOLEAN]
      BY <3>1, <1>1, <1>2 DEF DDTypes, DDCalls, DDInv
    <3>5. server' \in [state: {"stopped", "starting", "running", "stopping", "failed"},
                        on: Locations]
      BY <3>1, <1>1, <1>2 DEF DDTypes
    <3>6. pointer' \in Locations \cup {"none"} /\ autostart' \in Locations \cup {"none"}
      BY <3>1, <1>1, <1>2 DEF DDTypes, DDCalls, DDInv
    <3> QED BY <3>1, <3>2, <3>3, <3>4, <3>5, <3>6, <1>1, <1>2 DEF DDTypes
  <2>2. DDCalls /\ DDCalls'
    BY <2>1, <1>1, <1>2 DEF DDInv, DDCalls, DDTypes, DDTrees, DDChanges, DDGone, DDStages, MoveSteps, AtRest, Absent
  <2>3. ASSUME "overlapped" \notin moveGaps' PROVE DDAlone /\ DDAlone'
    <3>1. DDAlone
      BY <2>3, <1>1, <1>2 DEF DDInv
    <3>2. \A e, f \in Dialogs : e # f /\ change'[e].at \notin AtRest => change'[f].at \in AtRest
      BY <2>1, <3>1, <1>1, <1>2 DEF DDAlone, DDTypes, DDTrees, DDChanges, DDGone, DDStages, MoveSteps, AtRest, Absent
    <3>3. \A e \in Dialogs : DDCopied(change[e])'
      BY <2>1, <2>2, <3>1, <1>1, <1>2 DEF DDAlone, DDCopied, DDCalls, DDTypes, DDTrees, DDChanges, DDGone, DDStages, MoveSteps, AtRest, Absent
    <3>4. PICK l \in Locations : trees[l].holds = "full"
      BY <3>1 DEF DDAlone
    <3>5. \E m \in Locations : trees'[m].holds = "full"
      BY <2>1, <2>2, <3>1, <3>4, <1>1, <1>2 DEF DDAlone, DDCopied, DDCalls, DDTypes, DDTrees, DDChanges, DDGone, DDStages, MoveSteps, AtRest, Absent
    <3> QED BY <3>1, <3>2, <3>3, <3>5 DEF DDAlone
  <2>4. ASSUME moveGaps' \cap Escapes = {} PROVE DDSettled'
    <3>1. DDSettled /\ DDAlone /\ DDAlone'
      BY <2>3, <2>4, <1>1, <1>2 DEF DDInv, Escapes
    <3>2. \A e \in Dialogs : DDMove(change[e])'
      BY <2>1, <2>2, <2>4, <3>1, <1>1, <1>2
         DEF DDSettled, DDMove, DDAlone, DDCopied, DDCalls, Settled, Whole, Points, Startable, Escapes, DDTypes, DDTrees, DDChanges, DDGone, DDStages, MoveSteps, AtRest, Absent
    <3>3. (app.broken => Startable /\ app.up)' /\ (server.state = "running" => server.on = app.dir)'
      BY <2>1, <2>2, <2>4, <3>1, <1>1, <1>2 DEF DDSettled, DDMove, DDCalls, Startable, DDTypes, DDTrees, DDChanges, DDGone, DDStages, MoveSteps, AtRest, Absent
    <3>4. ASSUME \A e \in Dialogs : change'[e].at \notin MoveSteps \cup {"autostart"}
           PROVE  (Settled(app.dir) \/ app.broken)'
      BY <2>1, <2>2, <2>4, <3>1, <3>4, <1>1, <1>2
         DEF DDSettled, DDMove, DDAlone, DDCopied, DDCalls, Settled, Whole, Points, Startable, Escapes, DDTypes, DDTrees, DDChanges, DDGone, DDStages, MoveSteps, AtRest, Absent
    <3> QED BY <3>2, <3>3, <3>4 DEF DDSettled
  <2> QED BY <2>1, <2>2, <2>3, <2>4 DEF DDInv
<1>3. CASE Way2
  <2>1. DDTypes /\ DDTypes'
    <3>1. DDTypes
      BY DEF DDInv
    <3>2. trees' \in [Locations -> DDTrees]
      BY <3>1, DataDirAssumption, <1>1, <1>3 DEF DDTypes, DDTrees, DDCalls, DDInv, Absent
    <3>3. change' \in [Dialogs -> DDChanges]
      BY <3>1, <1>1, <1>3 DEF DDTypes, DDTrees, DDChanges, DDGone, DDStages, MoveSteps, AtRest, Absent
    <3>4. app' \in [up: BOOLEAN, dir: Locations, relocating: BOOLEAN, broken: BOOLEAN]
      BY <3>1, <1>1, <1>3 DEF DDTypes, DDCalls, DDInv
    <3>5. server' \in [state: {"stopped", "starting", "running", "stopping", "failed"},
                        on: Locations]
      BY <3>1, <1>1, <1>3 DEF DDTypes
    <3>6. pointer' \in Locations \cup {"none"} /\ autostart' \in Locations \cup {"none"}
      BY <3>1, <1>1, <1>3 DEF DDTypes, DDCalls, DDInv
    <3> QED BY <3>1, <3>2, <3>3, <3>4, <3>5, <3>6, <1>1, <1>3 DEF DDTypes
  <2>2. DDCalls /\ DDCalls'
    BY <2>1, <1>1, <1>3 DEF DDInv, DDCalls, DDTypes, DDTrees, DDChanges, DDGone, DDStages, MoveSteps, AtRest, Absent
  <2>3. ASSUME "overlapped" \notin moveGaps' PROVE DDAlone /\ DDAlone'
    <3>1. DDAlone
      BY <2>3, <1>1, <1>3 DEF DDInv
    <3>2. \A e, f \in Dialogs : e # f /\ change'[e].at \notin AtRest => change'[f].at \in AtRest
      BY <2>1, <3>1, <1>1, <1>3 DEF DDAlone, DDTypes, DDTrees, DDChanges, DDGone, DDStages, MoveSteps, AtRest, Absent
    <3>3. \A e \in Dialogs : DDCopied(change[e])'
      BY <2>1, <2>2, <3>1, <1>1, <1>3 DEF DDAlone, DDCopied, DDCalls, DDTypes, DDTrees, DDChanges, DDGone, DDStages, MoveSteps, AtRest, Absent
    <3>4. PICK l \in Locations : trees[l].holds = "full"
      BY <3>1 DEF DDAlone
    <3>5. \E m \in Locations : trees'[m].holds = "full"
      BY <2>1, <2>2, <3>1, <3>4, <1>1, <1>3 DEF DDAlone, DDCopied, DDCalls, DDTypes, DDTrees, DDChanges, DDGone, DDStages, MoveSteps, AtRest, Absent
    <3> QED BY <3>1, <3>2, <3>3, <3>5 DEF DDAlone
  <2>4. ASSUME moveGaps' \cap Escapes = {} PROVE DDSettled'
    <3>1. DDSettled /\ DDAlone /\ DDAlone'
      BY <2>3, <2>4, <1>1, <1>3 DEF DDInv, Escapes
    <3>2. \A e \in Dialogs : DDMove(change[e])'
      BY <2>1, <2>2, <2>4, <3>1, <1>1, <1>3
         DEF DDSettled, DDMove, DDAlone, DDCopied, DDCalls, Settled, Whole, Points, Startable, Escapes, DDTypes, DDTrees, DDChanges, DDGone, DDStages, MoveSteps, AtRest, Absent
    <3>3. (app.broken => Startable /\ app.up)' /\ (server.state = "running" => server.on = app.dir)'
      BY <2>1, <2>2, <2>4, <3>1, <1>1, <1>3 DEF DDSettled, DDMove, DDCalls, Startable, DDTypes, DDTrees, DDChanges, DDGone, DDStages, MoveSteps, AtRest, Absent
    <3>4. ASSUME \A e \in Dialogs : change'[e].at \notin MoveSteps \cup {"autostart"}
           PROVE  (Settled(app.dir) \/ app.broken)'
      BY <2>1, <2>2, <2>4, <3>1, <3>4, <1>1, <1>3
         DEF DDSettled, DDMove, DDAlone, DDCopied, DDCalls, Settled, Whole, Points, Startable, Escapes, DDTypes, DDTrees, DDChanges, DDGone, DDStages, MoveSteps, AtRest, Absent
    <3> QED BY <3>2, <3>3, <3>4 DEF DDSettled
  <2> QED BY <2>1, <2>2, <2>3, <2>4 DEF DDInv
<1> QED BY <1>1, <1>2, <1>3

LEMMA SwapOK ==
  ASSUME DDInv, NEW d \in Dialogs, Swap(d)
  PROVE  DDInv'
<1> DEFINE Way1 ==
             /\ DDGone(d, "autostart")
             /\ app' = [app EXCEPT !.dir = change[d].to]
             /\ UNCHANGED <<trees, pointer, autostart, server, moveGaps, changes, launches>>
<1>0. DDTypes
  BY DEF DDInv
<1>1. app.up /\ change[d].at = "swap" /\ (Way1)
  BY <1>0, GoesIs, ResumeIs DEF Swap, At, DDStages, AtRest, MoveSteps
<1>2. CASE Way1
  <2>1. DDTypes /\ DDTypes'
    <3>1. DDTypes
      BY DEF DDInv
    <3>2. trees' \in [Locations -> DDTrees]
      BY <3>1, DataDirAssumption, <1>1, <1>2 DEF DDTypes, DDTrees, DDCalls, DDInv, Absent
    <3>3. change' \in [Dialogs -> DDChanges]
      BY <3>1, <1>1, <1>2 DEF DDTypes, DDTrees, DDChanges, DDGone, DDStages, MoveSteps, AtRest, Absent
    <3>4. app' \in [up: BOOLEAN, dir: Locations, relocating: BOOLEAN, broken: BOOLEAN]
      BY <3>1, <1>1, <1>2 DEF DDTypes, DDCalls, DDInv
    <3>5. server' \in [state: {"stopped", "starting", "running", "stopping", "failed"},
                        on: Locations]
      BY <3>1, <1>1, <1>2 DEF DDTypes
    <3>6. pointer' \in Locations \cup {"none"} /\ autostart' \in Locations \cup {"none"}
      BY <3>1, <1>1, <1>2 DEF DDTypes, DDCalls, DDInv
    <3> QED BY <3>1, <3>2, <3>3, <3>4, <3>5, <3>6, <1>1, <1>2 DEF DDTypes
  <2>2. DDCalls /\ DDCalls'
    BY <2>1, <1>1, <1>2 DEF DDInv, DDCalls, DDTypes, DDTrees, DDChanges, DDGone, DDStages, MoveSteps, AtRest, Absent
  <2>3. ASSUME "overlapped" \notin moveGaps' PROVE DDAlone /\ DDAlone'
    <3>1. DDAlone
      BY <2>3, <1>1, <1>2 DEF DDInv
    <3>2. \A e, f \in Dialogs : e # f /\ change'[e].at \notin AtRest => change'[f].at \in AtRest
      BY <2>1, <3>1, <1>1, <1>2 DEF DDAlone, DDTypes, DDTrees, DDChanges, DDGone, DDStages, MoveSteps, AtRest, Absent
    <3>3. \A e \in Dialogs : DDCopied(change[e])'
      BY <2>1, <2>2, <3>1, <1>1, <1>2 DEF DDAlone, DDCopied, DDCalls, DDTypes, DDTrees, DDChanges, DDGone, DDStages, MoveSteps, AtRest, Absent
    <3>4. PICK l \in Locations : trees[l].holds = "full"
      BY <3>1 DEF DDAlone
    <3>5. \E m \in Locations : trees'[m].holds = "full"
      BY <2>1, <2>2, <3>1, <3>4, <1>1, <1>2 DEF DDAlone, DDCopied, DDCalls, DDTypes, DDTrees, DDChanges, DDGone, DDStages, MoveSteps, AtRest, Absent
    <3> QED BY <3>1, <3>2, <3>3, <3>5 DEF DDAlone
  <2>4. ASSUME moveGaps' \cap Escapes = {} PROVE DDSettled'
    <3>1. DDSettled /\ DDAlone /\ DDAlone'
      BY <2>3, <2>4, <1>1, <1>2 DEF DDInv, Escapes
    <3>2. \A e \in Dialogs : DDMove(change[e])'
      BY <2>1, <2>2, <2>4, <3>1, <1>1, <1>2
         DEF DDSettled, DDMove, DDAlone, DDCopied, DDCalls, Settled, Whole, Points, Startable, Escapes, DDTypes, DDTrees, DDChanges, DDGone, DDStages, MoveSteps, AtRest, Absent
    <3>3. (app.broken => Startable /\ app.up)' /\ (server.state = "running" => server.on = app.dir)'
      BY <2>1, <2>2, <2>4, <3>1, <1>1, <1>2 DEF DDSettled, DDMove, DDCalls, Startable, DDTypes, DDTrees, DDChanges, DDGone, DDStages, MoveSteps, AtRest, Absent
    <3>4. ASSUME \A e \in Dialogs : change'[e].at \notin MoveSteps \cup {"autostart"}
           PROVE  (Settled(app.dir) \/ app.broken)'
      BY <2>1, <2>2, <2>4, <3>1, <3>4, <1>1, <1>2
         DEF DDSettled, DDMove, DDAlone, DDCopied, DDCalls, Settled, Whole, Points, Startable, Escapes, DDTypes, DDTrees, DDChanges, DDGone, DDStages, MoveSteps, AtRest, Absent
    <3> QED BY <3>2, <3>3, <3>4 DEF DDSettled
  <2> QED BY <2>1, <2>2, <2>3, <2>4 DEF DDInv
<1> QED BY <1>1, <1>2

LEMMA ReregisterOK ==
  ASSUME DDInv, NEW d \in Dialogs, Reregister(d)
  PROVE  DDInv'
<1> DEFINE Way1 ==
             /\ autostart' = IF autostart = "none" THEN autostart ELSE change[d].to
             /\ DDGone(d, "restart")
             /\ app' = [app EXCEPT !.relocating = FALSE]
             /\ UNCHANGED <<trees, pointer, server, moveGaps, changes, launches>>
           Way2 ==
             /\ DDGone(d, "ended")
             /\ app' = [app EXCEPT !.relocating = FALSE, !.broken = TRUE]
             /\ moveGaps' = moveGaps \cup {"autostart"}
             /\ UNCHANGED <<trees, pointer, autostart, server, changes, launches>>
<1>0. DDTypes
  BY DEF DDInv
<1>1. app.up /\ change[d].at = "autostart" /\ (Way1 \/ Way2)
  BY <1>0, GoesIs, ResumeIs DEF Reregister, At, DDStages, AtRest, MoveSteps, NoMoveGap, MoveGap, Breaks
<1>2. CASE Way1
  <2>1. DDTypes /\ DDTypes'
    <3>1. DDTypes
      BY DEF DDInv
    <3>2. trees' \in [Locations -> DDTrees]
      BY <3>1, DataDirAssumption, <1>1, <1>2 DEF DDTypes, DDTrees, DDCalls, DDInv, Absent
    <3>3. change' \in [Dialogs -> DDChanges]
      BY <3>1, <1>1, <1>2 DEF DDTypes, DDTrees, DDChanges, DDGone, DDStages, MoveSteps, AtRest, Absent
    <3>4. app' \in [up: BOOLEAN, dir: Locations, relocating: BOOLEAN, broken: BOOLEAN]
      BY <3>1, <1>1, <1>2 DEF DDTypes, DDCalls, DDInv
    <3>5. server' \in [state: {"stopped", "starting", "running", "stopping", "failed"},
                        on: Locations]
      BY <3>1, <1>1, <1>2 DEF DDTypes
    <3>6. pointer' \in Locations \cup {"none"} /\ autostart' \in Locations \cup {"none"}
      BY <3>1, <1>1, <1>2 DEF DDTypes, DDCalls, DDInv
    <3> QED BY <3>1, <3>2, <3>3, <3>4, <3>5, <3>6, <1>1, <1>2 DEF DDTypes
  <2>2. DDCalls /\ DDCalls'
    BY <2>1, <1>1, <1>2 DEF DDInv, DDCalls, DDTypes, DDTrees, DDChanges, DDGone, DDStages, MoveSteps, AtRest, Absent
  <2>3. ASSUME "overlapped" \notin moveGaps' PROVE DDAlone /\ DDAlone'
    <3>1. DDAlone
      BY <2>3, <1>1, <1>2 DEF DDInv
    <3>2. \A e, f \in Dialogs : e # f /\ change'[e].at \notin AtRest => change'[f].at \in AtRest
      BY <2>1, <3>1, <1>1, <1>2 DEF DDAlone, DDTypes, DDTrees, DDChanges, DDGone, DDStages, MoveSteps, AtRest, Absent
    <3>3. \A e \in Dialogs : DDCopied(change[e])'
      BY <2>1, <2>2, <3>1, <1>1, <1>2 DEF DDAlone, DDCopied, DDCalls, DDTypes, DDTrees, DDChanges, DDGone, DDStages, MoveSteps, AtRest, Absent
    <3>4. PICK l \in Locations : trees[l].holds = "full"
      BY <3>1 DEF DDAlone
    <3>5. \E m \in Locations : trees'[m].holds = "full"
      BY <2>1, <2>2, <3>1, <3>4, <1>1, <1>2 DEF DDAlone, DDCopied, DDCalls, DDTypes, DDTrees, DDChanges, DDGone, DDStages, MoveSteps, AtRest, Absent
    <3> QED BY <3>1, <3>2, <3>3, <3>5 DEF DDAlone
  <2>4. ASSUME moveGaps' \cap Escapes = {} PROVE DDSettled'
    <3>1. DDSettled /\ DDAlone /\ DDAlone'
      BY <2>3, <2>4, <1>1, <1>2 DEF DDInv, Escapes
    <3>2. \A e \in Dialogs : DDMove(change[e])'
      BY <2>1, <2>2, <2>4, <3>1, <1>1, <1>2
         DEF DDSettled, DDMove, DDAlone, DDCopied, DDCalls, Settled, Whole, Points, Startable, Escapes, DDTypes, DDTrees, DDChanges, DDGone, DDStages, MoveSteps, AtRest, Absent
    <3>3. (app.broken => Startable /\ app.up)' /\ (server.state = "running" => server.on = app.dir)'
      BY <2>1, <2>2, <2>4, <3>1, <1>1, <1>2 DEF DDSettled, DDMove, DDCalls, Startable, DDTypes, DDTrees, DDChanges, DDGone, DDStages, MoveSteps, AtRest, Absent
    <3>4. ASSUME \A e \in Dialogs : change'[e].at \notin MoveSteps \cup {"autostart"}
           PROVE  (Settled(app.dir) \/ app.broken)'
      BY <2>1, <2>2, <2>4, <3>1, <3>4, <1>1, <1>2
         DEF DDSettled, DDMove, DDAlone, DDCopied, DDCalls, Settled, Whole, Points, Startable, Escapes, DDTypes, DDTrees, DDChanges, DDGone, DDStages, MoveSteps, AtRest, Absent
    <3> QED BY <3>2, <3>3, <3>4 DEF DDSettled
  <2> QED BY <2>1, <2>2, <2>3, <2>4 DEF DDInv
<1>3. CASE Way2
  <2>1. DDTypes /\ DDTypes'
    <3>1. DDTypes
      BY DEF DDInv
    <3>2. trees' \in [Locations -> DDTrees]
      BY <3>1, DataDirAssumption, <1>1, <1>3 DEF DDTypes, DDTrees, DDCalls, DDInv, Absent
    <3>3. change' \in [Dialogs -> DDChanges]
      BY <3>1, <1>1, <1>3 DEF DDTypes, DDTrees, DDChanges, DDGone, DDStages, MoveSteps, AtRest, Absent
    <3>4. app' \in [up: BOOLEAN, dir: Locations, relocating: BOOLEAN, broken: BOOLEAN]
      BY <3>1, <1>1, <1>3 DEF DDTypes, DDCalls, DDInv
    <3>5. server' \in [state: {"stopped", "starting", "running", "stopping", "failed"},
                        on: Locations]
      BY <3>1, <1>1, <1>3 DEF DDTypes
    <3>6. pointer' \in Locations \cup {"none"} /\ autostart' \in Locations \cup {"none"}
      BY <3>1, <1>1, <1>3 DEF DDTypes, DDCalls, DDInv
    <3> QED BY <3>1, <3>2, <3>3, <3>4, <3>5, <3>6, <1>1, <1>3 DEF DDTypes
  <2>2. DDCalls /\ DDCalls'
    BY <2>1, <1>1, <1>3 DEF DDInv, DDCalls, DDTypes, DDTrees, DDChanges, DDGone, DDStages, MoveSteps, AtRest, Absent
  <2>3. ASSUME "overlapped" \notin moveGaps' PROVE DDAlone /\ DDAlone'
    <3>1. DDAlone
      BY <2>3, <1>1, <1>3 DEF DDInv
    <3>2. \A e, f \in Dialogs : e # f /\ change'[e].at \notin AtRest => change'[f].at \in AtRest
      BY <2>1, <3>1, <1>1, <1>3 DEF DDAlone, DDTypes, DDTrees, DDChanges, DDGone, DDStages, MoveSteps, AtRest, Absent
    <3>3. \A e \in Dialogs : DDCopied(change[e])'
      BY <2>1, <2>2, <3>1, <1>1, <1>3 DEF DDAlone, DDCopied, DDCalls, DDTypes, DDTrees, DDChanges, DDGone, DDStages, MoveSteps, AtRest, Absent
    <3>4. PICK l \in Locations : trees[l].holds = "full"
      BY <3>1 DEF DDAlone
    <3>5. \E m \in Locations : trees'[m].holds = "full"
      BY <2>1, <2>2, <3>1, <3>4, <1>1, <1>3 DEF DDAlone, DDCopied, DDCalls, DDTypes, DDTrees, DDChanges, DDGone, DDStages, MoveSteps, AtRest, Absent
    <3> QED BY <3>1, <3>2, <3>3, <3>5 DEF DDAlone
  <2>4. ASSUME moveGaps' \cap Escapes = {} PROVE DDSettled'
    <3>1. DDSettled /\ DDAlone /\ DDAlone'
      BY <2>3, <2>4, <1>1, <1>3 DEF DDInv, Escapes
    <3>2. \A e \in Dialogs : DDMove(change[e])'
      BY <2>1, <2>2, <2>4, <3>1, <1>1, <1>3
         DEF DDSettled, DDMove, DDAlone, DDCopied, DDCalls, Settled, Whole, Points, Startable, Escapes, DDTypes, DDTrees, DDChanges, DDGone, DDStages, MoveSteps, AtRest, Absent
    <3>3. (app.broken => Startable /\ app.up)' /\ (server.state = "running" => server.on = app.dir)'
      BY <2>1, <2>2, <2>4, <3>1, <1>1, <1>3 DEF DDSettled, DDMove, DDCalls, Startable, DDTypes, DDTrees, DDChanges, DDGone, DDStages, MoveSteps, AtRest, Absent
    <3>4. ASSUME \A e \in Dialogs : change'[e].at \notin MoveSteps \cup {"autostart"}
           PROVE  (Settled(app.dir) \/ app.broken)'
      BY <2>1, <2>2, <2>4, <3>1, <3>4, <1>1, <1>3
         DEF DDSettled, DDMove, DDAlone, DDCopied, DDCalls, Settled, Whole, Points, Startable, Escapes, DDTypes, DDTrees, DDChanges, DDGone, DDStages, MoveSteps, AtRest, Absent
    <3> QED BY <3>2, <3>3, <3>4 DEF DDSettled
  <2> QED BY <2>1, <2>2, <2>3, <2>4 DEF DDInv
<1> QED BY <1>1, <1>2, <1>3

(* The steps that are not of one call, and a call's first and last.        *)
LEMMA GrownTypes ==
  ASSUME DDTypes, NEW l \in Locations, trees' = Made(trees, l)
  PROVE  trees' \in [Locations -> DDTrees] /\ DDGrown
BY MadeIs DEF DDTypes, DDGrown

LEMMA GrownAlone ==
  ASSUME DDTypes, DDCalls, DDAlone, DDGrown,
         \A d \in Dialogs : change'[d].at \in AtRest \/ change'[d] = change[d]
  PROVE  DDAlone'
<1>1. \A c, d \in Dialogs : c # d /\ change'[c].at \notin AtRest => change'[d].at \in AtRest
  BY DEF DDAlone
<1>2. ASSUME NEW d \in Dialogs PROVE DDCopied(change[d])'
  <2>1. CASE change'[d].at \in AtRest
    BY <2>1 DEF DDCopied, AtRest
  <2>2. CASE change'[d] = change[d]
    <3>1. change[d].at # "idle" => change[d].from \in Locations /\ change[d].to \in Locations
      BY DEF DDCalls
    <3> QED BY <2>2, <3>1 DEF DDAlone, DDCopied, DDGrown
  <2> QED BY <2>1, <2>2
<1>3. \E l \in Locations : trees'[l].holds = "full"
  <2>1. PICK l \in Locations : trees[l].holds = "full"
    BY DEF DDAlone
  <2> QED BY <2>1 DEF DDGrown
<1> QED BY <1>1, <1>2, <1>3 DEF DDAlone

LEMMA QuietSettled ==
  ASSUME DDTypes, DDSettled, ~app.broken,
         \A d \in Dialogs : change[d].at \notin MoveSteps \cup {"autostart"}
  PROVE  /\ Settled(app.dir) /\ Anchors(trees, app.dir) = {app.dir}
         /\ Made(trees, app.dir) = trees
<1>1. Settled(app.dir)
  BY DEF DDSettled
<1>2. trees \in [Locations -> DDTrees] /\ app.dir \in Locations
  BY DEF DDTypes
<1> QED BY <1>1, <1>2, AnchorsAre, MadeIs DEF Settled, Whole

LEMMA StartServerOK ==
  ASSUME DDInv, StartServer
  PROVE  DDInv'
<1>1. /\ app.up /\ ~app.relocating /\ ~app.broken
      /\ server' = [server EXCEPT !.state = "starting"]
      /\ UNCHANGED <<pointer, autostart, app, change, moveGaps, changes, launches>>
  BY DEF StartServer, CanStart
<1>2. DDTypes /\ DDCalls
  BY DEF DDInv
<1>3. PICK l \in Anchors(trees, app.dir) : trees' = Made(trees, l)
  BY DEF StartServer
<1>4. l \in Locations
  BY <1>2, <1>3, AnchorsAre
<1>5. DDTypes' /\ DDGrown
  BY <1>1, <1>2, <1>3, <1>4, GrownTypes DEF DDTypes
<1>6. DDCalls'
  BY <1>1, <1>2 DEF DDCalls
<1>7. ASSUME "overlapped" \notin moveGaps' PROVE DDAlone'
  BY <1>1, <1>2, <1>5, <1>7, GrownAlone DEF DDInv
<1>8. ASSUME moveGaps' \cap Escapes = {} PROVE DDSettled'
  <2>1. DDSettled
    BY <1>1, <1>8 DEF DDInv
  <2>2. \A d \in Dialogs : change[d].at \in AtRest \cup {"restart"}
    BY <1>1, <2>1 DEF DDSettled, DDMove
  <2>3. Settled(app.dir) /\ trees' = trees
    BY <1>1, <1>2, <1>3, <2>1, <2>2, QuietSettled DEF AtRest, MoveSteps
  <2>4. \A d \in Dialogs : DDMove(change[d])'
    BY <1>1, <2>2 DEF DDMove, AtRest, MoveSteps
  <2> QED BY <1>1, <1>2, <2>1, <2>3, <2>4 DEF DDSettled, Settled, Whole, Points, DDTypes
<1> QED BY <1>5, <1>6, <1>7, <1>8 DEF DDInv

LEMMA ServerRunsOK ==
  ASSUME DDInv, ServerRuns
  PROVE  DDInv'
<1>1. /\ server.state = "starting"
      /\ UNCHANGED <<pointer, autostart, app, change, moveGaps, changes, launches>>
  BY DEF ServerRuns
<1>2. DDTypes /\ DDCalls /\ app.up
  BY <1>1 DEF DDInv, DDCalls
<1>3. ASSUME moveGaps' \cap Escapes = {}
      PROVE  /\ DDSettled /\ Settled(app.dir) /\ Anchors(trees, app.dir) = {app.dir}
             /\ Made(trees, app.dir) = trees /\ ~app.broken
             /\ \A d \in Dialogs : change[d].at \notin MoveSteps \cup {"move", "autostart", "stopped"}
  <2>1. DDSettled
    BY <1>1, <1>3 DEF DDInv
  <2>2. ~app.broken /\ \A d \in Dialogs : change[d].at \notin MoveSteps \cup {"move", "autostart", "stopped"}
    BY <1>1, <2>1 DEF DDSettled, DDMove, Startable
  <2> QED BY <1>2, <2>1, <2>2, QuietSettled
<1>4. CASE \E l \in Anchors(trees, app.dir) :
              server' = [state |-> "running", on |-> l] /\ trees' = Made(trees, l)
  <2>1. PICK l \in Anchors(trees, app.dir) :
               server' = [state |-> "running", on |-> l] /\ trees' = Made(trees, l)
    BY <1>4
  <2>2. l \in Locations
    BY <1>2, <2>1, AnchorsAre
  <2>3. DDTypes' /\ DDGrown
    BY <1>1, <1>2, <2>1, <2>2, GrownTypes DEF DDTypes
  <2>4. DDCalls'
    BY <1>1, <1>2 DEF DDCalls
  <2>5. ASSUME "overlapped" \notin moveGaps' PROVE DDAlone'
    BY <1>1, <1>2, <2>3, <2>5, GrownAlone DEF DDInv
  <2>6. ASSUME moveGaps' \cap Escapes = {} PROVE DDSettled'
    <3>1. l = app.dir /\ trees' = trees
      BY <1>3, <2>1, <2>6
    <3>2. \A d \in Dialogs : DDMove(change[d])'
      BY <1>1, <1>3, <2>6, <3>1 DEF DDSettled, DDMove, AtRest, MoveSteps
    <3> QED BY <1>1, <1>3, <2>1, <2>6, <3>1, <3>2 DEF DDSettled, Settled, Whole, Points
  <2> QED BY <2>3, <2>4, <2>5, <2>6 DEF DDInv
<1>5. CASE server' = [server EXCEPT !.state = "failed"] /\ trees' = trees
  <2>1. DDTypes' /\ DDCalls'
    BY <1>1, <1>2, <1>5 DEF DDTypes, DDCalls
  <2>2. ASSUME "overlapped" \notin moveGaps' PROVE DDAlone'
    BY <1>1, <1>5, <2>2 DEF DDInv, DDAlone, DDCopied
  <2>3. ASSUME moveGaps' \cap Escapes = {} PROVE DDSettled'
    <3>1. \A d \in Dialogs : DDMove(change[d])'
      BY <1>1, <1>3, <1>5, <2>3 DEF DDSettled, DDMove, AtRest, MoveSteps
    <3>2. server'.state = "failed"
      BY <1>2, <1>5 DEF DDTypes
    <3> QED BY <1>1, <1>3, <1>5, <2>3, <3>1, <3>2 DEF DDSettled, Settled, Whole, Points
  <2> QED BY <2>1, <2>2, <2>3 DEF DDInv
<1> QED BY <1>4, <1>5 DEF ServerRuns

LEMMA StopsOK ==
  ASSUME DDInv, StopByUser \/ StopFinishes
  PROVE  DDInv'
<1>1. /\ \/ app.up /\ server.state = "running" /\ server' = [server EXCEPT !.state = "stopping"]
         \/ server.state = "stopping" /\ server' = [server EXCEPT !.state = "stopped"]
      /\ UNCHANGED <<trees, pointer, autostart, app, change, moveGaps, changes, launches>>
  BY DEF StopByUser, StopFinishes
<1>2. DDTypes /\ DDTypes' /\ DDCalls'
  BY <1>1 DEF DDInv, DDTypes, DDCalls
<1>3. ASSUME "overlapped" \notin moveGaps' PROVE DDAlone'
  BY <1>1, <1>3 DEF DDInv, DDAlone, DDCopied
<1>4. ASSUME moveGaps' \cap Escapes = {} PROVE DDSettled'
  <2>1. DDSettled /\ server'.state \in {"stopping", "stopped"}
    BY <1>1, <1>2, <1>4 DEF DDInv, DDTypes
  <2>2. ~app.broken /\ \A d \in Dialogs : change[d].at \notin MoveSteps \cup {"move", "autostart"}
    BY <1>1, <2>1 DEF DDSettled, DDMove, Startable
  <2>3. \A d \in Dialogs : DDMove(change[d])'
    BY <1>1, <2>1, <2>2 DEF DDSettled, DDMove, AtRest, MoveSteps
  <2> QED BY <1>1, <2>1, <2>2, <2>3 DEF DDSettled, Settled, Whole, Points
<1> QED BY <1>2, <1>3, <1>4 DEF DDInv

LEMMA SaveSettingsOK ==
  ASSUME DDInv, SaveSettings
  PROVE  DDInv'
<1>1. /\ app.up /\ ~app.broken
      /\ moveGaps' = moveGaps \cup (IF Moving = {} THEN {} ELSE {"saved"})
      /\ UNCHANGED <<pointer, autostart, app, server, change, changes, launches>>
  BY DEF SaveSettings
<1>2. DDTypes /\ DDCalls /\ DDCalls'
  BY <1>1 DEF DDInv, DDCalls
<1>3. PICK l \in Anchors(trees, app.dir) :
             trees' = [Made(trees, app.dir) EXCEPT ![app.dir].paths = l]
  BY DEF SaveSettings
<1>4. l \in Locations /\ app.dir \in Locations
  BY <1>2, <1>3, AnchorsAre DEF DDTypes
<1>5. /\ trees' \in [Locations -> DDTrees] /\ DDGrown
      /\ trees'[app.dir].paths = l
      /\ \A m \in Locations \ {app.dir} : trees'[m] = trees[m]
  <2>1. Made(trees, app.dir) \in [Locations -> DDTrees]
    BY <1>2, <1>4, MadeIs DEF DDTypes
  <2>2. /\ trees' \in [Locations -> DDTrees] /\ trees'[app.dir].paths = l
        /\ \A m \in Locations : trees'[m].holds = Made(trees, app.dir)[m].holds
        /\ \A m \in Locations \ {app.dir} : trees'[m] = Made(trees, app.dir)[m]
    BY <1>3, <1>4, <2>1 DEF DDTrees
  <2>3. \A m \in Locations \ {app.dir} : Made(trees, app.dir)[m] = trees[m]
    BY <1>2, <1>4 DEF Made, DDTypes
  <2>4. DDGrown
    <3>1. \A m \in Locations : Made(trees, app.dir)[m].holds =
                                IF m = app.dir /\ trees[m].holds = "none" THEN "fresh"
                                ELSE trees[m].holds
      BY <1>2, <1>4, MadeIs DEF DDTypes
    <3> QED BY <2>2, <3>1 DEF DDGrown
  <2> QED BY <2>2, <2>3, <2>4
<1>6. DDTypes'
  BY <1>1, <1>2, <1>5 DEF DDTypes
<1>7. ASSUME "overlapped" \notin moveGaps' PROVE DDAlone'
  BY <1>1, <1>2, <1>5, <1>7, GrownAlone DEF DDInv
<1>8. ASSUME moveGaps' \cap Escapes = {} PROVE DDSettled'
  <2>1. DDSettled /\ \A d \in Dialogs : change[d].at \notin MoveSteps
    BY <1>1, <1>8 DEF DDInv, Escapes, Moving
  <2>2. Whole(app.dir, app.dir)
    <3>1. CASE \E d \in Dialogs : change[d].at = "autostart"
      BY <1>1, <2>1, <3>1 DEF DDSettled, DDMove
    <3>2. CASE \A d \in Dialogs : change[d].at # "autostart"
      BY <1>1, <2>1, <3>2 DEF DDSettled, Settled
    <3> QED BY <3>1, <3>2
  <2>3. l = app.dir
    BY <1>2, <1>3, <2>2, AnchorsAre
  <2>4. Whole(app.dir, app.dir)'
    BY <1>1, <1>4, <1>5, <2>2, <2>3 DEF Whole, DDGrown
  <2>5. ASSUME NEW d \in Dialogs PROVE DDMove(change[d])'
    <3>1. DDMove(change[d]) /\ change[d].at \notin MoveSteps
      BY <2>1 DEF DDSettled
    <3>2. change[d].at = "autostart" => Whole(change[d].to, change[d].to)'
      BY <1>1, <2>4, <3>1 DEF DDMove
    <3> QED BY <1>1, <3>1, <3>2 DEF DDMove, MoveSteps, AtRest, Startable
  <2> QED BY <1>1, <2>1, <2>4, <2>5 DEF DDSettled, Settled, Points, Startable
<1> QED BY <1>2, <1>6, <1>7, <1>8 DEF DDInv

LEMMA SetAutostartOK ==
  ASSUME DDInv, SetAutostart
  PROVE  DDInv'
<1>1. /\ app.up /\ autostart' \in {"none", app.dir}
      /\ UNCHANGED <<trees, pointer, app, server, change, moveGaps, changes, launches>>
  BY DEF SetAutostart
<1>2. DDTypes /\ DDTypes' /\ DDCalls'
  BY <1>1 DEF DDInv, DDTypes, DDCalls
<1>3. ASSUME "overlapped" \notin moveGaps' PROVE DDAlone'
  BY <1>1, <1>3 DEF DDInv, DDAlone, DDCopied
<1>4. ASSUME moveGaps' \cap Escapes = {} PROVE DDSettled'
  <2>1. DDSettled
    BY <1>1, <1>4 DEF DDInv
  <2>2. \A d \in Dialogs : DDMove(change[d])'
    BY <1>1, <2>1 DEF DDSettled, DDMove, AtRest, MoveSteps, Settled, Whole, Points, Startable
  <2> QED BY <1>1, <2>1, <2>2 DEF DDSettled, Settled, Whole, Points, Startable
<1> QED BY <1>2, <1>3, <1>4 DEF DDInv

LEMMA BeginChangeOK ==
  ASSUME DDInv, NEW d \in Dialogs, BeginChange(d)
  PROVE  DDInv'
<1>1. /\ app.up /\ change[d].at \in AtRest
      /\ app' = [app EXCEPT !.relocating = TRUE]
      /\ UNCHANGED <<trees, pointer, autostart, server, launches>>
  BY DEF BeginChange, AtRest
<1>2. PICK to \in Locations :
         change' = [change EXCEPT ![d] = [at |-> "state", from |-> app.dir, to |-> to,
                                          wasRunning |-> FALSE]]
  BY DEF BeginChange
<1>3. /\ moveGaps \subseteq moveGaps'
      /\ "overlapped" \notin moveGaps' => \A e \in Dialogs \ {d} : change[e].at \in AtRest
  BY DEF BeginChange, MoveGap, NoMoveGap, AtRest
<1>4. DDTypes /\ DDCalls
  BY DEF DDInv
<1>5. DDTypes' /\ DDCalls'
  <2>1. change' \in [Dialogs -> DDChanges]
    BY <1>2, <1>4 DEF DDTypes, DDChanges, DDStages
  <2>2. app' \in [up: BOOLEAN, dir: Locations, relocating: BOOLEAN, broken: BOOLEAN]
        /\ app'.up
    BY <1>1, <1>4 DEF DDTypes
  <2>3. changes' \in 0..MaxChanges
    BY <1>4, DataDirAssumption DEF DDTypes, BeginChange
  <2>4. DDTypes'
    BY <1>1, <1>4, <2>1, <2>2, <2>3 DEF DDTypes
  <2>5. DDCalls'
    BY <1>1, <1>2, <1>4, <2>2 DEF DDTypes, DDCalls
  <2> QED BY <2>4, <2>5
<1>6. ASSUME "overlapped" \notin moveGaps' PROVE DDAlone'
  BY <1>1, <1>2, <1>3, <1>4, <1>6 DEF DDInv, DDAlone, DDCopied, DDTypes, AtRest
<1>7. ASSUME moveGaps' \cap Escapes = {} PROVE DDSettled'
  <2>1. DDSettled /\ \A e \in Dialogs : change[e].at \in AtRest
    BY <1>1, <1>3, <1>7 DEF DDInv, Escapes
  <2>2. /\ app'.dir = app.dir /\ app'.relocating /\ app'.up = app.up /\ app'.broken = app.broken
    BY <1>1, <1>4 DEF DDTypes
  <2>3. \A e \in Dialogs : DDMove(change[e])'
    BY <1>1, <1>2, <1>4, <2>1, <2>2 DEF DDMove, AtRest, MoveSteps, DDTypes
  <2>4. Settled(app.dir) \/ app.broken
    BY <2>1 DEF DDSettled, AtRest, MoveSteps
  <2> QED BY <1>1, <2>1, <2>2, <2>3, <2>4 DEF DDSettled, Settled, Whole, Points, Startable
<1> QED BY <1>5, <1>6, <1>7 DEF DDInv

LEMMA RestartServerOK ==
  ASSUME DDInv, NEW d \in Dialogs, RestartServer(d)
  PROVE  DDInv'
<1>1. /\ app.up /\ change[d].at = "restart"
      /\ app' = [app EXCEPT !.relocating = FALSE]
      /\ UNCHANGED <<pointer, autostart, moveGaps, changes, launches>>
  BY DEF RestartServer, At, Ends
<1>2. DDTypes /\ DDCalls
  BY DEF DDInv
<1>3. DDGone(d, "ended")
  BY <1>2, GoesIs DEF RestartServer, Ends, DDStages, AtRest
<1>4. \/ UNCHANGED <<server, trees>>
      \/ /\ ~app.relocating /\ ~app.broken /\ server' = [server EXCEPT !.state = "starting"]
         /\ \E l \in Anchors(trees, app.dir) : trees' = Made(trees, l)
  BY DEF RestartServer, CanStart
<1>5. trees' \in [Locations -> DDTrees] /\ DDGrown
  BY <1>2, <1>4, GrownTypes, AnchorsAre DEF DDTypes, DDGrown
<1>6. DDTypes' /\ DDCalls'
  <2>1. server' \in [state: {"stopped", "starting", "running", "stopping", "failed"}, on: Locations]
    BY <1>2, <1>4 DEF DDTypes
  <2>2. DDTypes'
    BY <1>1, <1>2, <1>3, <1>5, <2>1 DEF DDTypes, DDGone
  <2> QED BY <1>1, <1>2, <1>3, <2>2 DEF DDTypes, DDCalls, DDGone
<1>7. ASSUME "overlapped" \notin moveGaps' PROVE DDAlone /\ DDAlone'
  <2>1. DDAlone
    BY <1>1, <1>7 DEF DDInv
  <2>2. \A e \in Dialogs : change'[e].at \in AtRest \/ change'[e] = change[e]
    BY <1>3 DEF DDGone, AtRest
  <2> QED BY <1>2, <1>5, <2>1, <2>2, GrownAlone
<1>8. ASSUME moveGaps' \cap Escapes = {} PROVE DDSettled'
  <2>1. DDSettled /\ DDAlone
    BY <1>1, <1>7, <1>8 DEF DDInv, Escapes
  <2>2. \A e \in Dialogs : change[e].at \in AtRest \cup {"restart"} /\ change'[e].at \in AtRest
    BY <1>1, <1>3, <2>1, AloneAt DEF DDGone, AtRest
  <2>3. Settled(app.dir) \/ app.broken
    BY <2>1, <2>2 DEF DDSettled, AtRest, MoveSteps
  <2>4. trees' = trees
    BY <1>2, <1>4, <2>1, <2>2, QuietSettled DEF AtRest, MoveSteps
  <2>5. app'.dir = app.dir /\ app'.up = app.up /\ app'.broken = app.broken
    BY <1>1, <1>2 DEF DDTypes
  <2>6. server' = server \/ (server'.state = "starting" /\ ~app.broken)
    BY <1>2, <1>4 DEF DDTypes
  <2>7. \A e \in Dialogs : DDMove(change[e])'
    BY <2>2 DEF DDMove, AtRest, MoveSteps
  <2> QED BY <1>1, <2>1, <2>3, <2>4, <2>5, <2>6, <2>7 DEF DDSettled, Settled, Whole, Points, Startable
<1> QED BY <1>6, <1>7, <1>8 DEF DDInv

LEMMA AppLaunchesOK ==
  ASSUME DDInv, AppLaunches
  PROVE  DDInv'
<1>1. /\ ~app.up /\ launches' = launches + 1 /\ launches < MaxLaunches
      /\ trees' = Made(trees, app'.dir)
      /\ server' = [server EXCEPT !.state = "starting"]
      /\ UNCHANGED <<pointer, autostart, change, moveGaps, changes>>
  BY DEF AppLaunches
<1>2. PICK byEntry \in BOOLEAN :
         app' = [up |-> TRUE, dir |-> Resolved(byEntry), relocating |-> FALSE, broken |-> FALSE]
  BY DEF AppLaunches
<1>3. DDTypes /\ DDCalls /\ \A d \in Dialogs : change[d].at = "idle"
  BY <1>1 DEF DDInv, DDCalls
<1>4. Resolved(byEntry) \in Locations
  BY <1>3, DataDirAssumption DEF DDTypes, Resolved
<1>5. /\ app'.dir = Resolved(byEntry) /\ app'.up /\ ~app'.relocating /\ ~app'.broken
      /\ app' \in [up: BOOLEAN, dir: Locations, relocating: BOOLEAN, broken: BOOLEAN]
  BY <1>2, <1>4
<1>6. trees' \in [Locations -> DDTrees] /\ DDGrown
  BY <1>1, <1>3, <1>4, <1>5, GrownTypes
<1>7. DDTypes' /\ DDCalls'
  <2>1. launches' \in 0..MaxLaunches
    BY <1>1, <1>3, DataDirAssumption DEF DDTypes
  <2>2. server' \in [state: {"stopped", "starting", "running", "stopping", "failed"}, on: Locations]
    BY <1>1, <1>3 DEF DDTypes
  <2> QED BY <1>1, <1>3, <1>5, <1>6, <2>1, <2>2 DEF DDTypes, DDCalls
<1>8. ASSUME "overlapped" \notin moveGaps' PROVE DDAlone'
  <2>1. DDAlone
    BY <1>1, <1>8 DEF DDInv
  <2> QED BY <1>1, <1>3, <1>6, <2>1, GrownAlone
<1>9. ASSUME moveGaps' \cap Escapes = {} PROVE DDSettled'
  <2>1. DDSettled /\ ~app.broken
    BY <1>1, <1>9 DEF DDInv, DDSettled
  <2>2. Settled(app.dir) /\ Made(trees, app.dir) = trees
    BY <1>3, <2>1, QuietSettled DEF MoveSteps
  <2>3. Resolved(byEntry) = app.dir
    BY <1>3, <2>2, DataDirAssumption DEF Resolved, Settled, Points, DDTypes
  <2>4. trees' = trees /\ app'.dir = app.dir
    BY <1>1, <1>5, <2>2, <2>3
  <2>5. \A d \in Dialogs : DDMove(change[d])'
    BY <1>1, <1>3 DEF DDMove, AtRest, MoveSteps
  <2>6. server'.state = "starting"
    BY <1>1, <1>3 DEF DDTypes
  <2> QED BY <1>1, <1>5, <2>2, <2>4, <2>5, <2>6 DEF DDSettled, Settled, Whole, Points
<1> QED BY <1>7, <1>8, <1>9 DEF DDInv

LEMMA AppExitsOK ==
  ASSUME DDInv, AppExits
  PROVE  DDInv'
<1>1. /\ app.up /\ app' = [app EXCEPT !.up = FALSE]
      /\ server' = [server EXCEPT !.state = "stopped"]
      /\ change' = [d \in Dialogs |-> NoChange]
      /\ UNCHANGED <<trees, pointer, autostart, changes, launches>>
  BY DEF AppExits
<1>2. moveGaps \subseteq moveGaps'
  BY DEF AppExits
<1>3. DDTypes /\ DDCalls
  BY DEF DDInv
<1>4. DDTypes' /\ DDCalls'
  <2>1. NoChange \in DDChanges /\ NoChange.at = "idle"
    BY DEF NoChange, DDChanges, DDStages, AtRest
  <2>2. /\ app' \in [up: BOOLEAN, dir: Locations, relocating: BOOLEAN, broken: BOOLEAN]
        /\ server' \in [state: {"stopped", "starting", "running", "stopping", "failed"}, on: Locations]
        /\ server'.state = "stopped"
    BY <1>1, <1>3 DEF DDTypes
  <2> QED BY <1>1, <1>3, <2>1, <2>2 DEF DDTypes, DDCalls
<1>5. \A d \in Dialogs : change'[d].at = "idle"
  BY <1>1 DEF NoChange
<1>6. ASSUME "overlapped" \notin moveGaps' PROVE DDAlone'
  BY <1>1, <1>2, <1>5, <1>6 DEF DDInv, DDAlone, DDCopied, AtRest
<1>7. ASSUME moveGaps' \cap Escapes = {} PROVE DDSettled'
  <2>1. DDSettled
    BY <1>2, <1>7 DEF DDInv
  <2>2. ~app.broken /\ \A d \in Dialogs : change[d].at \notin MoveSteps \cup {"autostart"}
    BY <1>7 DEF AppExits, Escapes
  <2>3. Settled(app.dir)
    BY <1>3, <2>1, <2>2, QuietSettled
  <2>4. \A d \in Dialogs : DDMove(change[d])'
    BY <1>5 DEF DDMove, AtRest, MoveSteps
  <2>5. app'.dir = app.dir /\ app'.broken = app.broken /\ server'.state = "stopped"
    BY <1>1, <1>3 DEF DDTypes
  <2> QED BY <1>1, <2>2, <2>3, <2>4, <2>5 DEF DDSettled, Settled, Whole, Points
<1> QED BY <1>4, <1>6, <1>7 DEF DDInv

LEMMA DDInitOK ==
  ASSUME DataDirInit
  PROVE  DDInv
<1>1. DDTypes
  BY DataDirAssumption DEF DataDirInit, DDTypes, DDTrees, DDChanges, DDStages, AtRest, NoChange, Absent
<1>2. /\ \A d \in Dialogs : change[d].at = "idle"
      /\ Home \in Locations /\ trees[Home] = [holds |-> "full", paths |-> "relative"]
      /\ server.state = "stopped" /\ ~app.broken /\ ~app.up /\ app.dir = Home
      /\ pointer = "none" /\ autostart = "none"
  BY DataDirAssumption DEF DataDirInit, NoChange
<1>3. DDCalls /\ DDAlone
  BY <1>2 DEF DDCalls, DDAlone, DDCopied, AtRest
<1>4. DDSettled
  BY <1>2 DEF DDSettled, DDMove, AtRest, MoveSteps, Settled, Whole, Points
<1> QED BY <1>1, <1>3, <1>4 DEF DDInv

LEMMA DDStepOK ==
  ASSUME DDInv, [DataDirNext]_dataDirVars
  PROVE  DDInv'
<1>1. CASE UNCHANGED dataDirVars
  BY <1>1 DEF dataDirVars, DDInv, DDTypes, DDCalls, DDAlone, DDCopied, DDSettled, DDMove, Settled,
              Whole, Points, Startable
<1>2. CASE StartServer \/ ServerRuns \/ StopByUser \/ StopFinishes \/ SaveSettings \/ SetAutostart
  BY <1>2, StartServerOK, ServerRunsOK, StopsOK, SaveSettingsOK, SetAutostartOK
<1>3. ASSUME NEW d \in Dialogs, ChangeDataDir(d) PROVE DDInv'
  <2>1. CASE BeginChange(d) \/ CheckState(d) \/ StopServer(d) \/ ServerStopped(d) \/ RefuseTarget(d)
    BY <2>1, BeginChangeOK, CheckStateOK, StopServerOK, ServerStoppedOK, RefuseTargetOK
  <2>2. CASE Rename(d) \/ BeginCopy(d) \/ CopyEnds(d) \/ RemoveSource(d) \/ SetPointer(d)
    BY <2>2, RenameOK, BeginCopyOK, CopyEndsOK, RemoveSourceOK, SetPointerOK
  <2>3. CASE RemapPaths(d) \/ LoadStore(d) \/ Swap(d) \/ Reregister(d) \/ RestartServer(d)
    BY <2>3, RemapPathsOK, LoadStoreOK, SwapOK, ReregisterOK, RestartServerOK
  <2> QED BY <1>3, <2>1, <2>2, <2>3 DEF ChangeDataDir
<1>4. CASE AppLaunches \/ AppExits
  BY <1>4, AppLaunchesOK, AppExitsOK
<1> QED BY <1>1, <1>2, <1>3, <1>4 DEF DataDirNext

LEMMA DDInvSafe ==
  ASSUME DDInv
  PROVE  DataDirSafe
<1>1. DDTypes
  BY DEF DDInv
<1>2. DataDirTypeOK
  BY <1>1 DEF DataDirTypeOK, DDTypes, DDTrees, DDChanges, DDStages, AtRest
<1>3. DataIsKept
  BY DEF DDInv, DDAlone, DataIsKept
<1>4. ServesTheData
  <2>1. CASE moveGaps \cap Escapes = {} /\ server.state = "running"
    <3>1. DDSettled
      BY <2>1 DEF DDInv
    <3>2. ~app.broken /\ \A d \in Dialogs : change[d].at \notin MoveSteps \cup {"autostart"}
      BY <2>1, <3>1 DEF DDSettled, DDMove, Startable
    <3> QED BY <2>1, <3>1, <3>2 DEF DDSettled, Settled, Whole, ServesTheData
  <2> QED BY <2>1 DEF ServesTheData, Escapes
<1> QED BY <1>2, <1>3, <1>4 DEF DataDirSafe

(* Moving the data directory loses nothing while the calls do not overlap, *)
(* and a server that runs, runs on the household's data (ChangeDataDir in  *)
(* bindings.go, Relocate in datadir.go), for any set of locations, number  *)
(* of dialogs, changes and launches.                                       *)
THEOREM DataDirTheorem == DataDirInit /\ [][DataDirNext]_dataDirVars => []DataDirSafe
<1>1. DataDirInit => DDInv
  BY DDInitOK
<1>2. DDInv /\ [DataDirNext]_dataDirVars => DDInv'
  BY DDStepOK
<1>3. DDInv => DataDirSafe
  BY DDInvSafe
<1> QED BY <1>1, <1>2, <1>3, PTL
-----------------------------------------------------------------------------
(* The settings: the inductive invariant.  While the process is up its     *)
(* base is what it would load, but for a language that was saved blank,    *)
(* and its values are that with the environment's; a save that is written  *)
(* is one that a start would accept.                                       *)

Values == UNION {ValuesOf[f] \cup {EnvValue[f]} : f \in Fields}
Settings0 == {v \in [Fields -> Values] : \A f \in Fields : v[f] \in ValuesOf[f] \cup {EnvValue[f]}}
PutOf == [at: {"idle", "read", "written"}, v: Settings0, changed: SUBSET Fields, stale: BOOLEAN]
Putters == SettingsClients \cup {"tools"}
Up == {"starting", "resolving", "up"}

SettingsTypes ==
    /\ file \in Settings0 /\ tmpFile \in Settings0
    /\ store \in [at: Up \cup {"down", "refused"}, base: Settings0, value: Settings0]
    /\ puts \in [Putters -> PutOf]
    /\ putCount \in 0..MaxPuts /\ starts \in 0..MaxStarts /\ toolFound \in BOOLEAN

(* Nobody saves before the process is up, but for the tools' own save.     *)
SettingsTurns ==
    /\ \A c, d \in Putters : puts[c].at = "written" /\ puts[d].at = "written" => c = d
    /\ store.at \in {"down", "refused", "starting"} => \A c \in Putters : puts[c].at = "idle"
    /\ store.at = "resolving" => \A c \in Putters \ {"tools"} : puts[c].at = "idle"

(* v differs from the base that w is loaded as in a blank language only.   *)
LoadsAs(w, v) ==
    \A f \in Fields :
       \/ v[f] = LoadedBase(w)[f]
       \/ f = "language" /\ v[f] = "" /\ LoadedBase(w)[f] = "en"

SettingsAgree ==
    /\ EnvironmentStaysOut
    /\ store.at \in Up =>
          /\ LoadsAs(file, store.base) /\ validate(store.value)
          /\ store.value \in {applyEnvironment(store.base),
                              anchorNativePaths(applyEnvironment(store.base))}

(* What a client has read, and what it is about to save, of what it did    *)
(* not change.                                                             *)
PutKeeps(k) ==
    /\ k.at = "read" /\ ~k.stale =>
          \A f \in Fields \ k.changed :
             k.v[f] = store.value[f] \/ (f \in {"secret", "password"} /\ k.v[f] = "")
    /\ k.at = "written" =>
          /\ tmpFile = k.v /\ validate(applyEnvironment(k.v)) /\ k.v["jobs"] # 0
          /\ \A f \in Managed : k.v[f] = store.base[f]
    /\ k.at = "written" /\ ~k.stale =>
          \A f \in Fields \ k.changed :
             \/ Effective(k.v)[f] = store.value[f]
             \/ f = "password" /\ (Effective(k.v)["username"] = "" \/ "username" \in k.changed \cap Managed)

SettingsInv ==
    /\ SettingsTypes /\ SettingsTurns /\ SettingsAgree
    /\ \A c \in Putters : PutKeeps(puts[c])

(* The operators of a load and of a save.                                  *)
LEMMA FieldValues ==
  /\ ValuesOf["secret"] = {"", "s"} /\ ValuesOf["username"] = {"", "u"}
  /\ ValuesOf["password"] = {"", "p"} /\ ValuesOf["path"] = {"relative", "anchored", "other"}
  /\ ValuesOf["tool"] = {"usable", "gone", "unsafe"} /\ ValuesOf["jobs"] = {0, 10, 99}
  /\ EnvValue["secret"] = "env" /\ EnvValue["username"] = "env" /\ EnvValue["password"] = "env"
  /\ EnvValue["path"] = "env" /\ EnvValue["tool"] = "env" /\ EnvValue["jobs"] = 20
  /\ ValuesOf["language"] = {"", "en", "ro"} /\ EnvValue["language"] = "env"
BY DEF ValuesOf, EnvValue

LEMMA SettingsValue ==
  ASSUME NEW v \in Settings0
  PROVE  /\ v \in [Fields -> Values] /\ v = [f \in Fields |-> v[f]] /\ DOMAIN v = Fields
         /\ \A f \in Fields : v[f] \in ValuesOf[f] \cup {EnvValue[f]}
BY DEF Settings0

LEMMA SettingsChanged ==
  ASSUME NEW v \in Settings0, NEW f \in Fields, NEW new \in ValuesOf[f] \cup {EnvValue[f]}
  PROVE  /\ [v EXCEPT ![f] = new] \in Settings0
         /\ [v EXCEPT ![f] = new][f] = new
         /\ \A g \in Fields \ {f} : [v EXCEPT ![f] = new][g] = v[g]
<1>1. v \in [Fields -> Values]
  BY DEF Settings0
<1>2. new \in Values
  BY DEF Values
<1> QED BY <1>1, <1>2 DEF Settings0

LEMMA DefaultsAre ==
  /\ Defaults \in Settings0 /\ Defaults["jobs"] = 10 /\ Defaults["tool"] = "gone"
  /\ Defaults["secret"] = "" /\ Defaults["username"] = "" /\ Defaults["password"] = ""
  /\ Defaults["path"] = "relative" /\ Defaults["language"] = "en"
<1>1. /\ Defaults["jobs"] = 10 /\ Defaults["tool"] = "gone"
      /\ Defaults["secret"] = "" /\ Defaults["username"] = "" /\ Defaults["password"] = ""
      /\ Defaults["path"] = "relative" /\ Defaults["language"] = "en"
  BY DEF Defaults
<1>2. \A f \in Fields : Defaults[f] \in ValuesOf[f] \cup {EnvValue[f]}
  <2>1. /\ Defaults["secret"] \in ValuesOf["secret"] /\ Defaults["username"] \in ValuesOf["username"]
        /\ Defaults["password"] \in ValuesOf["password"]
    BY <1>1, FieldValues
  <2>2. Defaults["path"] \in ValuesOf["path"] /\ Defaults["tool"] \in ValuesOf["tool"]
    BY <1>1, FieldValues
  <2>3. Defaults["jobs"] \in ValuesOf["jobs"] /\ Defaults["language"] \in ValuesOf["language"]
    BY <1>1, FieldValues
  <2> QED BY <2>1, <2>2, <2>3 DEF Fields
<1>3. Defaults = [f \in Fields |-> Defaults[f]]
  BY DEF Defaults, Fields
<1>4. Defaults \in [Fields -> Values]
  BY <1>2, <1>3 DEF Values
<1> QED BY <1>1, <1>2, <1>4 DEF Settings0

LEMMA ApplyIs ==
  ASSUME NEW v \in Settings0
  PROVE  /\ applyEnvironment(v) \in Settings0
         /\ \A f \in Fields : applyEnvironment(v)[f] = IF f \in Managed THEN EnvValue[f] ELSE v[f]
<1>1. \A f \in Fields : applyEnvironment(v)[f] = IF f \in Managed THEN EnvValue[f] ELSE v[f]
  BY DEF applyEnvironment
<1>2. \A f \in Fields : applyEnvironment(v)[f] \in ValuesOf[f] \cup {EnvValue[f]}
  BY <1>1, SettingsValue
<1>3. applyEnvironment(v) \in [Fields -> Values]
  BY <1>1, <1>2 DEF applyEnvironment, Values
<1> QED BY <1>1, <1>2, <1>3 DEF Settings0

LEMMA AnchorIs ==
  ASSUME NEW v \in Settings0
  PROVE  /\ anchorNativePaths(v) \in Settings0
         /\ \A f \in Fields \ {"path"} : anchorNativePaths(v)[f] = v[f]
         /\ anchorNativePaths(v)["path"] = IF "path" \notin Managed /\ v["path"] = "relative"
                                           THEN "anchored" ELSE v["path"]
<1>1. CASE "path" \notin Managed /\ v["path"] = "relative"
  <2>1. anchorNativePaths(v) = [v EXCEPT !["path"] = "anchored"]
    BY <1>1 DEF anchorNativePaths
  <2>2. "path" \in Fields /\ "anchored" \in ValuesOf["path"] \cup {EnvValue["path"]}
    BY FieldValues DEF Fields
  <2>3. /\ [v EXCEPT !["path"] = "anchored"] \in Settings0
        /\ [v EXCEPT !["path"] = "anchored"]["path"] = "anchored"
        /\ \A g \in Fields \ {"path"} : [v EXCEPT !["path"] = "anchored"][g] = v[g]
    BY <2>2, SettingsChanged
  <2> QED BY <1>1, <2>1, <2>3
<1>2. CASE ~("path" \notin Managed /\ v["path"] = "relative")
  BY <1>2 DEF anchorNativePaths
<1> QED BY <1>1, <1>2

LEMMA FilledIs ==
  ASSUME NEW v \in Settings0
  PROVE  /\ Filled(v) \in Settings0
         /\ \A f \in Fields \ {"jobs", "language"} : Filled(v)[f] = v[f]
         /\ Filled(v)["jobs"] = IF v["jobs"] = 0 THEN 10 ELSE v["jobs"]
         /\ Filled(v)["language"] = IF v["language"] = "" THEN "en" ELSE v["language"]
<1> DEFINE j == IF v["jobs"] = 0 THEN 10 ELSE v["jobs"]
           l == IF v["language"] = "" THEN "en" ELSE v["language"]
<1>1. "jobs" \in Fields /\ "language" \in Fields /\ "jobs" # "language"
  BY DEF Fields
<1>2. j \in ValuesOf["jobs"] \cup {EnvValue["jobs"]}
  BY <1>1, SettingsValue, FieldValues
<1>3. l \in ValuesOf["language"] \cup {EnvValue["language"]}
  BY <1>1, SettingsValue, FieldValues
<1>4. v \in [Fields -> Values]
  BY DEF Settings0
<1>5. Filled(v) = [[v EXCEPT !["jobs"] = j] EXCEPT !["language"] = l]
  BY <1>1, <1>4, DefaultsAre DEF Filled
<1> HIDE DEF j, l
<1>6. [v EXCEPT !["jobs"] = j] \in Settings0
  BY <1>1, <1>2, SettingsChanged
<1>7. /\ [v EXCEPT !["jobs"] = j]["jobs"] = j
      /\ \A f \in Fields \ {"jobs"} : [v EXCEPT !["jobs"] = j][f] = v[f]
  BY <1>1, <1>4
<1>8. PICK m \in Settings0 : m = [v EXCEPT !["jobs"] = j]
  BY <1>6
<1>9. /\ [m EXCEPT !["language"] = l] \in Settings0 /\ [m EXCEPT !["language"] = l]["language"] = l
      /\ \A f \in Fields \ {"language"} : [m EXCEPT !["language"] = l][f] = m[f]
  BY <1>1, <1>3, SettingsChanged
<1>10. /\ Filled(v) \in Settings0
       /\ Filled(v)["jobs"] = j /\ Filled(v)["language"] = l
       /\ \A f \in Fields \ {"jobs", "language"} : Filled(v)[f] = v[f]
  BY <1>1, <1>5, <1>7, <1>8, <1>9
<1> QED BY <1>10 DEF j, l

LEMMA ResetIs ==
  ASSUME NEW v \in Settings0
  PROVE  /\ resetUnsafeMediaTools(v) \in Settings0
         /\ \A f \in Fields \ {"tool"} : resetUnsafeMediaTools(v)[f] = v[f]
         /\ resetUnsafeMediaTools(v)["tool"] =
               IF "tool" \notin Managed /\ v["tool"] = "unsafe" THEN "gone" ELSE v["tool"]
         /\ "tool" \in Managed \/ v["tool"] # "unsafe" => resetUnsafeMediaTools(v) = v
<1>1. CASE "tool" \notin Managed /\ v["tool"] = "unsafe"
  <2>1. resetUnsafeMediaTools(v) = [v EXCEPT !["tool"] = "gone"]
    BY <1>1, DefaultsAre DEF resetUnsafeMediaTools
  <2>2. "tool" \in Fields /\ "gone" \in ValuesOf["tool"] \cup {EnvValue["tool"]}
    BY FieldValues DEF Fields
  <2>3. /\ [v EXCEPT !["tool"] = "gone"] \in Settings0
        /\ [v EXCEPT !["tool"] = "gone"]["tool"] = "gone"
        /\ \A g \in Fields \ {"tool"} : [v EXCEPT !["tool"] = "gone"][g] = v[g]
    BY <2>2, SettingsChanged
  <2> QED BY <1>1, <2>1, <2>3
<1>2. CASE ~("tool" \notin Managed /\ v["tool"] = "unsafe")
  BY <1>2 DEF resetUnsafeMediaTools
<1> QED BY <1>1, <1>2

LEMMA LoadedBaseIs ==
  ASSUME NEW v \in Settings0
  PROVE  /\ LoadedBase(v) \in Settings0 /\ LoadedBase(v)["jobs"] # 0
         /\ \A f \in Managed : v[f] # EnvValue[f] => LoadedBase(v)[f] # EnvValue[f]
         /\ v["jobs"] # 0 /\ ("tool" \in Managed \/ v["tool"] # "unsafe") => LoadsAs(v, v)
<1>1. Filled(v) \in Settings0
  BY FilledIs
<1>2. PICK w \in Settings0 : w = Filled(v) /\ LoadedBase(v) = resetUnsafeMediaTools(w)
  BY <1>1 DEF LoadedBase
<1>3. /\ \A f \in Fields \ {"jobs", "language"} : w[f] = v[f]
      /\ w["jobs"] = IF v["jobs"] = 0 THEN 10 ELSE v["jobs"]
      /\ w["language"] = IF v["language"] = "" THEN "en" ELSE v["language"]
  BY <1>2, FilledIs
<1>4. /\ \A f \in Fields \ {"tool"} : LoadedBase(v)[f] = w[f]
      /\ LoadedBase(v)["tool"] =
            IF "tool" \notin Managed /\ w["tool"] = "unsafe" THEN "gone" ELSE w["tool"]
  BY <1>2, ResetIs
<1>5. LoadedBase(v) \in Settings0
  BY <1>2, ResetIs
<1>6. {"jobs", "tool", "language"} \subseteq Fields
  BY DEF Fields
<1>7. LoadedBase(v)["jobs"] = IF v["jobs"] = 0 THEN 10 ELSE v["jobs"]
  BY <1>3, <1>4, <1>6
<1>8. LoadedBase(v)["language"] = IF v["language"] = "" THEN "en" ELSE v["language"]
  BY <1>3, <1>4, <1>6
<1>9. LoadedBase(v)["tool"] =
         IF "tool" \notin Managed /\ v["tool"] = "unsafe" THEN "gone" ELSE v["tool"]
  BY <1>3, <1>4, <1>6
<1>10. \A f \in Fields \ {"jobs", "tool", "language"} : LoadedBase(v)[f] = v[f]
  BY <1>3, <1>4
<1>11. \A f \in Managed : v[f] # EnvValue[f] => LoadedBase(v)[f] # EnvValue[f]
  <2>1. ASSUME NEW f \in Managed, v[f] # EnvValue[f] PROVE LoadedBase(v)[f] # EnvValue[f]
    <3>1. f \in Fields
      BY SettingsAssumption
    <3>2. CASE f = "jobs"
      <4>1. EnvValue["jobs"] = 20
        BY FieldValues
      <4>2. v["jobs"] # 20
        BY <2>1, <3>2, <4>1
      <4>3. LoadedBase(v)["jobs"] # 20
        BY <1>7, <4>2
      <4> QED BY <3>2, <4>1, <4>3
    <3>3. CASE f = "tool"
      <4>1. EnvValue["tool"] # "gone"
        BY FieldValues
      <4> QED BY <1>9, <2>1, <3>3, <4>1
    <3>4. CASE f = "language"
      <4>1. EnvValue["language"] # "en"
        BY FieldValues
      <4> QED BY <1>8, <2>1, <3>4, <4>1
    <3>5. CASE f \notin {"jobs", "tool", "language"}
      BY <1>10, <2>1, <3>1, <3>5
    <3> QED BY <3>2, <3>3, <3>4, <3>5
  <2> QED BY <2>1
<1>12. ASSUME v["jobs"] # 0, "tool" \in Managed \/ v["tool"] # "unsafe" PROVE LoadsAs(v, v)
  <2>1. LoadedBase(v)["jobs"] = v["jobs"] /\ LoadedBase(v)["tool"] = v["tool"]
    BY <1>7, <1>9, <1>12
  <2> QED BY <1>8, <1>10, <2>1 DEF LoadsAs
<1>13. LoadedBase(v)["jobs"] # 0
  BY <1>7
<1> QED BY <1>5, <1>11, <1>12, <1>13

LEMMA MergeIs ==
  ASSUME NEW next \in Settings0, NEW old \in Settings0
  PROVE  /\ mergeSecrets(next, old) \in Settings0
         /\ \A f \in Fields \ {"secret", "password"} : mergeSecrets(next, old)[f] = next[f]
         /\ mergeSecrets(next, old)["secret"] =
               IF next["secret"] = "" THEN old["secret"] ELSE next["secret"]
         /\ mergeSecrets(next, old)["password"] =
               IF next["password"] = "" /\ next["username"] # "" THEN old["password"]
               ELSE next["password"]
<1> DEFINE s == IF next["secret"] = "" THEN old["secret"] ELSE next["secret"]
           p == IF next["password"] = "" /\ next["username"] # "" THEN old["password"]
                ELSE next["password"]
<1>1. "secret" \in Fields /\ "password" \in Fields /\ "secret" # "password"
  BY DEF Fields
<1>2. s \in ValuesOf["secret"] \cup {EnvValue["secret"]}
  BY <1>1, SettingsValue
<1>3. p \in ValuesOf["password"] \cup {EnvValue["password"]}
  BY <1>1, SettingsValue
<1>4. next \in [Fields -> Values]
  BY DEF Settings0
<1>5. mergeSecrets(next, old) = [[next EXCEPT !["secret"] = s] EXCEPT !["password"] = p]
  BY <1>1, <1>4 DEF mergeSecrets
<1> HIDE DEF s, p
<1>6. [next EXCEPT !["secret"] = s] \in Settings0
  BY <1>1, <1>2, SettingsChanged
<1>8. /\ [next EXCEPT !["secret"] = s]["secret"] = s
      /\ \A f \in Fields \ {"secret"} : [next EXCEPT !["secret"] = s][f] = next[f]
  BY <1>1, <1>4
<1>9. PICK m \in Settings0 : m = [next EXCEPT !["secret"] = s]
  BY <1>6
<1>10. /\ [m EXCEPT !["password"] = p] \in Settings0 /\ [m EXCEPT !["password"] = p]["password"] = p
       /\ \A f \in Fields \ {"password"} : [m EXCEPT !["password"] = p][f] = m[f]
  BY <1>1, <1>3, SettingsChanged
<1>7. /\ mergeSecrets(next, old) \in Settings0
      /\ mergeSecrets(next, old)["secret"] = s /\ mergeSecrets(next, old)["password"] = p
      /\ \A f \in Fields \ {"secret", "password"} : mergeSecrets(next, old)[f] = next[f]
  BY <1>1, <1>5, <1>8, <1>9, <1>10
<1> QED BY <1>7 DEF s, p

LEMMA RestoreIs ==
  ASSUME SettingsTypes, NEW v \in Settings0
  PROVE  /\ restoreManagedFields(v) \in Settings0
         /\ \A f \in Managed : restoreManagedFields(v)[f] = store.base[f]
         /\ \A f \in Fields \ Managed : restoreManagedFields(v)[f] = v[f]
<1>1. store.base \in Settings0
  BY DEF SettingsTypes
<1>2. \A f \in Fields : restoreManagedFields(v)[f] = IF f \in Managed THEN store.base[f] ELSE v[f]
  BY DEF restoreManagedFields
<1>3. \A f \in Fields : restoreManagedFields(v)[f] \in ValuesOf[f] \cup {EnvValue[f]}
  BY <1>1, <1>2, SettingsValue
<1>4. restoreManagedFields(v) \in [Fields -> Values]
  BY <1>3 DEF restoreManagedFields, Values
<1> QED BY <1>2, <1>3, <1>4, SettingsAssumption DEF Settings0

(* What a load accepts does not depend on where a path is anchored.        *)
LEMMA ValidateIs ==
  ASSUME NEW v \in Settings0, NEW w \in Settings0, v["tool"] = w["tool"], v["jobs"] = w["jobs"]
  PROVE  validate(v) <=> validate(w)
BY DEF validate

LEMMA LoadOK ==
  ASSUME SettingsInv, Load
  PROVE  SettingsInv'
<1>1. /\ store.at = "down" /\ starts < MaxStarts /\ starts' = starts + 1
      /\ UNCHANGED <<file, tmpFile, puts, putCount, toolFound>>
  BY DEF Load
<1>2. SettingsTypes /\ SettingsTurns /\ EnvironmentStaysOut /\ \A c \in Putters : puts[c].at = "idle"
  BY <1>1 DEF SettingsInv, SettingsTurns, SettingsAgree
<1>3. file \in Settings0 /\ LoadedBase(file) \in Settings0
  BY <1>2, LoadedBaseIs DEF SettingsTypes
<1>4. applyEnvironment(LoadedBase(file)) \in Settings0 /\ LoadedValue(file) \in Settings0
  BY <1>3, ApplyIs, AnchorIs DEF LoadedValue
<1>5. starts' \in 0..MaxStarts
  BY <1>1, <1>2, SettingsAssumption DEF SettingsTypes
<1>6. CASE validate(LoadedValue(file))
  <2>1. store' = [at |-> "starting", base |-> LoadedBase(file), value |-> LoadedValue(file)]
    BY <1>6 DEF Load
  <2>2. SettingsTypes'
    BY <1>1, <1>2, <1>3, <1>4, <1>5, <2>1 DEF SettingsTypes, Up
  <2>3. SettingsTurns'
    BY <1>1, <1>2, <2>1 DEF SettingsTurns
  <2>4. LoadsAs(file, LoadedBase(file))
    BY DEF LoadsAs
  <2>5. SettingsAgree'
    BY <1>1, <1>2, <1>6, <2>1, <2>4 DEF SettingsAgree, LoadsAs, LoadedValue, EnvironmentStaysOut
  <2>6. \A c \in Putters : PutKeeps(puts[c])'
    BY <1>1, <1>2 DEF PutKeeps
  <2> QED BY <2>2, <2>3, <2>5, <2>6 DEF SettingsInv
<1>7. CASE ~validate(LoadedValue(file))
  <2>1. store' = [store EXCEPT !.at = "refused"]
    BY <1>7 DEF Load
  <2>2. SettingsTypes' /\ store'.at = "refused"
    BY <1>1, <1>2, <1>5, <2>1 DEF SettingsTypes
  <2>3. SettingsTurns' /\ SettingsAgree'
    BY <1>1, <1>2, <2>2 DEF SettingsTurns, SettingsAgree, EnvironmentStaysOut, Up
  <2>4. \A c \in Putters : PutKeeps(puts[c])'
    BY <1>1, <1>2 DEF PutKeeps
  <2> QED BY <2>2, <2>3, <2>4 DEF SettingsInv
<1> QED BY <1>6, <1>7

(* A step that leaves file, base and value alone, and gives one caller a   *)
(* request that keeps what it did not change.                              *)
LEMMA RequestOK ==
  ASSUME SettingsInv, NEW c \in Putters, NEW k \in PutOf,
         puts' = [puts EXCEPT ![c] = k], k.at # "written", PutKeeps(k), store.at \in Up,
         store.at # "starting", k.at = "idle" \/ c = "tools" \/ store.at = "up",
         UNCHANGED <<file, tmpFile, store, starts, toolFound>>, putCount' \in 0..MaxPuts
  PROVE  SettingsInv'
<1>1. SettingsTypes /\ SettingsTurns /\ SettingsAgree
  BY DEF SettingsInv
<1>2. /\ puts' \in [Putters -> PutOf] /\ puts'[c] = k
      /\ \A d \in Putters \ {c} : puts'[d] = puts[d]
  BY <1>1 DEF SettingsTypes
<1>3. SettingsTypes' /\ SettingsAgree'
  BY <1>1, <1>2 DEF SettingsTypes, SettingsAgree, EnvironmentStaysOut
<1>4. SettingsTurns'
  BY <1>1, <1>2 DEF SettingsTurns, Up
<1>5. ASSUME NEW d \in Putters PROVE PutKeeps(puts[d])'
  <2>1. PutKeeps(puts'[d])
    BY <1>2 DEF SettingsInv
  <2>2. store' = store /\ tmpFile' = tmpFile
    OBVIOUS
  <2> QED BY <2>1, <2>2 DEF PutKeeps, Effective
<1> QED BY <1>3, <1>4, <1>5 DEF SettingsInv

LEMMA NoPutIs == NoPut \in PutOf /\ NoPut.at = "idle"
BY DefaultsAre DEF NoPut, PutOf

LEMMA ReadIs ==
  ASSUME NEW v \in Settings0, NEW changed \in SUBSET Fields
  PROVE  [at |-> "read", v |-> v, changed |-> changed, stale |-> FALSE] \in PutOf
BY DEF PutOf

LEMMA PutReadsOK ==
  ASSUME SettingsInv, NEW c \in SettingsClients, NEW f \in Fields, NEW new \in ValuesOf[f],
         PutReads(c, f, new) \/ PutReadsAll(c, f, new)
  PROVE  SettingsInv'
<1>1. /\ store.at = "up" /\ putCount < MaxPuts /\ putCount' = putCount + 1 /\ c \in Putters
      /\ UNCHANGED <<file, tmpFile, store, starts, toolFound>>
  BY DEF PutReads, PutReadsAll, Putters
<1>2. store.value \in Settings0 /\ putCount' \in 0..MaxPuts
  BY <1>1, SettingsAssumption DEF SettingsInv, SettingsTypes
<1>3. "secret" \in Fields /\ "password" \in Fields /\ "" \in ValuesOf["secret"] /\ "" \in ValuesOf["password"]
  BY FieldValues DEF Fields
<1>4. PICK v \in Settings0 :
         /\ puts' = [puts EXCEPT ![c] = [at |-> "read", v |-> v, changed |-> {f}, stale |-> FALSE]]
         /\ \A g \in Fields \ {f} :
               v[g] = store.value[g] \/ (g \in {"secret", "password"} /\ v[g] = "")
  <2>1. CASE PutReads(c, f, new)
    <3>1. /\ [store.value EXCEPT ![f] = new] \in Settings0
          /\ \A g \in Fields \ {f} : [store.value EXCEPT ![f] = new][g] = store.value[g]
      BY <1>2, SettingsChanged
    <3> QED BY <2>1, <3>1 DEF PutReads
  <2>2. CASE PutReadsAll(c, f, new)
    <3>1. PICK u \in Settings0 : u = [store.value EXCEPT !["secret"] = ""]
      BY <1>2, <1>3, SettingsChanged
    <3>2. PICK w \in Settings0 : w = [u EXCEPT !["password"] = ""]
      BY <1>3, SettingsChanged
    <3>3. w = [store.value EXCEPT !.secret = "", !.password = ""]
      BY <3>1, <3>2
    <3>4. PICK x \in Settings0 : x = [w EXCEPT ![f] = new]
      BY SettingsChanged
    <3>5. \A g \in Fields \ {f} : x[g] = w[g]
      BY <3>4 DEF Settings0
    <3>6. \A g \in Fields \ {"password"} : w[g] = u[g]
      BY <3>2 DEF Settings0
    <3>7. \A g \in Fields \ {"secret"} : u[g] = store.value[g]
      BY <1>2, <3>1 DEF Settings0
    <3>8. u["secret"] = "" /\ w["password"] = ""
      BY <1>2, <1>3, <3>1, <3>2 DEF Settings0
    <3>9. \A g \in Fields \ {f} : x[g] = store.value[g] \/ (g \in {"secret", "password"} /\ x[g] = "")
      BY <3>5, <3>6, <3>7, <3>8
    <3>10. puts' = [puts EXCEPT ![c] = [at |-> "read", v |-> x, changed |-> {f}, stale |-> FALSE]]
      BY <2>2, <3>3, <3>4 DEF PutReadsAll
    <3> QED BY <3>9, <3>10
  <2> QED BY <2>1, <2>2
<1> DEFINE k == [at |-> "read", v |-> v, changed |-> {f}, stale |-> FALSE]
<1>5. k \in PutOf /\ k.at = "read"
  BY ReadIs
<1>6. PutKeeps(k)
  BY <1>4 DEF PutKeeps
<1>7. puts' = [puts EXCEPT ![c] = k]
  BY <1>4
<1> HIDE DEF k
<1> QED BY <1>1, <1>2, <1>5, <1>6, <1>7, RequestOK DEF Up

LEMMA EnsureOK ==
  ASSUME SettingsInv, NEW c \in Putters, EnsureNativePathsWritable(c)
  PROVE  SettingsInv'
<1>1. /\ puts[c].at = "read" /\ puts' = [puts EXCEPT ![c] = NoPut]
      /\ UNCHANGED <<file, tmpFile, store, putCount, starts, toolFound>>
  BY DEF EnsureNativePathsWritable
<1>2. store.at \in Up /\ store.at # "starting" /\ putCount \in 0..MaxPuts
  BY <1>1 DEF SettingsInv, SettingsTurns, SettingsTypes, Up
<1> QED BY <1>1, <1>2, NoPutIs, RequestOK DEF PutKeeps

LEMMA ResolveMediaToolsOK ==
  ASSUME SettingsInv, ResolveMediaTools
  PROVE  SettingsInv'
<1>1. /\ store.at = "starting" /\ store' = [store EXCEPT !.at = "resolving"]
      /\ UNCHANGED <<file, tmpFile, putCount, starts, toolFound>>
  BY DEF ResolveMediaTools
<1>2. SettingsTypes /\ SettingsAgree /\ "tools" \in Putters /\ \A c \in Putters : puts[c].at = "idle"
  BY <1>1 DEF SettingsInv, SettingsTurns, Putters
<1>3. store' \in [at: Up \cup {"down", "refused"}, base: Settings0, value: Settings0]
      /\ store'.at = "resolving" /\ store'.base = store.base /\ store'.value = store.value
  BY <1>1, <1>2 DEF SettingsTypes, Up
<1>4. SettingsAgree'
  BY <1>1, <1>2, <1>3 DEF SettingsAgree, EnvironmentStaysOut, Up
<1>5. CASE puts' = puts
  BY <1>1, <1>2, <1>3, <1>4, <1>5 DEF SettingsInv, SettingsTypes, SettingsTurns, PutKeeps
<1>6. CASE puts' = [puts EXCEPT !["tools"] =
              [at |-> "read", v |-> [store.value EXCEPT !.tool = "usable"],
               changed |-> {"tool"}, stale |-> FALSE]]
  <2>1. store.value \in Settings0 /\ "tool" \in Fields /\ "usable" \in ValuesOf["tool"]
    BY <1>2, FieldValues DEF SettingsTypes, Fields
  <2>2. PICK v \in Settings0 : v = [store.value EXCEPT !["tool"] = "usable"]
    BY <2>1, SettingsChanged
  <2>3. \A g \in Fields \ {"tool"} : v[g] = store.value[g]
    BY <2>1, <2>2 DEF Settings0
  <2> DEFINE k == [at |-> "read", v |-> v, changed |-> {"tool"}, stale |-> FALSE]
  <2>4. k \in PutOf /\ k.at = "read" /\ k.v = v /\ k.changed = {"tool"}
    BY <2>1, ReadIs
  <2>5. puts' = [puts EXCEPT !["tools"] = k]
    BY <1>6, <2>2
  <2> HIDE DEF k
  <2>6. /\ puts' \in [Putters -> PutOf] /\ puts'["tools"] = k
        /\ \A c \in Putters \ {"tools"} : puts'[c] = puts[c]
    BY <1>2, <2>4, <2>5 DEF SettingsTypes
  <2>7. SettingsTypes'
    BY <1>1, <1>2, <1>3, <2>6 DEF SettingsTypes
  <2>8. SettingsTurns'
    BY <1>2, <1>3, <2>4, <2>6 DEF SettingsTurns
  <2>9. ASSUME NEW c \in Putters PROVE PutKeeps(puts[c])'
    BY <1>2, <1>3, <2>3, <2>4, <2>6 DEF PutKeeps
  <2> QED BY <1>4, <2>7, <2>8, <2>9 DEF SettingsInv
<1> QED BY <1>5, <1>6 DEF ResolveMediaTools

LEMMA ListensOK ==
  ASSUME SettingsInv, Listens
  PROVE  SettingsInv'
<1>1. /\ store.at = "resolving" /\ store' = [store EXCEPT !.at = "up"]
      /\ UNCHANGED <<file, tmpFile, puts, putCount, starts, toolFound>>
  BY DEF Listens
<1>2. store' \in [at: Up \cup {"down", "refused"}, base: Settings0, value: Settings0]
      /\ store'.at = "up" /\ store'.base = store.base /\ store'.value = store.value
  BY <1>1 DEF SettingsInv, SettingsTypes, Up
<1>3. SettingsTypes' /\ SettingsTurns' /\ SettingsAgree'
  BY <1>1, <1>2 DEF SettingsInv, SettingsTypes, SettingsTurns, SettingsAgree, EnvironmentStaysOut, Up
<1>4. \A c \in Putters : PutKeeps(puts[c])'
  BY <1>1, <1>2 DEF SettingsInv, PutKeeps, Effective
<1> QED BY <1>3, <1>4 DEF SettingsInv

LEMMA StopOK ==
  ASSUME SettingsInv, Stop
  PROVE  SettingsInv'
<1>1. /\ store' = [store EXCEPT !.at = "down"] /\ puts' = [c \in DOMAIN puts |-> NoPut]
      /\ UNCHANGED <<file, tmpFile, putCount, starts, toolFound>>
  BY DEF Stop
<1>2. store' \in [at: Up \cup {"down", "refused"}, base: Settings0, value: Settings0] /\ store'.at = "down"
  BY <1>1 DEF SettingsInv, SettingsTypes
<1>3. puts' \in [Putters -> PutOf] /\ \A c \in Putters : puts'[c].at = "idle"
  BY <1>1, NoPutIs DEF SettingsInv, SettingsTypes
<1>4. SettingsTypes' /\ SettingsTurns' /\ SettingsAgree'
  BY <1>1, <1>2, <1>3 DEF SettingsInv, SettingsTypes, SettingsTurns, SettingsAgree, EnvironmentStaysOut, Up
<1> QED BY <1>3, <1>4 DEF SettingsInv, PutKeeps

LEMMA SaveFailsOK ==
  ASSUME SettingsInv, NEW c \in Putters, SaveFails(c)
  PROVE  SettingsInv'
<1>1. /\ puts[c].at = "written" /\ puts' = [puts EXCEPT ![c] = NoPut]
      /\ UNCHANGED <<file, tmpFile, store, putCount, starts, toolFound>>
  BY DEF SaveFails
<1>2. store.at \in Up /\ store.at # "starting" /\ putCount \in 0..MaxPuts
  BY <1>1 DEF SettingsInv, SettingsTurns, SettingsTypes, Up
<1> QED BY <1>1, <1>2, NoPutIs, RequestOK DEF PutKeeps

(* What a save is about to make of the fields that its client left alone.  *)
LEMMA PersistedKeeps ==
  ASSUME SettingsInv, NEW c \in Putters, puts[c].at = "read", ~puts[c].stale, store.at \in Up,
         NEW f \in Fields \ puts[c].changed
  PROVE  LET v == Persisted(puts[c].v) IN
         \/ Effective(v)[f] = store.value[f]
         \/ f = "password" /\ (Effective(v)["username"] = ""
                               \/ "username" \in puts[c].changed \cap Managed)
<1> DEFINE old == store.value
           next == puts[c].v
           m == mergeSecrets(next, old)
           v == Persisted(next)
<1>1. /\ SettingsTypes /\ SettingsAgree /\ puts[c] \in PutOf
      /\ old \in Settings0 /\ next \in Settings0 /\ store.base \in Settings0
      /\ \A g \in Fields \ puts[c].changed :
            next[g] = old[g] \/ (g \in {"secret", "password"} /\ next[g] = "")
  BY DEF SettingsInv, SettingsTypes, PutOf, PutKeeps
<1> HIDE DEF old, next
<1>2. /\ m \in Settings0
      /\ \A g \in Fields \ {"secret", "password"} : m[g] = next[g]
      /\ m["secret"] = IF next["secret"] = "" THEN old["secret"] ELSE next["secret"]
      /\ m["password"] = IF next["password"] = "" /\ next["username"] # "" THEN old["password"]
                         ELSE next["password"]
  BY <1>1, MergeIs
<1>3. v \in Settings0 /\ \A g \in Fields \ Managed : v[g] = m[g]
  BY <1>1, <1>2, RestoreIs DEF Persisted, old
<1>4. \A g \in Fields : Effective(v)[g] = IF g \in Managed THEN EnvValue[g] ELSE m[g]
  BY <1>3, ApplyIs DEF Effective
<1>5. \A g \in Managed : old[g] = EnvValue[g]
  <2>1. applyEnvironment(store.base) \in Settings0
        /\ \A g \in Managed : applyEnvironment(store.base)[g] = EnvValue[g]
    BY <1>1, ApplyIs, SettingsAssumption
  <2>2. \A g \in Managed : anchorNativePaths(applyEnvironment(store.base))[g] = EnvValue[g]
    <3>1. \A g \in Fields \ {"path"} : anchorNativePaths(applyEnvironment(store.base))[g] =
                                      applyEnvironment(store.base)[g]
      BY <2>1, AnchorIs
    <3>2. "path" \in Managed => anchorNativePaths(applyEnvironment(store.base)) = applyEnvironment(store.base)
      BY DEF anchorNativePaths
    <3> QED BY <2>1, <3>1, <3>2, SettingsAssumption
  <2> QED BY <1>1, <2>1, <2>2 DEF SettingsAgree, old
<1>6. {"secret", "username", "password"} \subseteq Fields
  BY DEF Fields
<1> HIDE DEF m, v
<1>7. CASE f \in Managed
  BY <1>4, <1>5, <1>7 DEF v, old, next
<1>8. CASE f \notin Managed /\ f \notin {"secret", "password"}
  BY <1>1, <1>2, <1>4, <1>8 DEF v, old, next
<1>9. CASE f \notin Managed /\ f = "secret"
  BY <1>1, <1>2, <1>4, <1>6, <1>9 DEF v, old, next
<1>10. CASE f \notin Managed /\ f = "password"
  <2>1. CASE next["password"] # ""
    BY <1>1, <1>2, <1>4, <1>6, <1>10, <2>1 DEF v, old, next
  <2>2. CASE next["password"] = "" /\ next["username"] # ""
    BY <1>1, <1>2, <1>4, <1>6, <1>10, <2>2 DEF v, old, next
  <2>3. CASE next["username"] = "" /\ "username" \notin Managed
    <3>1. Effective(v)["username"] = ""
      BY <1>2, <1>4, <1>6, <2>3
    <3> QED BY <1>10, <3>1 DEF v, next
  <2>4. CASE next["username"] = "" /\ "username" \in Managed
    <3>1. old["username"] = "env"
      BY <1>5, <2>4, FieldValues
    <3>2. "username" \in puts[c].changed
      BY <1>1, <1>6, <2>4, <3>1
    <3> QED BY <1>10, <2>4, <3>2
  <2> QED BY <2>1, <2>2, <2>3, <2>4
<1> QED BY <1>7, <1>8, <1>9, <1>10

LEMMA SaveWritesOK ==
  ASSUME SettingsInv, NEW c \in Putters, SaveWrites(c)
  PROVE  SettingsInv'
<1> DEFINE v == Persisted(puts[c].v)
<1>1. /\ puts[c].at = "read" /\ ~Busy
      /\ UNCHANGED <<file, store, putCount, starts, toolFound>>
  BY DEF SaveWrites
<1>2. /\ SettingsTypes /\ SettingsTurns /\ SettingsAgree /\ puts[c] \in PutOf
      /\ puts[c].v \in Settings0 /\ store.value \in Settings0 /\ store.base \in Settings0
      /\ store.at \in Up /\ store.at # "starting" /\ (c = "tools" \/ store.at = "up")
  BY <1>1 DEF SettingsInv, SettingsTypes, SettingsTurns, PutOf, Up
<1>3. mergeSecrets(puts[c].v, store.value) \in Settings0
  BY <1>2, MergeIs
<1>4. v \in Settings0 /\ \A f \in Managed : v[f] = store.base[f]
  BY <1>2, <1>3, RestoreIs DEF Persisted
<1>5. CASE validate(Effective(v)) /\ ~ProbeFails(c, Effective(v))
  <2>1. tmpFile' = v /\ puts' = [puts EXCEPT ![c].at = "written", ![c].v = v]
    BY <1>5 DEF SaveWrites
  <2>2. /\ puts' \in [Putters -> PutOf] /\ puts'[c].at = "written" /\ puts'[c].v = v
        /\ puts'[c].changed = puts[c].changed /\ puts'[c].stale = puts[c].stale
        /\ \A d \in Putters \ {c} : puts'[d] = puts[d] /\ puts[d].at # "written"
    <3>1. puts' = [puts EXCEPT ![c] = [puts[c] EXCEPT !.at = "written", !.v = v]]
      BY <1>2, <2>1 DEF SettingsTypes
    <3> HIDE DEF v
    <3>2. [puts[c] EXCEPT !.at = "written", !.v = v] \in PutOf
      BY <1>2, <1>4 DEF PutOf
    <3> QED BY <1>1, <1>2, <3>1, <3>2 DEF SettingsTypes, Busy, Putters, PutOf
  <2>3. SettingsTypes' /\ SettingsTurns' /\ SettingsAgree'
    BY <1>1, <1>2, <1>4, <2>1, <2>2 DEF SettingsTypes, SettingsTurns, SettingsAgree, EnvironmentStaysOut
  <2>4. v["jobs"] # 0
    <3>1. CASE "jobs" \in Managed
      <4>1. v["jobs"] = store.base["jobs"] /\ LoadsAs(file, store.base) /\ file \in Settings0
        BY <1>2, <1>4, <3>1 DEF SettingsAgree, SettingsTypes
      <4>2. store.base["jobs"] = LoadedBase(file)["jobs"]
        BY <4>1 DEF LoadsAs, Fields
      <4> QED BY <4>1, <4>2, LoadedBaseIs
    <3>2. CASE "jobs" \notin Managed
      <4>1. "jobs" \in Fields /\ Effective(v)["jobs"] = v["jobs"]
        BY <1>4, <3>2, ApplyIs DEF Effective, Fields
      <4>2. Effective(v)["jobs"] \in 1..20
        BY <1>5 DEF validate
      <4> QED BY <4>1, <4>2
    <3> QED BY <3>1, <3>2
  <2>5. PutKeeps(puts[c])'
    <3>1. validate(applyEnvironment(v))
      BY <1>5 DEF Effective
    <3>2. ~puts[c].stale =>
             \A f \in Fields \ puts[c].changed :
                \/ Effective(v)[f] = store.value[f]
                \/ f = "password" /\ (Effective(v)["username"] = "" \/ "username" \in puts[c].changed \cap Managed)
      BY <1>1, <1>2, PersistedKeeps
    <3> HIDE DEF v
    <3>3. puts'[c].at # "read"
      BY <2>2
    <3> QED BY <1>1, <1>4, <2>1, <2>2, <2>4, <3>1, <3>2, <3>3 DEF PutKeeps, Effective
  <2>6. ASSUME NEW d \in Putters, d # c PROVE PutKeeps(puts[d])'
    <3>1. PutKeeps(puts[d]) /\ puts'[d] = puts[d] /\ puts[d].at # "written"
      BY <2>2, <2>6 DEF SettingsInv
    <3> QED BY <1>1, <3>1 DEF PutKeeps
  <2> QED BY <2>3, <2>5, <2>6 DEF SettingsInv
<1>6. CASE ~(validate(Effective(v)) /\ ~ProbeFails(c, Effective(v)))
  <2>1. puts' = [puts EXCEPT ![c] = NoPut] /\ UNCHANGED tmpFile
    BY <1>6 DEF SaveWrites
  <2>2. putCount' \in 0..MaxPuts /\ PutKeeps(NoPut)
    BY <1>1, <1>2, NoPutIs DEF SettingsTypes, PutKeeps
  <2> HIDE DEF v
  <2> QED BY <1>1, <1>2, <2>1, <2>2, NoPutIs, RequestOK
<1> QED BY <1>5, <1>6

LEMMA SaveRenamesOK ==
  ASSUME SettingsInv, NEW c \in Putters, SaveRenames(c)
  PROVE  SettingsInv'
<1> DEFINE v == puts[c].v
<1>1. /\ puts[c].at = "written" /\ file' = tmpFile
      /\ store' = [store EXCEPT !.base = v, !.value = Effective(v)]
      /\ puts' = [d \in DOMAIN puts |->
                    IF d = c THEN NoPut
                    ELSE IF puts[d].at = "read" THEN [puts[d] EXCEPT !.stale = TRUE]
                    ELSE puts[d]]
      /\ UNCHANGED <<tmpFile, putCount, starts, toolFound>>
  BY DEF SaveRenames
<1>2. /\ SettingsTypes /\ SettingsTurns /\ SettingsAgree /\ v \in Settings0
      /\ store.at \in Up /\ store.at # "starting"
      /\ tmpFile = v /\ validate(applyEnvironment(v)) /\ v["jobs"] # 0
      /\ \A f \in Managed : v[f] = store.base[f]
      /\ \A d \in Putters \ {c} : puts[d].at # "written"
  BY <1>1 DEF SettingsInv, SettingsTypes, SettingsTurns, PutOf, PutKeeps, Up
<1>3. Effective(v) \in Settings0 /\ Effective(v) = applyEnvironment(v)
  BY <1>2, ApplyIs DEF Effective
<1> HIDE DEF v
<1>4. /\ store' \in [at: Up \cup {"down", "refused"}, base: Settings0, value: Settings0]
      /\ store'.at = store.at /\ store'.base = v /\ store'.value = Effective(v)
  BY <1>1, <1>2, <1>3 DEF SettingsTypes
<1>5. ASSUME NEW d \in Putters
      PROVE  /\ puts'[d] \in PutOf /\ puts'[d].at # "written"
             /\ puts'[d].at = "idle" \/ (puts'[d].at = "read" /\ puts'[d].stale /\ puts[d].at = "read")
  <2>1. puts[d] \in PutOf
    BY <1>2 DEF SettingsTypes
  <2>2. puts'[d] = IF d = c THEN NoPut
                   ELSE IF puts[d].at = "read" THEN [puts[d] EXCEPT !.stale = TRUE] ELSE puts[d]
    BY <1>1, <1>2 DEF SettingsTypes
  <2>3. CASE d = c
    BY <2>2, <2>3, NoPutIs
  <2>4. CASE d # c /\ puts[d].at = "read"
    <3>1. puts'[d] = [puts[d] EXCEPT !.stale = TRUE]
      BY <2>2, <2>4
    <3>2. [puts[d] EXCEPT !.stale = TRUE] \in PutOf /\ [puts[d] EXCEPT !.stale = TRUE].at = puts[d].at
          /\ [puts[d] EXCEPT !.stale = TRUE].stale = TRUE
      BY <2>1 DEF PutOf
    <3> QED BY <2>4, <3>1, <3>2
  <2>5. CASE d # c /\ puts[d].at # "read"
    BY <1>2, <2>1, <2>2, <2>5 DEF PutOf
  <2> QED BY <2>3, <2>4, <2>5
<1>6. puts' \in [Putters -> PutOf]
  <2>1. puts' = [d \in Putters |-> puts'[d]]
    BY <1>1, <1>2 DEF SettingsTypes
  <2> QED BY <1>5, <2>1
<1>7. SettingsTypes'
  BY <1>1, <1>2, <1>4, <1>6 DEF SettingsTypes
<1>8. SettingsTurns'
  BY <1>2, <1>4, <1>5 DEF SettingsTurns, Up
<1>9. SettingsAgree'
  <2>1. LoadsAs(v, v)
    <3>1. "tool" \notin Managed => v["tool"] # "unsafe"
      <4>1. "tool" \in Fields
        BY DEF Fields
      <4> QED BY <1>2, <4>1, ApplyIs DEF validate
    <3> QED BY <1>2, <3>1, LoadedBaseIs
  <2>2. \A f \in Managed : v[f] # EnvValue[f]
    <3>1. /\ file \in Settings0 /\ LoadsAs(file, store.base)
          /\ \A f \in Managed : file[f] # EnvValue[f]
      BY <1>2 DEF SettingsTypes, SettingsAgree, EnvironmentStaysOut
    <3>2. \A f \in Managed : LoadedBase(file)[f] # EnvValue[f]
      BY <3>1, LoadedBaseIs
    <3>3. EnvValue["language"] # ""
      BY FieldValues
    <3>4. \A f \in Managed : store.base[f] # EnvValue[f]
      BY <3>1, <3>2, <3>3, SettingsAssumption DEF LoadsAs
    <3> QED BY <1>2, <3>4
  <2>3. LoadsAs(file, store.base)'
    BY <1>1, <1>2, <1>4, <2>1 DEF LoadsAs
  <2> QED BY <1>1, <1>2, <1>3, <1>4, <2>2, <2>3 DEF SettingsAgree, EnvironmentStaysOut
<1>10. \A d \in Putters : PutKeeps(puts[d])'
  BY <1>5 DEF PutKeeps
<1> QED BY <1>7, <1>8, <1>9, <1>10 DEF SettingsInv

LEMMA SettingsInitOK ==
  ASSUME SettingsInit
  PROVE  SettingsInv
<1>1. /\ Defaults \in Settings0 /\ Defaults["jobs"] = 10 /\ Defaults["tool"] = "gone"
      /\ \A f \in Fields : Defaults[f] # EnvValue[f]
  <2>1. \A f \in Fields \ {"jobs"} : EnvValue[f] = "env" /\ Defaults[f] # "env"
    BY DefaultsAre, FieldValues DEF Fields
  <2>2. EnvValue["jobs"] = 20 /\ Defaults["jobs"] = 10
    BY DefaultsAre, FieldValues
  <2>3. Defaults["jobs"] # EnvValue["jobs"]
    BY <2>2
  <2> QED BY <2>1, <2>3, DefaultsAre
<1>2. {"secret", "username", "password", "path", "tool", "jobs", "language"} = Fields
  BY DEF Fields
<1>3. file \in Settings0 /\ \A f \in Fields : file[f] # EnvValue[f]
  <2>1. CASE file = Defaults
    BY <1>1, <2>1
  <2>2. CASE file = [Defaults EXCEPT !.jobs = 0, !.secret = "s", !.tool = "unsafe", !.language = ""]
    <3>1. PICK u \in Settings0 : u = [Defaults EXCEPT !["jobs"] = 0]
      BY <1>1, <1>2, FieldValues, SettingsChanged
    <3>2. PICK w \in Settings0 : w = [u EXCEPT !["secret"] = "s"]
      BY <1>2, FieldValues, SettingsChanged
    <3>3. PICK x \in Settings0 : x = [w EXCEPT !["tool"] = "unsafe"]
      BY <1>2, FieldValues, SettingsChanged
    <3>4. PICK y \in Settings0 : y = [x EXCEPT !["language"] = ""]
      BY <1>2, FieldValues, SettingsChanged
    <3>5. y = file
      BY <2>2, <3>1, <3>2, <3>3, <3>4
    <3>6. \A f \in Fields : x[f] = IF f = "jobs" THEN 0 ELSE IF f = "secret" THEN "s"
                                   ELSE IF f = "tool" THEN "unsafe" ELSE Defaults[f]
      BY <1>1, <1>2, <3>1, <3>2, <3>3 DEF Settings0
    <3>7. \A f \in Fields : y[f] = IF f = "language" THEN "" ELSE x[f]
      BY <1>2, <3>4 DEF Settings0
    <3>8. /\ EnvValue["jobs"] # 0 /\ EnvValue["secret"] # "s" /\ EnvValue["tool"] # "unsafe"
          /\ EnvValue["language"] # ""
      <4>1. EnvValue["jobs"] = 20
        BY FieldValues
      <4>2. EnvValue["jobs"] # 0
        BY <4>1
      <4>3. EnvValue["secret"] = "env" /\ EnvValue["tool"] = "env" /\ EnvValue["language"] = "env"
        BY FieldValues
      <4> QED BY <4>2, <4>3
    <3> QED BY <1>1, <3>5, <3>7, <3>8, <3>6
  <2>3. CASE file = [Defaults EXCEPT !.username = "u", !.password = "p", !.path = "other"]
    <3>1. PICK u \in Settings0 : u = [Defaults EXCEPT !["username"] = "u"]
      BY <1>1, <1>2, FieldValues, SettingsChanged
    <3>2. PICK w \in Settings0 : w = [u EXCEPT !["password"] = "p"]
      BY <1>2, FieldValues, SettingsChanged
    <3>3. PICK x \in Settings0 : x = [w EXCEPT !["path"] = "other"]
      BY <1>2, FieldValues, SettingsChanged
    <3>4. x = file
      BY <2>3, <3>1, <3>2, <3>3
    <3>5. \A f \in Fields : x[f] = IF f = "username" THEN "u" ELSE IF f = "password" THEN "p"
                                   ELSE IF f = "path" THEN "other" ELSE Defaults[f]
      BY <1>1, <1>2, <3>1, <3>2, <3>3 DEF Settings0
    <3>6. EnvValue["username"] # "u" /\ EnvValue["password"] # "p" /\ EnvValue["path"] # "other"
      BY FieldValues
    <3> QED BY <1>1, <3>4, <3>5, <3>6
  <2> QED BY <2>1, <2>2, <2>3 DEF SettingsInit
<1>4. /\ tmpFile = Defaults /\ toolFound \in BOOLEAN /\ putCount = 0 /\ starts = 0
      /\ store = [at |-> "down", base |-> Defaults, value |-> Defaults]
      /\ puts = [c \in Putters |-> NoPut]
  BY DEF SettingsInit, Putters
<1>5. SettingsTypes
  BY <1>1, <1>3, <1>4, NoPutIs, SettingsAssumption DEF SettingsTypes
<1>6. SettingsTurns /\ SettingsAgree
  BY <1>3, <1>4, NoPutIs, SettingsAssumption DEF SettingsTurns, SettingsAgree, EnvironmentStaysOut, Up
<1> QED BY <1>4, <1>5, <1>6, NoPutIs DEF SettingsInv, PutKeeps

LEMMA SettingsStepOK ==
  ASSUME SettingsInv, [SettingsNext]_settingsVars
  PROVE  SettingsInv'
<1>1. CASE UNCHANGED settingsVars
  <2>1. SettingsTypes' /\ SettingsTurns'
    BY <1>1 DEF settingsVars, SettingsInv, SettingsTypes, SettingsTurns
  <2>2. SettingsAgree'
    BY <1>1 DEF settingsVars, SettingsInv, SettingsAgree, EnvironmentStaysOut
  <2>3. \A c \in Putters : PutKeeps(puts[c])'
    BY <1>1 DEF settingsVars, SettingsInv, PutKeeps
  <2> QED BY <2>1, <2>2, <2>3 DEF SettingsInv
<1>2. CASE Load \/ ResolveMediaTools \/ Listens \/ Stop
  BY <1>2, LoadOK, ResolveMediaToolsOK, ListensOK, StopOK
<1>3. CASE \E c \in SettingsClients, f \in Fields : \E new \in ValuesOf[f] :
              PutReads(c, f, new) \/ PutReadsAll(c, f, new)
  BY <1>3, PutReadsOK
<1>4. CASE \E c \in Putters : \/ EnsureNativePathsWritable(c)
                              \/ SaveWrites(c) \/ SaveRenames(c) \/ SaveFails(c)
  BY <1>4, EnsureOK, SaveWritesOK, SaveRenamesOK, SaveFailsOK
<1> QED BY <1>1, <1>2, <1>3, <1>4 DEF SettingsNext, Putters

LEMMA SettingsInvSafe ==
  ASSUME SettingsInv
  PROVE  SettingsSafe
<1>1. SettingsTypes /\ SettingsAgree
  BY DEF SettingsInv
<1>2. SettingsTypeOK
  <2>1. \A v \in Settings0 : DOMAIN v = Fields /\ \A f \in Fields : v[f] \in ValuesOf[f] \cup {EnvValue[f]}
    BY SettingsValue
  <2>2. \A c \in DOMAIN puts : puts[c] \in PutOf
    BY <1>1 DEF SettingsTypes
  <2> QED BY <1>1, <2>1, <2>2 DEF SettingsTypeOK, SettingsTypes, PutOf, Up
<1>3. RestartsAlike
  <2>1. ASSUME store.at \in Up
        PROVE  /\ validate(LoadedValue(file))
               /\ \A f \in Fields : store.value[f] = LoadedValue(file)[f] \/ NextStartChanges(f)
    <3> DEFINE now == applyEnvironment(store.base)
               next == applyEnvironment(LoadedBase(file))
    <3>1. /\ file \in Settings0 /\ store.base \in Settings0 /\ LoadedBase(file) \in Settings0
          /\ LoadsAs(file, store.base) /\ validate(store.value)
          /\ store.value \in {now, anchorNativePaths(now)}
      BY <1>1, <2>1, LoadedBaseIs DEF SettingsTypes, SettingsAgree
    <3>2. now \in Settings0 /\ next \in Settings0 /\ LoadedValue(file) = anchorNativePaths(next)
      BY <3>1, ApplyIs DEF LoadedValue
    <3>3. \A f \in Fields : /\ now[f] = IF f \in Managed THEN EnvValue[f] ELSE store.base[f]
                            /\ next[f] = IF f \in Managed THEN EnvValue[f] ELSE LoadedBase(file)[f]
      BY <3>1, ApplyIs
    <3>4. {"path", "tool", "jobs", "language"} \subseteq Fields
      BY DEF Fields
    <3> HIDE DEF now, next
    <3>5. \A f \in Fields : now[f] = next[f] \/ (f = "language" /\ now[f] = "" /\ next[f] = "en")
      BY <3>1, <3>3 DEF LoadsAs
    <3>6. \A f \in Fields \ {"path"} : store.value[f] = now[f] /\ LoadedValue(file)[f] = next[f]
      BY <3>1, <3>2, AnchorIs
    <3>7. now["path"] = next["path"]
      BY <3>4, <3>5
    <3>8. store.value["path"] = LoadedValue(file)["path"] \/ NextStartChanges("path")
      BY <3>1, <3>2, <3>7, AnchorIs DEF NextStartChanges
    <3>9. \A f \in Fields \ {"path"} :
             store.value[f] = LoadedValue(file)[f] \/ NextStartChanges(f)
      BY <3>5, <3>6, DefaultsAre DEF NextStartChanges
    <3>10. validate(LoadedValue(file))
      <4>1. store.value \in Settings0 /\ LoadedValue(file) \in Settings0
        BY <3>1, <3>2, AnchorIs
      <4>2. /\ store.value["tool"] = LoadedValue(file)["tool"]
            /\ store.value["jobs"] = LoadedValue(file)["jobs"]
        BY <3>4, <3>5, <3>6
      <4> QED BY <3>1, <4>1, <4>2, ValidateIs
    <3> QED BY <3>8, <3>9, <3>10
  <2> QED BY <2>1 DEF RestartsAlike, Up
<1> QED BY <1>1, <1>2, <1>3 DEF SettingsSafe, SettingsAgree

LEMMA SettingsStepKeeps ==
  ASSUME SettingsInv, [SettingsNext]_settingsVars
  PROVE  [\A c \in DOMAIN puts : file' # file /\ puts[c].at = "written" /\ ~puts[c].stale =>
         \A f \in Fields \ puts[c].changed :
             \/ store'.value[f] = store.value[f]
             \/ /\ f = "password"
                /\ store'.value.username = "" \/ "username" \in puts[c].changed \cap Managed]_settingsVars
<1>1. SUFFICES ASSUME NEW c \in Putters, file' # file, puts[c].at = "written", ~puts[c].stale,
                      NEW f \in Fields \ puts[c].changed
               PROVE  \/ store'.value[f] = store.value[f]
                      \/ /\ f = "password"
                         /\ \/ store'.value["username"] = ""
                            \/ "username" \in puts[c].changed \cap Managed
  BY DEF SettingsInv, SettingsTypes
<1>2. PICK d \in Putters : SaveRenames(d)
  <2>1. SettingsNext
    BY <1>1 DEF settingsVars
  <2>2. ~(Load \/ ResolveMediaTools \/ Listens \/ Stop)
    BY <1>1 DEF Load, ResolveMediaTools, Listens, Stop
  <2>3. ~\E e \in SettingsClients, g \in Fields : \E new \in ValuesOf[g] :
            PutReads(e, g, new) \/ PutReadsAll(e, g, new)
    BY <1>1 DEF PutReads, PutReadsAll
  <2>4. \A e \in Putters : ~(EnsureNativePathsWritable(e) \/ SaveWrites(e) \/ SaveFails(e))
    BY <1>1 DEF EnsureNativePathsWritable, SaveWrites, SaveFails
  <2> QED BY <2>1, <2>2, <2>3, <2>4 DEF SettingsNext, Putters
<1>3. d = c
  BY <1>1, <1>2 DEF SaveRenames, SettingsInv, SettingsTurns
<1>4. store'.value = Effective(puts[c].v)
  BY <1>2, <1>3 DEF SaveRenames, SettingsInv, SettingsTypes
<1>5. \/ Effective(puts[c].v)[f] = store.value[f]
      \/ f = "password" /\ (Effective(puts[c].v)["username"] = "" \/ "username" \in puts[c].changed \cap Managed)
  BY <1>1 DEF SettingsInv, PutKeeps
<1> QED BY <1>4, <1>5

(* Whatever is saved, refused, interrupted or set by the environment, the  *)
(* next start agrees with the process but for a relative path and a blank  *)
(* language, and a save changes what its client changed and nothing else   *)
(* (Put and save in config.go, putSettings in settings.go), for any set of *)
(* managed fields and number of clients.                                   *)
THEOREM SettingsTheorem == SettingsInit /\ [][SettingsNext]_settingsVars => SettingsKept
<1>1. SettingsInit => SettingsInv
  BY SettingsInitOK
<1>2. SettingsInv /\ [SettingsNext]_settingsVars => SettingsInv'
  BY SettingsStepOK
<1>3. SettingsInv => SettingsSafe
  BY SettingsInvSafe
<1>4. SettingsInv /\ [SettingsNext]_settingsVars =>
        [\A c \in DOMAIN puts : file' # file /\ puts[c].at = "written" /\ ~puts[c].stale =>
         \A f \in Fields \ puts[c].changed :
             \/ store'.value[f] = store.value[f]
             \/ /\ f = "password"
                /\ store'.value.username = "" \/ "username" \in puts[c].changed \cap Managed]_settingsVars
  BY SettingsStepKeeps
<1> QED BY <1>1, <1>2, <1>3, <1>4, PTL DEF SettingsKept, OmittedIsKept

-----------------------------------------------------------------------------
(* Staging: the inductive invariant.  Nothing is on the disk between       *)
(* attempts, and from the digest on the archive is the one published.      *)

MemberRecords ==
    [name: {"exe", "lib", "rejected", "link", "leaving", "dir", "fifo"}, root: {"", "A", "B"},
     kind: {"file", "link", "dir", "other"}, size: Nat, delivered: Nat]
StageNames == {"idle", "open", "copy", "extract", "verified", "recorded", "failed"}

StagingTypes ==
    /\ asset.flavor \in {"file", "bundle"}
    /\ stage \in StageNames /\ attempt \in 0..MaxAttempts
    /\ body \in [known: BOOLEAN, read: Nat, resumes: 0..MaxResumes, ended: BOOLEAN]
    /\ part \in [there: BOOLEAN, chunks: Nat, damaged: BOOLEAN]
    /\ tree \in [there: BOOLEAN, members: Seq(MemberRecords), identity: Identities]
    /\ leftovers \subseteq {"part", "tree"}

StagingClean ==
    /\ stage \in {"idle", "open", "failed"} => ~part.there /\ ~tree.there
    /\ stage \in {"idle", "open", "copy", "failed"} => tree.members = << >>
    /\ stagingGaps = {} => leftovers = {}

StagingBounds ==
    /\ part.chunks <= CompressedLimit
    /\ expanded(tree) <= ExpandedLimit /\ Len(tree.members) <= EntryLimit

(* Every member once and whole, and those of a bundle in one bundle.       *)
WholeMembers(s, flavor) ==
    \A i, j \in DOMAIN s :
        /\ <<s[i].root, s[i].name>> = <<s[j].root, s[j].name>> => i = j
        /\ s[i].delivered = s[i].size
        /\ flavor = "bundle" => s[i].root = s[j].root

StagingWhole ==
    /\ stage \in {"extract", "verified", "recorded"} => part.chunks = asset.size /\ ~part.damaged
    /\ stage \in {"verified", "recorded"} => tree.identity \notin {"other machine", "other build"}
    /\ WholeMembers(tree.members, asset.flavor)

StagingInv == StagingTypes /\ StagingClean /\ StagingBounds /\ StagingWhole

LEMMA LeastOf ==
  ASSUME NEW S \in SUBSET Nat, S # {}
  PROVE  \E m \in S : \A n \in S : m <= n
<1>1. PICK m \in S : \A n \in S : ~(<<n, m>> \in OpToRel(<, Nat))
  BY NatLessThanWellFounded, WFMin, Zenon
<1>2. \A n \in S : ~(n < m)
  BY <1>1 DEF OpToRel
<1> QED BY <1>2

(* The running total: it exists, and a member adds its size to it.         *)
IsTotal(s, f) ==
    f = [n \in 0..Len(s) |-> IF n = 0 THEN 0 ELSE f[n - 1] + s[n].size]

LEMMA SomeTotal ==
  ASSUME NEW s \in Seq(MemberRecords)
  PROVE  \E f : IsTotal(s, f) /\ \A n \in 0..Len(s) : f[n] \in Nat
<1> DEFINE Upto(N, f) == /\ f = [n \in 0..N |-> IF n = 0 THEN 0 ELSE f[n - 1] + s[n].size]
                         /\ \A n \in 0..N : f[n] \in Nat
           bad == {N \in 0..Len(s) : ~\E f : Upto(N, f)}
<1>1. \A n \in 1..Len(s) : s[n].size \in Nat
  <2>1. \A n \in 1..Len(s) : s[n] \in MemberRecords
    OBVIOUS
  <2> QED BY <2>1 DEF MemberRecords
<1>2. Len(s) \in Nat
  OBVIOUS
<1>3. \E f : Upto(0, f)
  <2> DEFINE f0 == [n \in 0..0 |-> 0]
  <2>1. f0 = [n \in 0..0 |-> IF n = 0 THEN 0 ELSE f0[n - 1] + s[n].size]
    OBVIOUS
  <2>2. \A n \in 0..0 : f0[n] \in Nat
    OBVIOUS
  <2> QED BY <2>1, <2>2
<1>4. bad = {}
  <2> SUFFICES ASSUME bad # {} PROVE FALSE
    OBVIOUS
  <2>0. bad \in SUBSET Nat
    BY <1>2
  <2>1. PICK N \in bad : \A M \in bad : N <= M
    <3> HIDE DEF bad
    <3> QED BY <2>0, LeastOf
  <2>2. N \in 0..Len(s) /\ ~\E f : Upto(N, f)
    BY <2>1
  <2>3. N # 0
    BY <2>2, <1>3
  <2>4. N - 1 \in 0..Len(s) /\ N \in 1..Len(s) /\ N - 1 < N
    BY <2>2, <2>3, <1>2
  <2>5. N - 1 \notin bad
    <3> HIDE DEF bad
    <3>1. ASSUME N - 1 \in bad PROVE FALSE
      <4>1. N <= N - 1
        BY <3>1, <2>1
      <4> QED BY <4>1, <2>4, <1>2
    <3> QED BY <3>1
  <2>6. PICK f : Upto(N - 1, f)
    BY <2>4, <2>5
  <2> DEFINE g == [n \in 0..N |-> IF n = N THEN f[N - 1] + s[N].size ELSE f[n]]
  <2>7. \A n \in 0..N : g[n] = IF n = 0 THEN 0 ELSE g[n - 1] + s[n].size
    <3> SUFFICES ASSUME NEW n \in 0..N
                 PROVE  g[n] = IF n = 0 THEN 0 ELSE g[n - 1] + s[n].size
      OBVIOUS
    <3>1. CASE n = N
      <4>1. g[n] = f[N - 1] + s[N].size /\ g[N - 1] = f[N - 1]
        BY <3>1, <2>4, <1>2
      <4> QED BY <3>1, <4>1, <2>3
    <3>2. CASE n # N
      <4>1. n \in 0..(N - 1) /\ g[n] = f[n]
        BY <3>2, <2>4, <1>2
      <4>2. CASE n = 0
        BY <4>1, <4>2, <2>6
      <4>3. CASE n # 0
        <5>1. n - 1 \in 0..N /\ n - 1 # N /\ g[n - 1] = f[n - 1]
          BY <4>1, <4>3, <2>4, <1>2
        <5>2. f[n] = f[n - 1] + s[n].size
          BY <4>1, <4>3, <2>6
        <5> QED BY <4>1, <4>3, <5>1, <5>2
      <4> QED BY <4>2, <4>3
    <3> QED BY <3>1, <3>2
  <2>8. g = [n \in 0..N |-> IF n = 0 THEN 0 ELSE g[n - 1] + s[n].size]
    <3>1. g = [n \in 0..N |-> g[n]]
      OBVIOUS
    <3> HIDE DEF g
    <3> QED BY <3>1, <2>7
  <2>9. \A n \in 0..N : g[n] \in Nat
    <3> SUFFICES ASSUME NEW n \in 0..N PROVE g[n] \in Nat
      OBVIOUS
    <3>1. \A m \in 0..(N - 1) : f[m] \in Nat
      BY <2>6
    <3>2. f[N - 1] \in Nat /\ s[N].size \in Nat
      BY <3>1, <2>4, <1>1, <1>2
    <3>3. CASE n = N
      BY <3>2, <3>3
    <3>4. CASE n # N
      BY <3>1, <3>4, <2>4, <1>2
    <3> QED BY <3>3, <3>4
  <2>10. Upto(N, g)
    <3> HIDE DEF g
    <3> QED BY <2>8, <2>9
  <2> HIDE DEF Upto
  <2> QED BY <2>2, <2>10
<1>5. \E f : Upto(Len(s), f)
  <2> HIDE DEF Upto
  <2> QED BY <1>4, <1>2
<1> QED BY <1>5 DEF IsTotal

LEMMA TotalsAgree ==
  ASSUME NEW s \in Seq(MemberRecords), NEW r \in Seq(MemberRecords), Len(s) <= Len(r),
         \A n \in 1..Len(s) : s[n] = r[n],
         NEW f, IsTotal(s, f), NEW g, IsTotal(r, g)
  PROVE  \A n \in 0..Len(s) : f[n] = g[n]
<1> DEFINE bad == {n \in 0..Len(s) : f[n] # g[n]}
<1>1. Len(s) \in Nat /\ Len(r) \in Nat
  OBVIOUS
<1>2. \A n \in 0..Len(s) : f[n] = IF n = 0 THEN 0 ELSE f[n - 1] + s[n].size
  BY Zenon DEF IsTotal
<1>3. \A n \in 0..Len(r) : g[n] = IF n = 0 THEN 0 ELSE g[n - 1] + r[n].size
  BY Zenon DEF IsTotal
<1>4. bad = {}
  <2> SUFFICES ASSUME bad # {} PROVE FALSE
    OBVIOUS
  <2>0. bad \in SUBSET Nat
    BY <1>1
  <2>1. PICK n \in bad : \A m \in bad : n <= m
    <3> HIDE DEF bad
    <3> QED BY <2>0, LeastOf
  <2>2. n \in 0..Len(s) /\ n \in 0..Len(r) /\ f[n] # g[n]
    BY <2>1, <1>1
  <2>3. n # 0
    BY <2>2, <1>2, <1>3
  <2>4. n - 1 \in 0..Len(s) /\ n \in 1..Len(s) /\ n - 1 < n
    BY <2>2, <2>3, <1>1
  <2>5. f[n - 1] = g[n - 1]
    <3>1. ASSUME n - 1 \in bad PROVE FALSE
      <4> HIDE DEF bad
      <4>1. n <= n - 1
        BY <3>1, <2>1
      <4> QED BY <4>1, <2>4, <1>1
    <3> QED BY <3>1, <2>4
  <2>6. s[n] = r[n]
    BY <2>4
  <2>7. f[n] = f[n - 1] + s[n].size /\ g[n] = g[n - 1] + r[n].size
    BY <2>2, <2>3, <1>2, <1>3
  <2> QED BY <2>2, <2>5, <2>6, <2>7
<1> QED BY <1>4

LEMMA ExpandedIs ==
  ASSUME NEW k, k.members \in Seq(MemberRecords)
  PROVE  \E f : /\ IsTotal(k.members, f) /\ expanded(k) = f[Len(k.members)]
                /\ \A n \in 0..Len(k.members) : f[n] \in Nat
<1> DEFINE s == k.members
           f == CHOOSE g : IsTotal(s, g)
<1>1. PICK g : IsTotal(s, g) /\ \A n \in 0..Len(s) : g[n] \in Nat
  BY SomeTotal
<1>2. IsTotal(s, f)
  BY <1>1
<1>3. expanded(k) = f[Len(s)]
  BY DEF expanded, IsTotal
<1> HIDE DEF f
<1>4. \A n \in 0..Len(s) : f[n] = g[n]
  BY <1>1, <1>2, TotalsAgree
<1> QED BY <1>1, <1>2, <1>3, <1>4

LEMMA ExpandedAppends ==
  ASSUME NEW k, NEW q, k.members \in Seq(MemberRecords), NEW m \in MemberRecords,
         q.members = Append(k.members, m)
  PROVE  expanded(k) \in Nat /\ expanded(q) = expanded(k) + m.size
<1> DEFINE s == k.members
           r == q.members
<1>1. r \in Seq(MemberRecords) /\ Len(r) = Len(s) + 1 /\ Len(s) \in Nat /\ r[Len(r)] = m
      /\ \A n \in 1..Len(s) : s[n] = r[n]
  OBVIOUS
<1>2. PICK f : IsTotal(s, f) /\ expanded(k) = f[Len(s)] /\ \A n \in 0..Len(s) : f[n] \in Nat
  BY ExpandedIs
<1>3. PICK g : IsTotal(r, g) /\ expanded(q) = g[Len(r)]
  BY <1>1, ExpandedIs
<1> HIDE DEF s, r
<1>4. f[Len(s)] = g[Len(s)]
  <2>1. Len(s) <= Len(r) /\ Len(s) \in 0..Len(s)
    BY <1>1
  <2>2. s \in Seq(MemberRecords)
    BY DEF s
  <2>3. r \in Seq(MemberRecords) /\ \A n \in 1..Len(s) : s[n] = r[n]
    BY <1>1
  <2>4. IsTotal(s, f) /\ IsTotal(r, g) /\ Len(s) <= Len(r)
    BY <1>2, <1>3, <2>1
  <2>5. \A n \in 0..Len(s) : f[n] = g[n]
    BY <2>2, <2>3, <2>4, TotalsAgree
  <2> QED BY <2>1, <2>5
<1>5. \A n \in 0..Len(r) : g[n] = IF n = 0 THEN 0 ELSE g[n - 1] + r[n].size
  BY <1>3, Zenon DEF IsTotal
<1>6. g[Len(r)] = g[Len(s)] + m.size
  <2>1. Len(r) \in 0..Len(r) /\ Len(r) # 0 /\ Len(r) - 1 = Len(s)
    BY <1>1
  <2> QED BY <1>1, <1>5, <2>1
<1>7. f[Len(s)] \in Nat
  BY <1>1, <1>2
<1> QED BY <1>2, <1>3, <1>4, <1>6, <1>7

LEMMA ExpandedNone ==
  ASSUME NEW k, k.members = << >>
  PROVE  expanded(k) = 0
<1>0. k.members \in Seq(MemberRecords)
  OBVIOUS
<1>1. PICK f : IsTotal(k.members, f) /\ expanded(k) = f[Len(k.members)]
  BY <1>0, ExpandedIs
<1>2. Len(k.members) = 0
  OBVIOUS
<1>3. f[0] = 0
  BY <1>1, <1>2 DEF IsTotal
<1> QED BY <1>1, <1>2, <1>3

LEMMA SizesAre == \A n \in {0, 1, 2} : n \in Nat
OBVIOUS

LEMMA MembersAre ==
  ASSUME NEW m \in Members
  PROVE  m \in MemberRecords /\ (m.kind # "file" => m.size = 0 /\ m.delivered = 0)
<1>1. \/ \E n \in {"exe", "lib", "rejected"}, r \in {"", "A", "B"}, a, b \in {0, 1, 2} :
            m = File(n, r, a, b)
      \/ \E n \in {"link", "leaving", "dir", "fifo"}, r \in {"", "A"}, k \in {"link", "dir", "other"} :
            m = Other(n, r, k)
  BY DEF Members
<1>2. ASSUME NEW n \in {"exe", "lib", "rejected"}, NEW r \in {"", "A", "B"},
             NEW a \in {0, 1, 2}, NEW b \in {0, 1, 2}, m = File(n, r, a, b)
      PROVE  m \in MemberRecords /\ m.kind = "file"
  <2>1. a \in Nat /\ b \in Nat
    BY SizesAre, Zenon
  <2>2. m = [name |-> n, root |-> r, kind |-> "file", size |-> a, delivered |-> b]
    BY <1>2 DEF File
  <2> QED BY <2>1, <2>2 DEF MemberRecords
<1>3. ASSUME NEW n \in {"link", "leaving", "dir", "fifo"}, NEW r \in {"", "A"},
             NEW k \in {"link", "dir", "other"}, m = Other(n, r, k)
      PROVE  m \in MemberRecords /\ m.size = 0 /\ m.delivered = 0
  BY <1>3 DEF Other, MemberRecords
<1>4. CASE \E n \in {"exe", "lib", "rejected"}, r \in {"", "A", "B"}, a, b \in {0, 1, 2} :
             m = File(n, r, a, b)
  BY <1>2, <1>4
<1>5. CASE \E n \in {"link", "leaving", "dir", "fifo"}, r \in {"", "A"}, k \in {"link", "dir", "other"} :
             m = Other(n, r, k)
  BY <1>3, <1>5
<1> QED BY <1>1, <1>4, <1>5

LEMMA NothingIs ==
  /\ NoPart \in [there: BOOLEAN, chunks: Nat, damaged: BOOLEAN]
  /\ NoPart.there = FALSE /\ NoPart.chunks = 0 /\ NoPart.damaged = FALSE
  /\ NoTree \in [there: BOOLEAN, members: Seq(MemberRecords), identity: Identities]
  /\ NoTree.there = FALSE /\ NoTree.members = << >> /\ NoTree.identity = "right"
  /\ expanded(NoTree) = 0 /\ Len(NoTree.members) = 0 /\ DOMAIN NoTree.members = {}
  /\ NoBody \in [known: BOOLEAN, read: Nat, resumes: 0..MaxResumes, ended: BOOLEAN]
<1>1. 0 \in 0..MaxResumes /\ << >> \in Seq(MemberRecords)
  BY StagingAssumption
<1>2. NoTree.members = << >>
  BY DEF NoTree
<1>3. expanded(NoTree) = 0
  BY <1>2, ExpandedNone
<1>4. NoTree \in [there: BOOLEAN, members: Seq(MemberRecords), identity: Identities]
  BY <1>1 DEF NoTree, Identities
<1> QED BY <1>1, <1>2, <1>3, <1>4 DEF NoPart, NoTree, NoBody

(* A step that leaves nothing of the attempt.                              *)
LEMMA NothingKeeps ==
  ASSUME StagingInv, part' = NoPart, tree' = NoTree, body' = NoBody,
         stage' \in {"open", "failed"}, attempt' \in 0..MaxAttempts, asset' = asset,
         leftovers' \subseteq {"part", "tree"}, stagingGaps' = {} => leftovers' = {}
  PROVE  StagingInv'
<1>0. CompressedLimit \in Nat /\ ExpandedLimit \in Nat /\ EntryLimit \in Nat
  BY StagingAssumption
<1>1. StagingTypes'
  BY NothingIs DEF StagingInv, StagingTypes, StageNames
<1>2. StagingClean' /\ StagingBounds' /\ StagingWhole'
  BY <1>0, NothingIs DEF StagingClean, StagingBounds, StagingWhole, WholeMembers
<1> QED BY <1>1, <1>2 DEF StagingInv

(* A step that leaves the files alone.                                     *)
LEMMA FilesStay ==
  ASSUME StagingInv, UNCHANGED <<part, tree, body, leftovers, stagingGaps>>,
         attempt' \in 0..MaxAttempts, asset'.flavor \in {"file", "bundle"},
         stage \in {"idle", "open", "failed"}, stage' \in {"idle", "open", "failed"}
  PROVE  StagingInv'
<1>1. tree.members = << >>
  BY DEF StagingInv, StagingClean
<1>2. DOMAIN tree.members = {}
  BY <1>1
<1>3. StagingTypes'
  BY DEF StagingInv, StagingTypes, StageNames
<1>4. StagingClean' /\ StagingBounds'
  BY DEF StagingInv, StagingClean, StagingBounds
<1>5. StagingWhole'
  BY <1>2 DEF StagingInv, StagingWhole, WholeMembers
<1> QED BY <1>3, <1>4, <1>5 DEF StagingInv

LEMMA ResolveKeeps ==
  ASSUME StagingInv, Resolve
  PROVE  StagingInv'
<1>1. 1 \in 0..MaxAttempts
  BY StagingAssumption
<1>2. asset'.flavor \in {"file", "bundle"} /\ stage' \in {"open", "failed"}
  BY DEF Resolve, Assets, NoAsset
<1> QED BY <1>1, <1>2, FilesStay DEF Resolve

LEMMA OpenAssetKeeps ==
  ASSUME StagingInv, OpenAsset
  PROVE  StagingInv'
<1>1. stage = "open" /\ UNCHANGED <<asset, attempt, tree, leftovers, stagingGaps, stagings>>
  BY DEF OpenAsset
<1>2. CASE stage' = "failed" /\ UNCHANGED <<body, part>>
  BY <1>1, <1>2, FilesStay DEF StagingInv, StagingTypes
<1>3. CASE /\ stage' = "copy"
           /\ \E known \in BOOLEAN : body' = [NoBody EXCEPT !.known = known]
           /\ part' = [NoPart EXCEPT !.there = TRUE]
  <2>1. body' \in [known: BOOLEAN, read: Nat, resumes: 0..MaxResumes, ended: BOOLEAN]
    BY <1>3, NothingIs
  <2>2. part' \in [there: BOOLEAN, chunks: Nat, damaged: BOOLEAN] /\ part'.chunks = 0
    BY <1>3, NothingIs
  <2>3. tree.members = << >> /\ DOMAIN tree.members = {} /\ 0 <= CompressedLimit
    <3>1. tree.members = << >>
      BY <1>1 DEF StagingInv, StagingClean
    <3> QED BY <3>1, StagingAssumption
  <2>4. StagingTypes'
    BY <1>1, <1>3, <2>1, <2>2 DEF StagingInv, StagingTypes, StageNames
  <2>5. StagingClean' /\ StagingBounds'
    BY <1>1, <1>3, <2>2, <2>3 DEF StagingInv, StagingClean, StagingBounds
  <2>6. StagingWhole'
    BY <1>1, <1>3, <2>3 DEF StagingInv, StagingWhole, WholeMembers
  <2> QED BY <2>4, <2>5, <2>6 DEF StagingInv
<1> QED BY <1>2, <1>3 DEF OpenAsset

LEMMA ReadChunkKeeps ==
  ASSUME StagingInv, ReadChunk
  PROVE  StagingInv'
<1>1. /\ stage = "copy" /\ ~(part.chunks >= CompressedLimit)
      /\ UNCHANGED <<asset, stage, attempt, tree, leftovers, stagingGaps, stagings>>
  BY DEF ReadChunk, OverLimit
<1>2. PICK damaged \in BOOLEAN, last \in BOOLEAN :
         /\ body' = [body EXCEPT !.read = @ + 1, !.ended = last]
         /\ part' = [part EXCEPT !.chunks = @ + 1, !.damaged = @ \/ damaged]
  BY DEF ReadChunk
<1>3. body' \in [known: BOOLEAN, read: Nat, resumes: 0..MaxResumes, ended: BOOLEAN]
  <2>1. body \in [known: BOOLEAN, read: Nat, resumes: 0..MaxResumes, ended: BOOLEAN]
    BY DEF StagingInv, StagingTypes
  <2>2. body.read + 1 \in Nat
    BY <2>1
  <2> QED BY <1>2, <2>1, <2>2
<1>4. part' \in [there: BOOLEAN, chunks: Nat, damaged: BOOLEAN]
      /\ part'.chunks = part.chunks + 1
  <2>1. part \in [there: BOOLEAN, chunks: Nat, damaged: BOOLEAN]
    BY DEF StagingInv, StagingTypes
  <2>2. part.chunks \in Nat /\ part.chunks + 1 \in Nat
    BY <2>1
  <2> DEFINE d == part.damaged \/ damaged
             c == part.chunks + 1
  <2>3. d \in BOOLEAN /\ c \in Nat
    BY <2>2
  <2>4. part' = [part EXCEPT !.chunks = c, !.damaged = d]
    BY <1>2
  <2> HIDE DEF d, c
  <2>5. part' \in [there: BOOLEAN, chunks: Nat, damaged: BOOLEAN] /\ part'.chunks = c
    BY <2>1, <2>3, <2>4
  <2> QED BY <2>5 DEF c
<1>5. part.chunks \in Nat /\ CompressedLimit \in Nat
  BY StagingAssumption DEF StagingInv, StagingTypes
<1>6. part'.chunks <= CompressedLimit
  BY <1>1, <1>4, <1>5
<1>7. StagingTypes'
  BY <1>1, <1>3, <1>4 DEF StagingInv, StagingTypes
<1>8. StagingClean' /\ StagingBounds'
  BY <1>1, <1>6 DEF StagingInv, StagingClean, StagingBounds
<1>9. StagingWhole'
  BY <1>1 DEF StagingInv, StagingWhole
<1> QED BY <1>7, <1>8, <1>9 DEF StagingInv

LEMMA ConnectionEndsKeeps ==
  ASSUME StagingInv, ConnectionEnds
  PROVE  StagingInv'
<1>1. UNCHANGED <<asset, stage, attempt, part, tree, leftovers, stagingGaps, stagings>>
  BY DEF ConnectionEnds
<1>2. body' \in [known: BOOLEAN, read: Nat, resumes: 0..MaxResumes, ended: BOOLEAN]
  <2> DEFINE missing == body.known /\ body.read < asset.size /\ body.resumes < MaxResumes
  <2>1. body \in [known: BOOLEAN, read: Nat, resumes: 0..MaxResumes, ended: BOOLEAN]
        /\ body.resumes \in 0..MaxResumes /\ MaxResumes \in Nat
    BY StagingAssumption DEF StagingInv, StagingTypes
  <2>2. missing => body.resumes + 1 \in 0..MaxResumes
    BY <2>1
  <2>3. \/ missing /\ body' = [body EXCEPT !.resumes = @ + 1]
        \/ body' = [body EXCEPT !.ended = TRUE, !.resumes = IF missing THEN @ + 1 ELSE @]
    BY DEF ConnectionEnds
  <2> HIDE DEF missing
  <2> QED BY <2>1, <2>2, <2>3
<1>3. StagingTypes'
  BY <1>1, <1>2 DEF StagingInv, StagingTypes
<1>4. StagingClean' /\ StagingBounds' /\ StagingWhole'
  BY <1>1 DEF StagingInv, StagingClean, StagingBounds, StagingWhole
<1> QED BY <1>3, <1>4 DEF StagingInv

LEMMA AttemptFailsKeeps ==
  ASSUME StagingInv, AttemptFails, UNCHANGED <<asset, leftovers, stagingGaps, stagings>>
  PROVE  StagingInv'
<1>1. attempt \in 0..MaxAttempts /\ MaxAttempts \in Nat
  BY StagingAssumption DEF StagingInv, StagingTypes
<1>2. attempt' \in 0..MaxAttempts /\ stage' \in {"open", "failed"}
  BY <1>1 DEF AttemptFails
<1>3. leftovers' \subseteq {"part", "tree"} /\ (stagingGaps' = {} => leftovers' = {})
  BY DEF StagingInv, StagingTypes, StagingClean
<1> QED BY <1>2, <1>3, NothingKeeps DEF AttemptFails

LEMMA VerifyDigestKeeps ==
  ASSUME StagingInv, VerifyDigest
  PROVE  StagingInv'
<1>1. stage = "copy" /\ UNCHANGED <<asset, leftovers, stagingGaps, stagings>>
  BY DEF VerifyDigest
<1>2. CASE AttemptFails
  BY <1>1, <1>2, AttemptFailsKeeps
<1>3. CASE /\ part.chunks = asset.size /\ ~part.damaged
           /\ stage' = "extract" /\ tree' = [NoTree EXCEPT !.there = TRUE]
           /\ UNCHANGED <<part, body, attempt>>
  <2>1. tree' \in [there: BOOLEAN, members: Seq(MemberRecords), identity: Identities]
        /\ tree'.members = << >>
    BY <1>3, NothingIs
  <2>2. expanded(tree') = 0 /\ Len(tree'.members) = 0 /\ DOMAIN tree'.members = {}
    BY <2>1, ExpandedNone
  <2>3. StagingTypes'
    BY <1>1, <1>3, <2>1 DEF StagingInv, StagingTypes, StageNames
  <2>4. StagingClean'
    BY <1>1, <1>3 DEF StagingInv, StagingClean
  <2>5. StagingBounds'
    BY <1>3, <2>2, StagingAssumption DEF StagingInv, StagingBounds
  <2>6. StagingWhole'
    BY <1>1, <1>3, <2>2 DEF StagingInv, StagingWhole, WholeMembers
  <2> QED BY <2>3, <2>4, <2>5, <2>6 DEF StagingInv
<1> QED BY <1>2, <1>3 DEF VerifyDigest

(* A member that is accepted is whole, is new, and fits.                   *)
LEMMA ExtractMemberKeeps ==
  ASSUME StagingInv, ExtractMember
  PROVE  StagingInv'
<1>1. stage = "extract"
      /\ UNCHANGED <<asset, stage, attempt, body, part, leftovers, stagingGaps, stagings>>
  BY DEF ExtractMember
<1>2. PICK m \in Members : Accepted(tree, m) /\ tree' = [tree EXCEPT !.members = Append(@, m)]
  BY DEF ExtractMember
<1>3. m \in MemberRecords /\ m.size \in Nat
      /\ (m.kind # "file" => m.size = 0 /\ m.delivered = 0)
  <2>1. m \in MemberRecords /\ (m.kind # "file" => m.size = 0 /\ m.delivered = 0)
    BY MembersAre
  <2> QED BY <2>1 DEF MemberRecords
<1>4. tree \in [there: BOOLEAN, members: Seq(MemberRecords), identity: Identities]
  BY DEF StagingInv, StagingTypes
<1> DEFINE s == tree.members
           r == tree'.members
<1>5. /\ s \in Seq(MemberRecords) /\ r = Append(s, m)
      /\ tree'.there = tree.there /\ tree'.identity = tree.identity
      /\ tree' \in [there: BOOLEAN, members: Seq(MemberRecords), identity: Identities]
  <2>1. Append(s, m) \in Seq(MemberRecords)
    BY <1>3, <1>4
  <2> QED BY <2>1, <1>2, <1>4
<1>6. /\ Len(s) \in Nat /\ Len(r) = Len(s) + 1 /\ DOMAIN s = 1..Len(s) /\ DOMAIN r = 1..(Len(s) + 1)
      /\ r[Len(s) + 1] = m /\ \A n \in 1..Len(s) : r[n] = s[n]
  <2> HIDE DEF s, r
  <2> QED BY <1>3, <1>5
<1>7. m.delivered = m.size
  BY <1>2, <1>3 DEF Accepted, writeFileVerified
<1>8. expanded(tree') <= ExpandedLimit
  <2>1. expanded(tree) \in Nat /\ expanded(tree') = expanded(tree) + m.size
    BY <1>3, <1>5, ExpandedAppends
  <2>2. CASE m.kind = "file"
    BY <2>1, <2>2, <1>2 DEF Accepted, accountSize
  <2>3. CASE m.kind # "file"
    <3>1. expanded(tree') = expanded(tree)
      BY <2>1, <2>3, <1>3
    <3> QED BY <3>1 DEF StagingInv, StagingBounds
  <2> QED BY <2>2, <2>3
<1>9. Len(r) <= EntryLimit
  <2>1. Len(s) < EntryLimit /\ EntryLimit \in Nat
    BY <1>2, StagingAssumption DEF Accepted, memberPath
  <2> QED BY <2>1, <1>6
<1>10. StagingTypes'
  BY <1>1, <1>5 DEF StagingInv, StagingTypes
<1>11. StagingClean'
  BY <1>1 DEF StagingInv, StagingClean
<1>12. StagingBounds'
  BY <1>1, <1>8, <1>9 DEF StagingInv, StagingBounds
<1>13. StagingWhole'
  <2>1. \A i \in 1..Len(s) : <<s[i].root, s[i].name>> # <<m.root, m.name>>
    BY <1>2, <1>6 DEF Accepted, memberPath
  <2>2. asset.flavor = "bundle" => \A i \in 1..Len(s) : s[i].root = m.root
    BY <1>2, <1>6 DEF Accepted, markBundle
  <2>3. \A i, j \in 1..Len(s) :
          /\ <<s[i].root, s[i].name>> = <<s[j].root, s[j].name>> => i = j
          /\ s[i].delivered = s[i].size
          /\ asset.flavor = "bundle" => s[i].root = s[j].root
    BY <1>6 DEF StagingInv, StagingWhole, WholeMembers
  <2> HIDE DEF s, r
  <2>4. \A i \in 1..(Len(s) + 1) : i \in 1..Len(s) \/ i = Len(s) + 1
    BY <1>6
  <2>5. \A i, j \in 1..(Len(s) + 1) :
          /\ <<r[i].root, r[i].name>> = <<r[j].root, r[j].name>> => i = j
          /\ r[i].delivered = r[i].size
          /\ asset.flavor = "bundle" => r[i].root = r[j].root
    <3> SUFFICES ASSUME NEW i \in 1..(Len(s) + 1), NEW j \in 1..(Len(s) + 1)
                 PROVE  /\ <<r[i].root, r[i].name>> = <<r[j].root, r[j].name>> => i = j
                        /\ r[i].delivered = r[i].size
                        /\ asset.flavor = "bundle" => r[i].root = r[j].root
      OBVIOUS
    <3>1. CASE i \in 1..Len(s) /\ j \in 1..Len(s)
      <4>1. r[i] = s[i] /\ r[j] = s[j]
        BY <3>1, <1>6
      <4> QED BY <3>1, <4>1, <2>3
    <3>2. CASE i \in 1..Len(s) /\ j = Len(s) + 1
      <4>1. r[i] = s[i] /\ r[j] = m
        BY <3>2, <1>6
      <4> QED BY <3>2, <4>1, <2>1, <2>2, <2>3
    <3>3. CASE i = Len(s) + 1 /\ j \in 1..Len(s)
      <4>1. r[i] = m /\ r[j] = s[j]
        BY <3>3, <1>6
      <4> QED BY <3>3, <4>1, <2>1, <2>2, <1>7
    <3>4. CASE i = Len(s) + 1 /\ j = Len(s) + 1
      <4>1. r[i] = m /\ r[j] = m
        BY <3>4, <1>6
      <4> QED BY <3>4, <4>1, <1>7
    <3> QED BY <3>1, <3>2, <3>3, <3>4, <2>4
  <2>6. /\ stage' \in {"extract", "verified", "recorded"} =>
              part'.chunks = asset'.size /\ ~part'.damaged
        /\ stage' \notin {"verified", "recorded"}
    BY <1>1 DEF StagingInv, StagingWhole
  <2>7. WholeMembers(r, asset.flavor)
    BY <2>5, <1>6 DEF WholeMembers
  <2> QED BY <2>6, <2>7, <1>1 DEF StagingWhole, r
<1> QED BY <1>10, <1>11, <1>12, <1>13 DEF StagingInv

LEMMA VerifyPayloadKeeps ==
  ASSUME StagingInv, VerifyPayload
  PROVE  StagingInv'
<1>1. stage = "extract" /\ UNCHANGED <<asset, leftovers, stagingGaps, stagings>>
  BY DEF VerifyPayload
<1>2. CASE AttemptFails
  BY <1>1, <1>2, AttemptFailsKeeps
<1>3. ASSUME NEW id \in Identities, verifyPayload(tree, id), stage' = "verified",
             tree' = [tree EXCEPT !.identity = id], UNCHANGED <<part, body, attempt>>
      PROVE  StagingInv'
  <2>1. id \notin {"other machine", "other build"}
    BY <1>3 DEF verifyPayload, verifyBundle, VerifyExecutable, checkHeaderMachine
  <2>2. tree \in [there: BOOLEAN, members: Seq(MemberRecords), identity: Identities]
    BY DEF StagingInv, StagingTypes
  <2>3. /\ tree' \in [there: BOOLEAN, members: Seq(MemberRecords), identity: Identities]
        /\ tree'.members = tree.members /\ tree'.identity = id
    BY <1>3, <2>2
  <2>4. expanded(tree') = expanded(tree)
    BY <2>3 DEF expanded
  <2>5. StagingTypes'
    BY <1>1, <1>3, <2>3 DEF StagingInv, StagingTypes, StageNames
  <2>6. StagingClean'
    BY <1>1, <1>3 DEF StagingInv, StagingClean
  <2>7. StagingBounds'
    BY <1>3, <2>3, <2>4 DEF StagingInv, StagingBounds
  <2>8. StagingWhole'
    <3>1. part.chunks = asset.size /\ ~part.damaged
      BY <1>1 DEF StagingInv, StagingWhole
    <3>2. part'.chunks = asset'.size /\ ~part'.damaged
      BY <3>1, <1>1, <1>3
    <3>3. tree'.members = tree.members /\ asset' = asset
          /\ tree'.identity \notin {"other machine", "other build"}
      BY <2>1, <2>3, <1>1
    <3>4. WholeMembers(tree.members, asset.flavor)
      BY DEF StagingInv, StagingWhole
    <3>5. WholeMembers(tree'.members, asset'.flavor)
      BY <3>3, <3>4
    <3> QED BY <3>2, <3>3, <3>5 DEF StagingWhole
  <2> QED BY <2>5, <2>6, <2>7, <2>8 DEF StagingInv
<1> QED BY <1>2, <1>3 DEF VerifyPayload

LEMMA TakeOverKeeps ==
  ASSUME StagingInv, TakeOver
  PROVE  StagingInv'
<1>1. stage = "verified" /\ body' = NoBody /\ UNCHANGED <<asset, attempt, stagings>>
  BY DEF TakeOver
<1>2. CASE stage' = "recorded" /\ UNCHANGED <<leftovers, stagingGaps, part, tree>>
  <2>1. StagingTypes'
    BY <1>1, <1>2, NothingIs DEF StagingInv, StagingTypes, StageNames
  <2>2. StagingClean' /\ StagingBounds' /\ StagingWhole'
    BY <1>1, <1>2 DEF StagingInv, StagingClean, StagingBounds, StagingWhole
  <2> QED BY <2>1, <2>2 DEF StagingInv
<1>3. CASE /\ stage' = "failed" /\ leftovers' = leftovers \cup {"part", "tree"}
           /\ part' = NoPart /\ tree' = NoTree
           /\ stagingGaps' = stagingGaps \cup {"refused"}
  BY <1>1, <1>3, NothingKeeps DEF StagingInv, StagingTypes
<1> QED BY <1>2, <1>3 DEF TakeOver

LEMMA StagingCrashKeeps ==
  ASSUME StagingInv, StagingCrash
  PROVE  StagingInv'
<1>1. /\ stage' = "failed" /\ part' = NoPart /\ tree' = NoTree /\ body' = NoBody
      /\ stagingGaps' = stagingGaps \cup {"crashed"} /\ UNCHANGED <<asset, attempt, stagings>>
  BY DEF StagingCrash
<1>2. leftovers' \subseteq {"part", "tree"}
  BY DEF StagingCrash, StagingInv, StagingTypes
<1> QED BY <1>1, <1>2, NothingKeeps DEF StagingInv, StagingTypes

LEMMA StagingAgainKeeps ==
  ASSUME StagingInv, StagingAgain
  PROVE  StagingInv'
<1>1. 0 \in 0..MaxAttempts /\ NoAsset.flavor \in {"file", "bundle"}
  BY StagingAssumption DEF NoAsset
<1> QED BY <1>1, FilesStay DEF StagingAgain

LEMMA StagingInvInit ==
  ASSUME StagingInit
  PROVE  StagingInv
<1>1. 0 \in 0..MaxAttempts /\ NoAsset.flavor \in {"file", "bundle"}
      /\ CompressedLimit \in Nat /\ ExpandedLimit \in Nat /\ EntryLimit \in Nat
  BY StagingAssumption DEF NoAsset
<1>2. StagingTypes
  BY <1>1, NothingIs DEF StagingInit, StagingTypes, StageNames
<1>3. StagingClean /\ StagingBounds /\ StagingWhole
  BY <1>1, NothingIs DEF StagingInit, StagingClean, StagingBounds, StagingWhole, WholeMembers
<1> QED BY <1>2, <1>3 DEF StagingInv

LEMMA StagingInvStep ==
  ASSUME StagingInv, [StagingNext]_stagingVars
  PROVE  StagingInv'
<1>1. CASE CopyFails \/ ExtractFails
  BY <1>1, AttemptFailsKeeps DEF CopyFails, ExtractFails
<1>2. CASE UNCHANGED stagingVars
  <2>1. UNCHANGED <<asset, stage, attempt, body, part, tree, leftovers, stagingGaps, stagings>>
    BY <1>2 DEF stagingVars
  <2> QED BY <2>1 DEF StagingInv, StagingTypes, StagingClean, StagingBounds, StagingWhole
<1> QED BY <1>1, <1>2, ResolveKeeps, OpenAssetKeeps, ReadChunkKeeps, ConnectionEndsKeeps,
       VerifyDigestKeeps, ExtractMemberKeeps, VerifyPayloadKeeps, TakeOverKeeps,
       StagingCrashKeeps, StagingAgainKeeps DEF StagingNext

LEMMA StagingInvSafe ==
  ASSUME StagingInv
  PROVE  StagingSafe
<1>1. StagingTypeOK
  BY DEF StagingInv, StagingTypes, StagingTypeOK, StageNames
<1>2. StagedIsPublished
  BY DEF StagingInv, StagingBounds, StagingWhole, WholeMembers, StagedIsPublished
<1>3. NoLeftovers
  BY DEF StagingInv, StagingClean, NoLeftovers
<1> QED BY <1>1, <1>2, <1>3 DEF StagingSafe

(* Whatever the connection and the archive do, what is installed is what   *)
(* was published, whole and within the bounds, and an operation that       *)
(* failed leaves nothing behind unless a crash or another operation was in *)
(* the way (StageArchive, Staged.Extract, install).                        *)
THEOREM StagingTheorem ==
  StagingInit /\ [][StagingNext]_stagingVars => []StagingSafe
<1>1. StagingInit => StagingInv
  BY StagingInvInit
<1>2. StagingInv /\ [StagingNext]_stagingVars => StagingInv'
  BY StagingInvStep
<1>3. StagingInv => StagingSafe
  BY StagingInvSafe
<1> QED BY <1>1, <1>2, <1>3, PTL
================================================================================
