-------------------------------- MODULE Leases ---------------------------------
(***************************************************************************)
(* The stream-lease protocol of one Managed download                       *)
(* (internal/application/service.go: Acquire, persistLease, dropLease,     *)
(* leaseHeld, rowLeased, Release, ResetLeases).                            *)
(*                                                                         *)
(* Leases are counted in memory (s.leases[id], guarded by leaseMu) and     *)
(* mirrored in the leased column of the download row.  Every write of the  *)
(* column is serialised by leaseWriteMu, but the count it mirrors is read  *)
(* before the SQL statement runs, so the count may change in between.      *)
(* A stream is one HTTP request: Acquire, then the response body, then the *)
(* deferred Release.                                                       *)
(***************************************************************************)
EXTENDS Naturals, FiniteSets

CONSTANTS Streams,     \* the concurrent streams of the download
          NoStream,    \* leaseWriteMu is free
          Faults       \* the writes of the column that may fail

WriteSteps == {"persist", "undo", "clear", "clearRetry"}

Steps == {"idle", "abort", "playing"} \cup WriteSteps

ASSUME StreamsAssumption == IsFiniteSet(Streams) /\ NoStream \notin Streams
ASSUME FaultsAssumption == Faults \subseteq WriteSteps \cup {"boot"}

VARIABLES up,          \* the server process is running
          count,       \* s.leases[id], 0 when the map has no entry
          leased,      \* the persisted column
          writer,      \* who holds leaseWriteMu
          held,        \* leaseHeld(id) as read by the current writer
          pc,          \* where each stream is in Acquire ... Release
          gaveUp       \* history: the last write of the column was abandoned

vars == <<up, count, leased, writer, held, pc, gaveUp>>

TypeOK == /\ up \in BOOLEAN
          /\ count \in Nat
          /\ leased \in BOOLEAN
          /\ writer \in Streams \cup {NoStream}
          /\ held \in BOOLEAN
          /\ pc \in [Streams -> Steps]
          /\ gaveUp \in BOOLEAN

--------------------------------------------------------------------------------

leaseHeld == count > 0

(* rowLeased consults the in-memory table first and the column second.     *)
rowLeased == leaseHeld \/ leased

(* dropLease: the entry is decremented, or deleted when it is the last.    *)
dropLease == IF count > 1 THEN count - 1 ELSE 0

(* dropLease's result: the count reached zero.                             *)
lastDropped == ~(count > 1)

Goto(s, step) == pc' = [pc EXCEPT ![s] = step]

Init == /\ up = TRUE
        /\ count = 0
        /\ leased = FALSE
        /\ writer = NoStream
        /\ held = FALSE
        /\ pc = [s \in Streams |-> "idle"]
        /\ gaveUp = FALSE

(* Acquire after GetDownload and prepareManagedDownload succeeded:         *)
(* s.leases[id]++ under leaseMu, then persistLease.                        *)
Acquire(s) ==
  /\ up /\ pc[s] = "idle"
  /\ count' = count + 1
  /\ Goto(s, "persist")
  /\ UNCHANGED <<up, leased, writer, held, gaveUp>>

(* Mutant: every handler writes the value it stands for, not the count's.  *)
BeginWriteIntent(s) ==
  /\ up /\ pc[s] \in WriteSteps /\ writer = NoStream
  /\ writer' = s
  /\ held' = (pc[s] = "persist")
  /\ UNCHANGED <<up, count, leased, pc, gaveUp>>

(* persistLease takes leaseWriteMu and evaluates leaseHeld(id), the        *)
(* argument of the SetLease call.                                          *)
BeginWrite(s) ==
  /\ up /\ pc[s] \in WriteSteps /\ writer = NoStream
  /\ writer' = s
  /\ held' = leaseHeld
  /\ UNCHANGED <<up, count, leased, pc, gaveUp>>

(* Where a stream goes when its write succeeded: an acquiring stream       *)
(* starts to play, every other write is the last of its handler.           *)
AfterWrite(step) == IF step = "persist" THEN "playing" ELSE "idle"

(* The UPDATE ran; leaseWriteMu is released by the deferred Unlock.        *)
EndWrite(s) ==
  /\ up /\ writer = s
  /\ leased' = held
  /\ writer' = NoStream
  /\ Goto(s, AfterWrite(pc[s]))
  /\ gaveUp' = FALSE
  /\ UNCHANGED <<up, count, held>>

(* Where a stream goes when its write failed: Acquire drops its lease and  *)
(* writes again, Release retries once, and both give up after that.        *)
AfterFault(step) == CASE step = "persist" -> "abort"
                      [] step = "clear" -> "clearRetry"
                      [] OTHER -> "idle"

(* The UPDATE failed: a cancelled request context, a locked database.      *)
FailWrite(s) ==
  /\ up /\ writer = s /\ pc[s] \in Faults
  /\ writer' = NoStream
  /\ Goto(s, AfterFault(pc[s]))
  /\ gaveUp' = (AfterFault(pc[s]) = "idle")
  /\ UNCHANGED <<up, count, leased, held>>

(* Mutant: the failed Acquire keeps its unit of the count.                 *)
AbortAcquireKeeps(s) ==
  /\ up /\ pc[s] = "abort"
  /\ Goto(s, "undo")
  /\ UNCHANGED <<up, count, leased, writer, held, gaveUp>>

(* Mutant: the error path drops the lease twice.                           *)
AbortAcquireTwice(s) ==
  /\ up /\ pc[s] = "abort"
  /\ count' = count - 2
  /\ Goto(s, "undo")
  /\ UNCHANGED <<up, leased, writer, held, gaveUp>>

(* Mutant: the failed Acquire deletes the entry of every stream.           *)
AbortAcquireDeletes(s) ==
  /\ up /\ pc[s] = "abort"
  /\ count' = 0
  /\ Goto(s, "undo")
  /\ UNCHANGED <<up, leased, writer, held, gaveUp>>

(* The error path of Acquire: dropLease, whose result is ignored, and a    *)
(* reconciling persistLease.                                               *)
AbortAcquire(s) ==
  /\ up /\ pc[s] = "abort"
  /\ count' = dropLease
  /\ Goto(s, "undo")
  /\ UNCHANGED <<up, leased, writer, held, gaveUp>>

(* Mutant: the last stream does not wait for a write that is under way.    *)
ReleaseTryLock(s) ==
  /\ up /\ pc[s] = "playing"
  /\ count' = dropLease
  /\ Goto(s, IF lastDropped /\ writer = NoStream THEN "clear" ELSE "idle")
  /\ UNCHANGED <<up, leased, writer, held, gaveUp>>

(* Release: only the stream that took the count to zero writes.            *)
Release(s) ==
  /\ up /\ pc[s] = "playing"
  /\ count' = dropLease
  /\ Goto(s, IF lastDropped THEN "clear" ELSE "idle")
  /\ UNCHANGED <<up, leased, writer, held, gaveUp>>

(* The process stops; a statement in flight may still have committed.      *)
Crash ==
  /\ up
  /\ up' = FALSE
  /\ count' = 0
  /\ \/ UNCHANGED leased
     \/ writer # NoStream /\ leased' = held
  /\ writer' = NoStream
  /\ pc' = [s \in Streams |-> "idle"]
  /\ UNCHANGED <<held, gaveUp>>

(* ResetLeases runs before the server accepts requests; its failure is     *)
(* logged and the server starts all the same.                              *)
Boot ==
  /\ ~up
  /\ up' = TRUE
  /\ \/ leased' = FALSE /\ gaveUp' = FALSE
     \/ "boot" \in Faults /\ gaveUp' = TRUE /\ UNCHANGED leased
  /\ UNCHANGED <<count, writer, held, pc>>

Step(s) == \/ Acquire(s) \/ BeginWrite(s) \/ EndWrite(s) \/ FailWrite(s)
           \/ AbortAcquire(s) \/ Release(s)

Next == (\E s \in Streams : Step(s)) \/ Crash \/ Boot

(* Every handler runs on: a goroutine that may step does, and Go's mutex   *)
(* hands leaseWriteMu to the longest waiter once it starves.  Nothing says *)
(* that a stream is ever requested, ends, or that the process crashes.     *)
Fairness ==
  /\ \A s \in Streams : /\ SF_vars(BeginWrite(s))
                        /\ WF_vars(EndWrite(s) \/ FailWrite(s))
                        /\ WF_vars(AbortAcquire(s))
  /\ WF_vars(Boot)

Spec == Init /\ [][Next]_vars /\ Fairness

--------------------------------------------------------------------------------

(* The streams that hold one unit of the count.                            *)
Holders == {s \in Streams : pc[s] \in {"persist", "playing", "abort"}}

(* The streams that are reading the file.                                  *)
Playing == {s \in Streams : pc[s] = "playing"}

(* The streams that will still write the column.                           *)
Pending == {s \in Streams : pc[s] \in WriteSteps \cup {"abort"}}

(* No stream is between the change of the count and its write.             *)
Settled == up /\ Pending = {}

(* The count is exact: overlapping acquires, failed acquires and releases  *)
(* never lose or leak a unit of s.leases[id].                              *)
CountIsExact == count = Cardinality(Holders)

(* Once every handler has written, the column says what the count says,    *)
(* whatever order the writes landed in and whichever of them failed, unless*)
(* the last of them was abandoned after its retry.                         *)
FlagAgrees == Settled /\ ~gaveUp => (leased <=> leaseHeld)

(* A stale write never lands last: when the writer carries a value that    *)
(* the count no longer has, another handler is still going to write.       *)
StaleWriteIsFollowed ==
  writer # NoStream /\ held # leaseHeld => Pending \ {writer} # {}

(* A download nobody streams does not stay unremovable ("a stuck flag      *)
(* would block eviction and removal until the next restart") unless the    *)
(* write that would have cleared it was abandoned.                         *)
FlagEventuallyClears == (~leaseHeld) ~> (leaseHeld \/ ~leased \/ gaveUp)

(* Whatever streams overlap, fail and crash, the count is exact and what   *)
(* the column says comes to agree with it.                                 *)
LeasesSafe == TypeOK /\ CountIsExact /\ FlagAgrees /\ StaleWriteIsFollowed

(* The count and the column implement the lease of GLOSSARY.md.            *)
Lease == INSTANCE StreamLease WITH holders <- Playing, protected <- rowLeased

LeaseSpec == Lease!Spec
================================================================================
