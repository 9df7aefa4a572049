----------------------------- MODULE ViewersProofs -----------------------------
(***************************************************************************)
(* Proofs about what a viewer leaves behind: the lease of a stream, the    *)
(* household's playback, watched and favourite rows, the prepared          *)
(* subtitles of a title, and what the catalog says of its downloads, for   *)
(* every value of their constants.                                         *)
(*                                                                         *)
(*   Leases: the inductive invariant adds to the properties of the module  *)
(* that leaseWriteMu is held by a stream that is about to write, that a    *)
(* stopped process holds nothing, and that whenever the column differs     *)
(* from what the count says, some handler is still going to write it.      *)
(*   Household: a handler that no other has overtaken holds the row as it  *)
(* is, and the loop that fills the lists is at every row exact for the     *)
(* rows it has passed.                                                     *)
(*   Subtitles: a preparation that prunes has listed every file but its    *)
(* own, and what it has kept is within its total.                          *)
(*   LibraryState: what a page or a list shows is put in terms of the rows *)
(* of downloads and playback, which a step changes one of.                 *)
(***************************************************************************)
EXTENDS Leases, Household, Subtitles, LibraryState, FiniteSetTheorems,
        NaturalsInduction, WellFoundedInduction, TLAPS

(* leaseWriteMu is held by a stream that is in persistLease.               *)
WriterWrites == writer # NoStream => pc[writer] \in WriteSteps

(* A stopped process holds no lease, no mutex and no request.              *)
DownIsEmpty == ~up => /\ count = 0
                      /\ writer = NoStream
                      /\ \A s \in Streams : pc[s] = "idle"

(* The column is right, or the repair is on its way.                       *)
RepairPending == up /\ writer = NoStream /\ ~gaveUp
                   => leased = leaseHeld \/ Pending # {}

LeaseInv == /\ TypeOK
            /\ WriterWrites
            /\ DownIsEmpty
            /\ CountIsExact

FlagInv == /\ LeaseInv
           /\ RepairPending
           /\ StaleWriteIsFollowed

--------------------------------------------------------------------------------

(* Cardinality of the holders when one stream joins, leaves or moves.      *)
LEMMA HoldersFinite == IsFiniteSet(Holders) /\ Cardinality(Holders) \in Nat
  BY StreamsAssumption, FS_Subset, FS_CardinalityType DEF Holders

LEMMA HoldersAdd ==
  ASSUME NEW s \in Streams, s \notin Holders, Holders' = Holders \cup {s}
  PROVE  Cardinality(Holders') = Cardinality(Holders) + 1
  BY HoldersFinite, FS_AddElement

LEMMA HoldersRemove ==
  ASSUME NEW s \in Streams, s \in Holders, Holders' = Holders \ {s}
  PROVE  /\ Cardinality(Holders') = Cardinality(Holders) - 1
         /\ Cardinality(Holders) >= 1
<1>1. Cardinality(Holders \ {s}) = Cardinality(Holders) - 1
  BY HoldersFinite, FS_RemoveElement
<1>2. IsFiniteSet(Holders \ {s}) /\ Cardinality(Holders \ {s}) \in Nat
  BY HoldersFinite, FS_RemoveElement, FS_CardinalityType
<1> QED BY <1>1, <1>2, HoldersFinite

(* A stream that holds a unit of the count makes it positive, and two      *)
(* streams make it at least two.                                           *)
LEMMA HolderCounts ==
  ASSUME TypeOK, CountIsExact, NEW s \in Holders
  PROVE  count >= 1
<1>1. Holders # {}
  OBVIOUS
<1>2. Cardinality(Holders) # 0
  BY <1>1, HoldersFinite, FS_EmptySet
<1> QED BY <1>2, HoldersFinite DEF CountIsExact

LEMMA TwoHoldersCount ==
  ASSUME TypeOK, CountIsExact, NEW s \in Holders, NEW t \in Holders, s # t
  PROVE  count >= 2
<1>1. IsFiniteSet({s, t}) /\ Cardinality({s, t}) = 2
  <2>1. IsFiniteSet({s}) /\ Cardinality({s}) = 1
    BY FS_Singleton
  <2>2. {s, t} = {s} \cup {t} /\ t \notin {s}
    OBVIOUS
  <2> QED BY <2>1, <2>2, FS_AddElement
<1>2. Cardinality({s, t}) <= Cardinality(Holders)
  BY <1>1, HoldersFinite, FS_Subset
<1> QED BY <1>1, <1>2, HoldersFinite DEF CountIsExact

--------------------------------------------------------------------------------

(* The count, the mutex and the stopped process, step by step.             *)
LEMMA LeaseInvInit == Init => LeaseInv
<1> SUFFICES ASSUME Init PROVE LeaseInv
  OBVIOUS
<1>1. TypeOK /\ WriterWrites /\ DownIsEmpty
  BY DEF Init, TypeOK, WriterWrites, DownIsEmpty, Steps
<1>2. Holders = {}
  BY DEF Init, Holders
<1>3. CountIsExact
  BY <1>2, FS_EmptySet DEF Init, CountIsExact
<1> QED BY <1>1, <1>3 DEF LeaseInv

LEMMA LeaseInvNext == LeaseInv /\ [Next]_vars => LeaseInv'
<1> SUFFICES ASSUME LeaseInv, [Next]_vars PROVE LeaseInv'
  OBVIOUS
<1> USE DEF LeaseInv
<1>1. ASSUME NEW s \in Streams, Acquire(s) PROVE LeaseInv'
  <2>1. (TypeOK /\ WriterWrites /\ DownIsEmpty)'
    BY <1>1 DEF Acquire, TypeOK, WriterWrites, DownIsEmpty, Goto, Steps, WriteSteps
  <2>2. s \notin Holders /\ Holders' = Holders \cup {s}
    BY <1>1 DEF Acquire, Goto, Holders, TypeOK
  <2>3. CountIsExact'
    BY <1>1, <2>2, HoldersAdd DEF Acquire, CountIsExact
  <2> QED BY <2>1, <2>3
<1>2. ASSUME NEW s \in Streams, BeginWrite(s) PROVE LeaseInv'
  <2>1. (TypeOK /\ WriterWrites /\ DownIsEmpty)'
    BY <1>2 DEF BeginWrite, TypeOK, WriterWrites, DownIsEmpty, leaseHeld
  <2>2. CountIsExact'
    BY <1>2 DEF BeginWrite, CountIsExact, Holders
  <2> QED BY <2>1, <2>2
<1>3. ASSUME NEW s \in Streams, EndWrite(s) PROVE LeaseInv'
  <2>0. s # NoStream
    BY StreamsAssumption
  <2>1. pc[s] \in WriteSteps
    BY <1>3, <2>0 DEF EndWrite, WriterWrites
  <2>2. (TypeOK /\ WriterWrites /\ DownIsEmpty)'
    BY <1>3, <2>1 DEF EndWrite, TypeOK, WriterWrites, DownIsEmpty, Goto, Steps,
                      WriteSteps, AfterWrite
  <2>3. Holders' = Holders
    BY <1>3, <2>1 DEF EndWrite, Goto, Holders, TypeOK, AfterWrite, WriteSteps
  <2>4. CountIsExact'
    BY <1>3, <2>3 DEF EndWrite, CountIsExact
  <2> QED BY <2>2, <2>4
<1>4. ASSUME NEW s \in Streams, FailWrite(s) PROVE LeaseInv'
  <2>0. s # NoStream
    BY StreamsAssumption
  <2>1. pc[s] \in WriteSteps
    BY <1>4, <2>0 DEF FailWrite, WriterWrites
  <2>2. (TypeOK /\ WriterWrites /\ DownIsEmpty)'
    BY <1>4, <2>1 DEF FailWrite, TypeOK, WriterWrites, DownIsEmpty, Goto, Steps,
                      WriteSteps, AfterFault
  <2>3. Holders' = Holders
    BY <1>4, <2>1 DEF FailWrite, Goto, Holders, TypeOK, AfterFault, WriteSteps
  <2>4. CountIsExact'
    BY <1>4, <2>3 DEF FailWrite, CountIsExact
  <2> QED BY <2>2, <2>4
<1>5. ASSUME NEW s \in Streams, AbortAcquire(s) PROVE LeaseInv'
  <2>1. (TypeOK /\ WriterWrites /\ DownIsEmpty)'
    BY <1>5 DEF AbortAcquire, TypeOK, WriterWrites, DownIsEmpty, Goto, Steps,
                WriteSteps, dropLease
  <2>2. s \in Holders /\ Holders' = Holders \ {s}
    BY <1>5 DEF AbortAcquire, Goto, Holders, TypeOK
  <2>3. Cardinality(Holders') = count - 1 /\ count >= 1
    BY <2>2, HoldersRemove DEF CountIsExact
  <2>4. count' = count - 1
    BY <1>5, <2>3 DEF AbortAcquire, dropLease, TypeOK
  <2>5. CountIsExact'
    BY <2>3, <2>4 DEF CountIsExact
  <2> QED BY <2>1, <2>5
<1>6. ASSUME NEW s \in Streams, Release(s) PROVE LeaseInv'
  <2>1. (TypeOK /\ WriterWrites /\ DownIsEmpty)'
    BY <1>6 DEF Release, TypeOK, WriterWrites, DownIsEmpty, Goto, Steps,
                WriteSteps, dropLease
  <2>2. s \in Holders /\ Holders' = Holders \ {s}
    BY <1>6 DEF Release, Goto, Holders, TypeOK
  <2>3. Cardinality(Holders') = count - 1 /\ count >= 1
    BY <2>2, HoldersRemove DEF CountIsExact
  <2>4. count' = count - 1
    BY <1>6, <2>3 DEF Release, dropLease, TypeOK
  <2>5. CountIsExact'
    BY <2>3, <2>4 DEF CountIsExact
  <2> QED BY <2>1, <2>5
<1>7. ASSUME Crash PROVE LeaseInv'
  <2>1. (TypeOK /\ WriterWrites /\ DownIsEmpty)'
    BY <1>7 DEF Crash, TypeOK, WriterWrites, DownIsEmpty, Steps
  <2>2. Holders' = {}
    BY <1>7 DEF Crash, Holders
  <2>3. CountIsExact'
    BY <1>7, <2>2, FS_EmptySet DEF Crash, CountIsExact
  <2> QED BY <2>1, <2>3
<1>8. ASSUME Boot PROVE LeaseInv'
  <2>1. (TypeOK /\ WriterWrites /\ DownIsEmpty)'
    BY <1>8 DEF Boot, TypeOK, WriterWrites, DownIsEmpty
  <2>2. CountIsExact'
    BY <1>8 DEF Boot, CountIsExact, Holders
  <2> QED BY <2>1, <2>2
<1>9. ASSUME UNCHANGED vars PROVE LeaseInv'
  BY <1>9 DEF vars, TypeOK, WriterWrites, DownIsEmpty, CountIsExact, Holders
<1> QED BY <1>1, <1>2, <1>3, <1>4, <1>5, <1>6, <1>7, <1>8, <1>9 DEF Next, Step

(* Overlapping acquires, failed acquires and releases neither lose nor     *)
(* leak a unit of s.leases[id]: the count is the number of requests        *)
(* between the increment in Acquire and their dropLease.                   *)
THEOREM CountTheorem == Spec => [](TypeOK /\ CountIsExact)
<1>1. Spec => []LeaseInv
  BY LeaseInvInit, LeaseInvNext, PTL DEF Spec
<1>2. LeaseInv => TypeOK /\ CountIsExact
  BY DEF LeaseInv
<1> QED BY <1>1, <1>2, PTL

--------------------------------------------------------------------------------

(* Who still writes after a step: a stream that enters the protocol is     *)
(* added, one that leaves it is taken out.                                 *)
LEMMA FlagInvNext == FlagInv /\ [Next]_vars => FlagInv'
<1> SUFFICES ASSUME FlagInv, [Next]_vars PROVE (RepairPending /\ StaleWriteIsFollowed)'
  BY LeaseInvNext DEF FlagInv
<1> USE DEF FlagInv, LeaseInv
<1>0. LeaseInv'
  BY LeaseInvNext
<1>1. ASSUME NEW s \in Streams, Acquire(s)
      PROVE (RepairPending /\ StaleWriteIsFollowed)'
  <2>1. s \in Pending' /\ s # writer'
    BY <1>1, StreamsAssumption
       DEF Acquire, Goto, Pending, WriteSteps, TypeOK, WriterWrites
  <2> QED BY <2>1 DEF RepairPending, StaleWriteIsFollowed
<1>2. ASSUME NEW s \in Streams, BeginWrite(s)
      PROVE (RepairPending /\ StaleWriteIsFollowed)'
  <2>1. writer' # NoStream /\ held' = leaseHeld'
    BY <1>2, StreamsAssumption DEF BeginWrite, leaseHeld
  <2> QED BY <2>1 DEF RepairPending, StaleWriteIsFollowed
<1>3. ASSUME NEW s \in Streams, EndWrite(s)
      PROVE (RepairPending /\ StaleWriteIsFollowed)'
  <2>0. writer = s /\ s # NoStream /\ pc[s] \in WriteSteps
    BY <1>3, StreamsAssumption DEF EndWrite, WriterWrites
  <2>1. Pending' = Pending \ {s}
    BY <1>3, <2>0 DEF EndWrite, Goto, Pending, TypeOK, AfterWrite, WriteSteps
  <2>2. leased' = held /\ leaseHeld' = leaseHeld /\ writer' = NoStream
    BY <1>3 DEF EndWrite, leaseHeld
  <2>3. held = leaseHeld \/ Pending \ {s} # {}
    BY <2>0 DEF StaleWriteIsFollowed
  <2> QED BY <2>1, <2>2, <2>3 DEF RepairPending, StaleWriteIsFollowed
<1>4. ASSUME NEW s \in Streams, FailWrite(s)
      PROVE (RepairPending /\ StaleWriteIsFollowed)'
  <2>0. pc[s] \in WriteSteps
    BY <1>4, StreamsAssumption DEF FailWrite, WriterWrites
  <2>1. CASE pc[s] \in {"persist", "clear"}
    <3>1. s \in Pending' /\ writer' = NoStream
      BY <1>4, <2>1 DEF FailWrite, Goto, Pending, TypeOK, AfterFault, WriteSteps
    <3> QED BY <3>1 DEF RepairPending, StaleWriteIsFollowed
  <2>2. CASE pc[s] \in {"undo", "clearRetry"}
    <3>1. gaveUp' /\ writer' = NoStream
      BY <1>4, <2>2 DEF FailWrite, AfterFault
    <3> QED BY <3>1 DEF RepairPending, StaleWriteIsFollowed
  <2> QED BY <2>0, <2>1, <2>2 DEF WriteSteps
<1>5. ASSUME NEW s \in Streams, AbortAcquire(s)
      PROVE (RepairPending /\ StaleWriteIsFollowed)'
  <2>1. s \in Pending' /\ s # writer'
    BY <1>5, StreamsAssumption
       DEF AbortAcquire, Goto, Pending, WriteSteps, TypeOK, WriterWrites
  <2> QED BY <2>1 DEF RepairPending, StaleWriteIsFollowed
<1>6. ASSUME NEW s \in Streams, Release(s)
      PROVE (RepairPending /\ StaleWriteIsFollowed)'
  <2>1. CASE lastDropped
    <3>1. s \in Pending' /\ s # writer'
      BY <1>6, <2>1, StreamsAssumption
         DEF Release, Goto, Pending, WriteSteps, TypeOK, WriterWrites
    <3> QED BY <3>1 DEF RepairPending, StaleWriteIsFollowed
  <2>2. CASE ~lastDropped
    <3>1. leaseHeld /\ leaseHeld'
      BY <1>6, <2>2 DEF Release, lastDropped, leaseHeld, dropLease, TypeOK
    <3>2. Pending' = Pending /\ UNCHANGED <<up, leased, writer, held, gaveUp>>
      BY <1>6, <2>2 DEF Release, Goto, Pending, WriteSteps, TypeOK
    <3> QED BY <3>1, <3>2 DEF RepairPending, StaleWriteIsFollowed
  <2> QED BY <2>1, <2>2
<1>7. ASSUME Crash PROVE (RepairPending /\ StaleWriteIsFollowed)'
  BY <1>7 DEF Crash, RepairPending, StaleWriteIsFollowed
<1>8. ASSUME Boot PROVE (RepairPending /\ StaleWriteIsFollowed)'
  <2>1. leaseHeld' = FALSE /\ writer' = NoStream
    BY <1>8 DEF Boot, DownIsEmpty, leaseHeld
  <2>2. leased' = FALSE \/ gaveUp'
    BY <1>8 DEF Boot
  <2> QED BY <2>1, <2>2 DEF RepairPending, StaleWriteIsFollowed
<1>9. ASSUME UNCHANGED vars PROVE (RepairPending /\ StaleWriteIsFollowed)'
  BY <1>9 DEF vars, RepairPending, StaleWriteIsFollowed, Pending, leaseHeld
<1> QED BY <1>1, <1>2, <1>3, <1>4, <1>5, <1>6, <1>7, <1>8, <1>9 DEF Next, Step

(* Whichever writes fail, the column says what the count says once every   *)
(* handler has written, unless the last of them was abandoned after its    *)
(* retry; and a stale write is always followed by another.                 *)
THEOREM FlagTheorem == Spec => [](FlagAgrees /\ StaleWriteIsFollowed)
<1>1. Init => FlagInv
  <2> SUFFICES ASSUME Init PROVE RepairPending /\ StaleWriteIsFollowed
    BY LeaseInvInit DEF FlagInv
  <2>1. leased = FALSE /\ writer = NoStream /\ count = 0
    BY DEF Init
  <2>2. leaseHeld = FALSE
    BY <2>1 DEF leaseHeld
  <2> QED BY <2>1, <2>2 DEF RepairPending, StaleWriteIsFollowed
<1>2. Spec => []FlagInv
  BY <1>1, FlagInvNext, PTL DEF Spec
<1>3. FlagInv => FlagAgrees /\ StaleWriteIsFollowed
  <2> SUFFICES ASSUME FlagInv, Settled, ~gaveUp PROVE leased <=> leaseHeld
    BY DEF FlagInv, FlagAgrees
  <2>1. writer = NoStream
    BY DEF Settled, Pending, FlagInv, LeaseInv, WriterWrites, TypeOK
  <2> QED BY <2>1 DEF FlagInv, RepairPending, Settled
<1> QED BY <1>2, <1>3, PTL

(* The four together: what the services run checks on two streams.         *)
THEOREM LeasesTheorem == Spec => []LeasesSafe
  BY CountTheorem, FlagTheorem, PTL DEF LeasesSafe

--------------------------------------------------------------------------------

(* A step of the protocol is a step of the lease of GLOSSARY.md, or none.  *)
LEMMA LeaseStep == LeaseInv /\ LeaseInv' /\ [Next]_vars => [Lease!Next]_(Lease!vars)
<1> SUFFICES ASSUME LeaseInv, LeaseInv', [Next]_vars PROVE [Lease!Next]_(Lease!vars)
  OBVIOUS
<1> USE DEF LeaseInv
<1>0. /\ rowLeased \in BOOLEAN /\ rowLeased' \in BOOLEAN
      /\ Playing \subseteq Holders /\ Playing' \subseteq Holders'
  BY DEF rowLeased, leaseHeld, TypeOK, Playing, Holders
<1>1. Playing # {} => rowLeased
  BY <1>0, HolderCounts DEF rowLeased, leaseHeld, TypeOK
<1>2. Playing' # {} => rowLeased'
  <2> SUFFICES ASSUME NEW t \in Playing' PROVE rowLeased'
    OBVIOUS
  <2>1. Holders' # {} /\ IsFiniteSet(Holders')
    BY <1>0, StreamsAssumption, FS_Subset DEF Holders
  <2>2. Cardinality(Holders') # 0 /\ Cardinality(Holders') \in Nat
    BY <2>1, FS_EmptySet, FS_CardinalityType
  <2> QED BY <2>2 DEF CountIsExact, rowLeased, leaseHeld
(* Whatever leaves the set of readers alone is a Raise, a Lower or nothing. *)
<1>3. ASSUME Playing' = Playing PROVE [Lease!Next]_(Lease!vars)
  <2>1. CASE rowLeased' = rowLeased
    BY <2>1, <1>3 DEF Lease!vars
  <2>2. CASE rowLeased /\ ~rowLeased'
    <3>1. Playing = {}
      BY <1>2, <1>3, <2>2
    <3> QED BY <1>0, <1>3, <2>2, <3>1 DEF Lease!Next, Lease!Lower
  <2>3. CASE ~rowLeased /\ rowLeased'
    BY <1>0, <1>3, <2>3 DEF Lease!Next, Lease!Raise
  <2> QED BY <1>0, <2>1, <2>2, <2>3
<1>4. ASSUME NEW s \in Streams, Acquire(s) PROVE Playing' = Playing
  BY <1>4 DEF Acquire, Goto, Playing, TypeOK
<1>5. ASSUME NEW s \in Streams, BeginWrite(s) PROVE Playing' = Playing
  BY <1>5 DEF BeginWrite, Playing
<1>6. ASSUME NEW s \in Streams, EndWrite(s) PROVE [Lease!Next]_(Lease!vars)
  <2>0. pc[s] \in WriteSteps
    BY <1>6, StreamsAssumption DEF EndWrite, WriterWrites
  <2>1. CASE pc[s] = "persist"
    <3>1. s \notin Playing /\ Playing' = Playing \cup {s}
      BY <1>6, <2>1 DEF EndWrite, Goto, AfterWrite, Playing, TypeOK
    <3>2. s \in Holders
      BY <2>1 DEF Holders
    <3>3. count >= 1 /\ count' = count
      BY <1>6, <3>2, HolderCounts DEF EndWrite
    <3>4. rowLeased = TRUE /\ rowLeased' = TRUE
      BY <3>3 DEF rowLeased, leaseHeld, TypeOK
    <3> QED BY <3>1, <3>4 DEF Lease!Next, Lease!Join
  <2>2. CASE pc[s] # "persist"
    <3>1. Playing' = Playing
      BY <1>6, <2>0, <2>2
         DEF EndWrite, Goto, AfterWrite, Playing, TypeOK, WriteSteps
    <3> QED BY <3>1, <1>3
  <2> QED BY <2>1, <2>2
<1>7. ASSUME NEW s \in Streams, FailWrite(s) PROVE Playing' = Playing
  <2>0. pc[s] \in WriteSteps
    BY <1>7, StreamsAssumption DEF FailWrite, WriterWrites
  <2> QED BY <1>7, <2>0 DEF FailWrite, Goto, AfterFault, Playing, TypeOK, WriteSteps
<1>8. ASSUME NEW s \in Streams, AbortAcquire(s) PROVE Playing' = Playing
  BY <1>8 DEF AbortAcquire, Goto, Playing, TypeOK
<1>9. ASSUME NEW s \in Streams, Release(s) PROVE [Lease!Next]_(Lease!vars)
  <2>1. s \in Playing /\ Playing' = Playing \ {s}
    BY <1>9 DEF Release, Goto, Playing, TypeOK
  <2> QED BY <1>0, <1>2, <2>1 DEF Lease!Next, Lease!Leave
<1>10. ASSUME Crash PROVE [Lease!Next]_(Lease!vars)
  <2>1. Playing' = {}
    BY <1>10 DEF Crash, Playing
  <2> QED BY <1>0, <2>1 DEF Lease!Next, Lease!Restart
<1>11. ASSUME Boot PROVE Playing' = Playing
  BY <1>11 DEF Boot, Playing
<1>12. ASSUME UNCHANGED vars PROVE Playing' = Playing
  BY <1>12 DEF vars, Playing
<1> QED BY <1>3, <1>4, <1>5, <1>6, <1>7, <1>8, <1>9, <1>10, <1>11, <1>12
        DEF Next, Step

(* Whatever writes fail, and across crashes and restarts, the count and    *)
(* the column implement the lease of GLOSSARY.md: a download that a stream *)
(* is reading is reported as leased to Manage and to evictNext.            *)
THEOREM LeaseRefinement == Spec => LeaseSpec
<1>1. Init => Lease!Init
  <2> SUFFICES ASSUME Init PROVE Lease!Init
    OBVIOUS
  <2>1. Playing = {}
    BY DEF Init, Playing
  <2>2. leased = FALSE /\ count = 0
    BY DEF Init
  <2>3. rowLeased = FALSE
    BY <2>2 DEF rowLeased, leaseHeld
  <2> QED BY <2>1, <2>3 DEF Lease!Init
<1>2. Spec => []LeaseInv
  BY LeaseInvInit, LeaseInvNext, PTL DEF Spec
<1> QED BY <1>1, <1>2, LeaseStep, PTL DEF Spec, LeaseSpec, Lease!Spec
--------------------------------------------------------------------------------
(* The least of some numbers, and what appending does to a list in which   *)
(* nothing appears twice.                                                  *)

LEMMA LeastOf ==
  ASSUME NEW S \in SUBSET Nat, S # {}
  PROVE  \E m \in S : \A n \in S : m <= n
<1>1. PICK m \in S : \A n \in S : ~(<<n, m>> \in OpToRel(<, Nat))
  BY NatLessThanWellFounded, WFMin, Zenon
<1>2. \A n \in S : ~(n < m)
  BY <1>1 DEF OpToRel
<1> QED BY <1>2

LEMMA AppendIs ==
  ASSUME NEW S, NEW s \in Seq(S), IsInjective(s), NEW x \in S, x \notin ToSet(s)
  PROVE  /\ Append(s, x) \in Seq(S) /\ IsInjective(Append(s, x))
         /\ ToSet(Append(s, x)) = ToSet(s) \cup {x}
<1> DEFINE w == Append(s, x)
<1>1. /\ w \in Seq(S) /\ Len(w) = Len(s) + 1 /\ DOMAIN w = 1..(Len(s) + 1)
      /\ w[Len(s) + 1] = x /\ \A j \in 1..Len(s) : w[j] = s[j]
  OBVIOUS
<1>2. DOMAIN s = 1..Len(s) /\ Len(s) \in Nat /\ \A j \in 1..Len(s) : s[j] # x
  BY DEF ToSet
<1> HIDE DEF w
<1>3. IsInjective(w)
  BY <1>1, <1>2 DEF IsInjective
<1>4. ToSet(w) = ToSet(s) \cup {x}
  <2>1. ASSUME NEW y \in ToSet(w) PROVE y \in ToSet(s) \cup {x}
    <3>1. PICK j \in 1..(Len(s) + 1) : w[j] = y
      BY <1>1 DEF ToSet
    <3>2. CASE j = Len(s) + 1
      BY <3>1, <3>2, <1>1
    <3>3. CASE j \in 1..Len(s)
      BY <3>1, <3>3, <1>1, <1>2 DEF ToSet
    <3> QED BY <3>1, <3>2, <3>3, <1>2
  <2>2. ASSUME NEW y \in ToSet(s) \cup {x} PROVE y \in ToSet(w)
    <3>1. CASE y = x
      BY <3>1, <1>1, <1>2 DEF ToSet
    <3>2. CASE y \in ToSet(s)
      BY <3>2, <1>1, <1>2 DEF ToSet
    <3> QED BY <2>2, <3>1, <3>2
  <2> QED BY <2>1, <2>2
<1> QED BY <1>1, <1>3, <1>4 DEF w

-----------------------------------------------------------------------------
(* The household: the inductive invariant.  A handler that has not been    *)
(* overtaken holds the row as it is.                                       *)

HouseholdCalls == [at: {"idle", "report", "mark"}, source: Sources \cup {"none"},
                   row: PlaybackRow, pos: Nat, dur: Nat, mark: BOOLEAN, stale: BOOLEAN]

HouseholdRowsInv ==
    \A h \in Handlers : call[h].at # "idle" =>
        /\ call[h].source \in Sources
        /\ ~call[h].stale => call[h].row = playback[call[h].source]

HouseholdInv == HouseholdTypeOK /\ HouseholdRowsInv /\ MarksStay

LEMMA NoCallIs ==
  /\ NoPlayback \in PlaybackRow /\ NoPlayback.at = 0 /\ NoPlayback.watched = FALSE
  /\ NoCall \in HouseholdCalls /\ NoCall.at = "idle"
<1>1. 0 \in 0..MaxSeconds
  BY HouseholdAssumption
<1>2. NoPlayback \in PlaybackRow /\ NoPlayback.at = 0 /\ NoPlayback.watched = FALSE
  BY <1>1 DEF NoPlayback, PlaybackRow
<1>3. NoCall \in HouseholdCalls
  BY <1>2 DEF NoCall, HouseholdCalls
<1> QED BY <1>2, <1>3 DEF NoCall

LEMMA CountedIs ==
  ASSUME HouseholdInv, Counted
  PROVE  reports' \in 0..MaxReports
BY HouseholdAssumption DEF HouseholdInv, HouseholdTypeOK, Counted

(* A handler reads its row.                                                *)
LEMMA ReadKeeps ==
  ASSUME HouseholdInv, NEW h \in Handlers, NEW k \in HouseholdCalls,
         call' = [call EXCEPT ![h] = k], k.source \in Sources, k.row = playback[k.source],
         Counted, UNCHANGED <<playback, managed, liked, seconds, marked>>
  PROVE  HouseholdInv'
<1>1. HouseholdTypeOK'
  <2>1. call' \in [Handlers -> HouseholdCalls]
    BY DEF HouseholdInv, HouseholdTypeOK, HouseholdCalls
  <2> QED BY <2>1, CountedIs DEF HouseholdInv, HouseholdTypeOK, HouseholdCalls
<1>2. HouseholdRowsInv'
  <2>1. call'[h] = k /\ \A d \in Handlers : d # h => call'[d] = call[d]
    BY DEF HouseholdInv, HouseholdTypeOK
  <2> QED BY <2>1 DEF HouseholdInv, HouseholdRowsInv
<1> QED BY <1>1, <1>2 DEF HouseholdInv, MarksStay

LEMMA UpdatePlaybackReadsKeeps ==
  ASSUME HouseholdInv, NEW h \in Handlers, NEW s \in Sources, NEW x \in Positions,
         UpdatePlaybackReads(h, s, x[1], x[2])
  PROVE  HouseholdInv'
<1> DEFINE p == IF x[2] > 0 /\ x[1] > x[2] THEN x[2] ELSE x[1]
           k == [NoCall EXCEPT !.at = "report", !.source = s, !.row = playback[s],
                               !.dur = x[2], !.pos = p]
<1>1. x[1] \in Nat /\ x[2] \in Nat /\ p \in Nat
  BY HouseholdAssumption
<1>2. playback[s] \in PlaybackRow
  BY DEF HouseholdInv, HouseholdTypeOK
<1> HIDE DEF p
<1>3. k \in HouseholdCalls /\ k.source = s /\ k.row = playback[s]
  BY <1>1, <1>2, NoCallIs DEF HouseholdCalls
<1>4. /\ call' = [call EXCEPT ![h] = k] /\ Counted
      /\ UNCHANGED <<playback, managed, liked, seconds, marked>>
  BY DEF UpdatePlaybackReads, p
<1> HIDE DEF k
<1> QED BY <1>3, <1>4, ReadKeeps

LEMMA SetWatchedReadsKeeps ==
  ASSUME HouseholdInv, NEW h \in Handlers, NEW s \in Sources, NEW mark \in BOOLEAN,
         SetWatchedReads(h, s, mark)
  PROVE  HouseholdInv'
<1> DEFINE k == [NoCall EXCEPT !.at = "mark", !.source = s, !.row = playback[s], !.mark = mark]
<1>1. playback[s] \in PlaybackRow
  BY DEF HouseholdInv, HouseholdTypeOK
<1>2. k \in HouseholdCalls /\ k.source = s /\ k.row = playback[s]
  BY <1>1, NoCallIs DEF HouseholdCalls
<1>3. /\ call' = [call EXCEPT ![h] = k] /\ Counted
      /\ UNCHANGED <<playback, managed, liked, seconds, marked>>
  BY DEF SetWatchedReads
<1> HIDE DEF k
<1> QED BY <1>2, <1>3, ReadKeeps

(* A handler saves its row: the others that have read it are overtaken.    *)
LEMMA SaveKeeps ==
  ASSUME HouseholdInv, NEW h \in Handlers, NEW s \in Sources, NEW row \in PlaybackRow,
         SavePlayback(h, s, row), row.at = seconds, NEW m \in BOOLEAN, m => row.watched,
         marked' = [marked EXCEPT ![s] = m], UNCHANGED <<managed, liked, seconds, reports>>
  PROVE  HouseholdInv'
<1>1. /\ playback' \in [Sources -> PlaybackRow] /\ playback'[s] = row
      /\ \A r \in Sources : r # s => playback'[r] = playback[r]
  BY DEF HouseholdInv, HouseholdTypeOK, SavePlayback
<1>2. /\ marked' \in [Sources -> BOOLEAN] /\ marked'[s] = m
      /\ \A r \in Sources : r # s => marked'[r] = marked[r]
  BY DEF HouseholdInv, HouseholdTypeOK
<1>3. ASSUME NEW d \in Handlers
      PROVE  /\ call'[d] \in HouseholdCalls
             /\ d = h => call'[d].at = "idle"
             /\ d # h => /\ call'[d].at = call[d].at /\ call'[d].source = call[d].source
                         /\ call'[d].row = call[d].row
                         /\ ~call'[d].stale =>
                               ~call[d].stale /\ (call[d].at = "idle" \/ call[d].source # s)
  <2>1. CASE d = h
    <3>1. call'[d] = NoCall
      BY <2>1 DEF SavePlayback
    <3> QED BY <2>1, <3>1, NoCallIs
  <2>2. CASE d # h
    <3> DEFINE st == call[d].stale \/ (call[d].at # "idle" /\ call[d].source = s)
    <3>1. call[d] \in HouseholdCalls
      BY DEF HouseholdInv, HouseholdTypeOK, HouseholdCalls
    <3>2. st \in BOOLEAN
      BY <3>1 DEF HouseholdCalls
    <3>3. call'[d] = [call[d] EXCEPT !.stale = st]
      BY <2>2 DEF SavePlayback
    <3>4. ~st => ~call[d].stale /\ (call[d].at = "idle" \/ call[d].source # s)
      OBVIOUS
    <3> HIDE DEF st
    <3>5. /\ call'[d] \in HouseholdCalls /\ call'[d].stale = st
          /\ call'[d].at = call[d].at /\ call'[d].source = call[d].source
          /\ call'[d].row = call[d].row
      BY <3>1, <3>2, <3>3 DEF HouseholdCalls
    <3>6. ~call'[d].stale => ~call[d].stale /\ (call[d].at = "idle" \/ call[d].source # s)
      BY <3>4, <3>5
    <3> QED BY <2>2, <3>5, <3>6
  <2> QED BY <2>1, <2>2
<1>4. HouseholdTypeOK'
  <2>1. call' \in [Handlers -> HouseholdCalls]
    BY <1>3 DEF SavePlayback
  <2>2. \A r \in Sources : playback'[r].at <= seconds
    <3>1. seconds \in Nat /\ seconds <= seconds
      BY HouseholdAssumption DEF HouseholdInv, HouseholdTypeOK
    <3> QED BY <3>1, <1>1 DEF HouseholdInv, HouseholdTypeOK
  <2> QED BY <1>1, <1>2, <2>1, <2>2 DEF HouseholdInv, HouseholdTypeOK, HouseholdCalls
<1>5. HouseholdRowsInv'
  <2> SUFFICES ASSUME NEW d \in Handlers, call'[d].at # "idle"
               PROVE  /\ call'[d].source \in Sources
                      /\ ~call'[d].stale => call'[d].row = playback'[call'[d].source]
    BY DEF HouseholdRowsInv
  <2>1. d # h /\ call[d].at # "idle"
    BY <1>3
  <2>2. call[d].source \in Sources /\ (~call[d].stale => call[d].row = playback[call[d].source])
    BY <2>1 DEF HouseholdInv, HouseholdRowsInv
  <2>3. call'[d].source \in Sources
    BY <1>3, <2>1, <2>2
  <2>4. ASSUME ~call'[d].stale PROVE call'[d].row = playback'[call'[d].source]
    <3>1. ~call[d].stale /\ call[d].source # s
      BY <1>3, <2>1, <2>4
    <3> QED BY <3>1, <1>1, <1>3, <2>1, <2>2
  <2> QED BY <2>3, <2>4
<1>6. MarksStay'
  <2> SUFFICES ASSUME NEW r \in Sources, marked'[r] PROVE playback'[r].watched
    BY DEF MarksStay
  <2>1. CASE r = s
    BY <2>1, <1>1, <1>2
  <2>2. CASE r # s
    BY <2>2, <1>1, <1>2 DEF HouseholdInv, MarksStay
  <2> QED BY <2>1, <2>2
<1> QED BY <1>4, <1>5, <1>6 DEF HouseholdInv

LEMMA UpdatePlaybackSavesKeeps ==
  ASSUME HouseholdInv, NEW h \in Handlers, UpdatePlaybackSaves(h)
  PROVE  HouseholdInv'
<1> DEFINE s == call[h].source
           now == Watched(call[h].row, call[h].pos, call[h].dur)
           row == [saved |-> TRUE, pos |-> call[h].pos, dur |-> call[h].dur,
                   watched |-> now, at |-> seconds]
           stays == \/ call[h].pos = 0 \/ call[h].dur = 0
                    \/ call[h].pos * 200 >= call[h].dur * Threshold
           m == marked[s] /\ ~call[h].stale /\ stays
<1>1. call[h].at = "report" /\ s \in Sources /\ (~call[h].stale => call[h].row = playback[s])
  BY DEF UpdatePlaybackSaves, HouseholdInv, HouseholdRowsInv
<1>2. call[h] \in HouseholdCalls /\ seconds \in 0..MaxSeconds /\ marked[s] \in BOOLEAN
  BY <1>1 DEF HouseholdInv, HouseholdTypeOK, HouseholdCalls
<1>3. call[h].pos \in Nat /\ call[h].dur \in Nat /\ call[h].stale \in BOOLEAN
      /\ call[h].row.watched \in BOOLEAN
  BY <1>2 DEF HouseholdCalls, PlaybackRow
<1>4. now \in BOOLEAN
  BY <1>3 DEF Watched, Near, WellShort
<1>5. m => now
  <2> SUFFICES ASSUME m PROVE now
    OBVIOUS
  <2>1. call[h].row.watched
    BY <1>1 DEF HouseholdInv, MarksStay
  <2>2. ~WellShort(call[h].pos, call[h].dur)
    <3> DEFINE a == call[h].pos * 200
               b == call[h].dur * Threshold
    <3>1. a \in Int /\ b \in Int
      BY <1>3, HouseholdAssumption
    <3>2. call[h].pos = 0 \/ call[h].dur = 0 \/ a >= b
      OBVIOUS
    <3> HIDE DEF a, b
    <3>3. ~(call[h].pos > 0 /\ call[h].dur > 0 /\ a < b)
      BY <3>1, <3>2, <1>3
    <3> QED BY <3>3 DEF WellShort, a, b
  <2> QED BY <2>1, <2>2 DEF Watched
<1>6. /\ SavePlayback(h, s, row) /\ marked' = [marked EXCEPT ![s] = m]
      /\ UNCHANGED <<managed, liked, seconds, reports>>
  <2>1. marked' = [marked EXCEPT ![s] = @ /\ ~call[h].stale /\ stays]
    BY DEF UpdatePlaybackSaves
  <2>2. marked' = [marked EXCEPT ![s] = m]
    BY <2>1
  <2> QED BY <2>2 DEF UpdatePlaybackSaves
<1>7. m \in BOOLEAN
  BY <1>2, <1>3
<1> HIDE DEF now, m
<1>8. row \in PlaybackRow /\ row.at = seconds /\ row.watched = now
  BY <1>2, <1>3, <1>4 DEF PlaybackRow
<1> HIDE DEF row
<1>9. m => row.watched
  BY <1>5, <1>8
<1> QED BY <1>1, <1>6, <1>7, <1>8, <1>9, SaveKeeps

LEMMA SetWatchedSavesKeeps ==
  ASSUME HouseholdInv, NEW h \in Handlers, SetWatchedSaves(h)
  PROVE  HouseholdInv'
<1> DEFINE s == call[h].source
           m == call[h].mark
           p == IF ~m THEN 0 ELSE IF call[h].row.dur > 0 THEN call[h].row.dur
                                  ELSE call[h].row.pos
           row == [saved |-> TRUE, dur |-> call[h].row.dur, watched |-> m, at |-> seconds,
                   pos |-> p]
<1>1. call[h].at = "mark" /\ s \in Sources
  BY DEF SetWatchedSaves, HouseholdInv, HouseholdRowsInv
<1>2. call[h] \in HouseholdCalls /\ seconds \in 0..MaxSeconds
  BY <1>1 DEF HouseholdInv, HouseholdTypeOK, HouseholdCalls
<1>3. call[h].row.pos \in Nat /\ call[h].row.dur \in Nat /\ m \in BOOLEAN
  BY <1>2 DEF HouseholdCalls, PlaybackRow
<1>4. p \in Nat
  BY <1>3
<1>5. /\ SavePlayback(h, s, row) /\ marked' = [marked EXCEPT ![s] = m]
      /\ UNCHANGED <<managed, liked, seconds, reports>>
  BY DEF SetWatchedSaves
<1> HIDE DEF m, p
<1>6. row \in PlaybackRow /\ row.at = seconds /\ row.watched = m
  BY <1>2, <1>3, <1>4 DEF PlaybackRow
<1> HIDE DEF row
<1>7. m => row.watched
  BY <1>6
<1> QED BY <1>1, <1>3, <1>5, <1>6, <1>7, SaveKeeps

LEMMA HouseholdRestKeeps ==
  ASSUME HouseholdInv,
         \/ \E s \in Sources : ManageSource(s)
         \/ \E t \in HouseholdTitles : SetTitleFavorite(t)
         \/ SecondPasses \/ UNCHANGED householdVars
  PROVE  HouseholdInv'
<1>1. ASSUME NEW s \in Sources, ManageSource(s) PROVE HouseholdInv'
  <2>1. managed' \in [Sources -> -1..seconds] /\ seconds' = seconds
    <3>1. seconds \in Nat
      BY HouseholdAssumption DEF HouseholdInv, HouseholdTypeOK
    <3>2. -1 \in -1..seconds /\ seconds \in -1..seconds
      BY <3>1
    <3> QED BY <1>1, <3>2 DEF ManageSource, HouseholdInv, HouseholdTypeOK
  <2> QED BY <1>1, <2>1, CountedIs
          DEF ManageSource, HouseholdInv, HouseholdTypeOK, HouseholdRowsInv, MarksStay
<1>2. ASSUME NEW t \in HouseholdTitles, SetTitleFavorite(t) PROVE HouseholdInv'
  BY <1>2, CountedIs
     DEF SetTitleFavorite, HouseholdInv, HouseholdTypeOK, HouseholdRowsInv, MarksStay
<1>3. CASE SecondPasses
  <2>1. seconds' \in 0..MaxSeconds /\ seconds' >= seconds /\ seconds \in Nat /\ seconds' \in Nat
    BY <1>3, HouseholdAssumption DEF SecondPasses, HouseholdInv, HouseholdTypeOK
  <2>2. managed' \in [Sources -> -1..seconds']
    <3>1. \A n \in -1..seconds : n \in -1..seconds'
      BY <2>1
    <3> QED BY <1>3, <3>1 DEF SecondPasses, HouseholdInv, HouseholdTypeOK
  <2>3. \A s \in Sources : playback'[s].at <= seconds'
    <3> SUFFICES ASSUME NEW s \in Sources PROVE playback[s].at <= seconds'
      BY <1>3 DEF SecondPasses
    <3>1. playback[s] \in PlaybackRow /\ playback[s].at <= seconds
      BY DEF HouseholdInv, HouseholdTypeOK
    <3>2. playback[s].at \in Nat
      BY <3>1, HouseholdAssumption DEF PlaybackRow
    <3> QED BY <2>1, <3>1, <3>2
  <2> QED BY <1>3, <2>1, <2>2, <2>3
          DEF SecondPasses, HouseholdInv, HouseholdTypeOK, HouseholdRowsInv, MarksStay
<1>4. CASE UNCHANGED householdVars
  <2>1. UNCHANGED <<playback, managed, liked, call, seconds, reports, marked>>
    BY <1>4 DEF householdVars
  <2> QED BY <2>1 DEF HouseholdInv, HouseholdTypeOK, HouseholdRowsInv, MarksStay
<1> QED BY <1>1, <1>2, <1>3, <1>4

LEMMA HouseholdInvInit ==
  ASSUME HouseholdInit
  PROVE  HouseholdInv
<1>1. 0 \in 0..MaxSeconds /\ 0 \in 0..MaxReports /\ 0 \in -1..0 /\ 0 <= 0
  BY HouseholdAssumption
<1>2. HouseholdTypeOK
  BY <1>1, NoCallIs DEF HouseholdInit, HouseholdTypeOK, HouseholdCalls
<1> QED BY <1>2, NoCallIs DEF HouseholdInit, HouseholdInv, HouseholdRowsInv, MarksStay

(* The lists: after n rows, a list has the first titles of the rows that   *)
(* belong in it, up to its length.                                         *)
Firsts(order, rows) ==
    {i \in DOMAIN order :
        /\ order[i] \in rows
        /\ \A j \in 1..i - 1 : order[j] \in rows =>
              TitleOfSource[order[j]] # TitleOfSource[order[i]]}

Rank(order, rows, k) == Cardinality({j \in Firsts(order, rows) : j <= k})

Lists0 == [recent: Seq(HouseholdTitles), watched: Seq(HouseholdTitles),
           continue: Seq(HouseholdTitles)]

ListIs(list, order, rows, cap, n) ==
    /\ list \in Seq(HouseholdTitles) /\ IsInjective(list)
    /\ ToSet(list) = {TitleOfSource[order[i]] :
          i \in {k \in Firsts(order, rows) : k <= n /\ Rank(order, rows, k) <= cap}}
    /\ Len(list) = IF Rank(order, rows, n) <= cap THEN Rank(order, rows, n) ELSE cap

LEMMA FirstsAre ==
  ASSUME NEW order \in Seq(Sources), NEW rows
  PROVE  /\ Firsts(order, rows) \subseteq 1..Len(order)
         /\ \A k : IsFiniteSet({j \in Firsts(order, rows) : j <= k})
                   /\ Rank(order, rows, k) \in Nat
<1>1. Firsts(order, rows) \subseteq 1..Len(order) /\ Len(order) \in Nat
  BY DEF Firsts
<1>2. IsFiniteSet(1..Len(order))
  BY <1>1, FS_Interval
<1>3. ASSUME NEW k PROVE IsFiniteSet({j \in Firsts(order, rows) : j <= k})
  <2>1. {j \in Firsts(order, rows) : j <= k} \subseteq 1..Len(order)
    BY <1>1
  <2> QED BY <1>2, <2>1, FS_Subset
<1> QED BY <1>1, <1>3, FS_CardinalityType DEF Rank

LEMMA RankGrows ==
  ASSUME NEW order \in Seq(Sources), NEW rows, NEW n \in Nat
  PROVE  Rank(order, rows, n + 1) =
           IF n + 1 \in Firsts(order, rows) THEN Rank(order, rows, n) + 1 ELSE Rank(order, rows, n)
<1> DEFINE A == {j \in Firsts(order, rows) : j <= n}
           B == {j \in Firsts(order, rows) : j <= n + 1}
<1>0. Firsts(order, rows) \subseteq Nat
  BY FirstsAre
<1>1. IsFiniteSet(A)
  BY FirstsAre
<1>2. n + 1 \notin A
  OBVIOUS
<1>3. CASE n + 1 \in Firsts(order, rows)
  <2>1. B = A \cup {n + 1}
    BY <1>0, <1>3
  <2> HIDE DEF A, B
  <2>2. Cardinality(A \cup {n + 1}) = Cardinality(A) + 1
    BY <1>1, <1>2, FS_AddElement
  <2> QED BY <1>3, <2>1, <2>2 DEF Rank, A, B
<1>4. CASE n + 1 \notin Firsts(order, rows)
  <2>1. B = A
    BY <1>0, <1>4
  <2> QED BY <1>4, <2>1 DEF Rank
<1> QED BY <1>3, <1>4

LEMMA RankIsMonotone ==
  ASSUME NEW order \in Seq(Sources), NEW rows, NEW n \in Nat, NEW m \in Nat, m <= n
  PROVE  Rank(order, rows, m) <= Rank(order, rows, n)
<1>0. Firsts(order, rows) \subseteq Nat
  BY FirstsAre
<1>1. {j \in Firsts(order, rows) : j <= m} \subseteq {j \in Firsts(order, rows) : j <= n}
  BY <1>0
<1>2. IsFiniteSet({j \in Firsts(order, rows) : j <= n})
  BY FirstsAre
<1> QED BY <1>1, <1>2, FS_Subset DEF Rank

(* The row of a title that comes first is one of the firsts.               *)
LEMMA FirstOfTitle ==
  ASSUME NEW order \in Seq(Sources), NEW rows, NEW n \in 1..Len(order), order[n] \in rows
  PROVE  \E i \in Firsts(order, rows) :
            i <= n /\ TitleOfSource[order[i]] = TitleOfSource[order[n]]
<1> DEFINE S == {i \in 1..n : order[i] \in rows
                              /\ TitleOfSource[order[i]] = TitleOfSource[order[n]]}
<1>1. n \in S /\ S \in SUBSET Nat /\ S # {}
  OBVIOUS
<1>2. PICK i \in S : \A j \in S : i <= j
  <2> HIDE DEF S
  <2> QED BY <1>1, LeastOf
<1>3. i \in 1..n /\ order[i] \in rows /\ TitleOfSource[order[i]] = TitleOfSource[order[n]]
  BY <1>2
<1>4. ASSUME NEW j \in 1..i - 1, order[j] \in rows
      PROVE  TitleOfSource[order[j]] # TitleOfSource[order[i]]
  <2>1. j \in 1..n /\ ~(i <= j)
    BY <1>3
  <2>2. j \notin S
    <3> HIDE DEF S
    <3> QED BY <1>2, <2>1
  <2> QED BY <1>3, <1>4, <2>1, <2>2
<1>5. i \in Firsts(order, rows)
  <2>1. i \in 1..Len(order) /\ DOMAIN order = 1..Len(order)
    BY <1>3
  <2> QED BY <1>3, <1>4, <2>1 DEF Firsts
<1> QED BY <1>3, <1>5

LEMMA FirstsDiffer ==
  ASSUME NEW order \in Seq(Sources), NEW rows, NEW i \in Firsts(order, rows),
         NEW k \in Firsts(order, rows), i < k
  PROVE  TitleOfSource[order[i]] # TitleOfSource[order[k]]
<1>1. i \in 1..k - 1 /\ order[i] \in rows
  BY FirstsAre DEF Firsts
<1> QED BY <1>1 DEF Firsts

(* One row, for one list.                                                  *)
LEMMA TakenIs ==
  ASSUME NEW order \in Seq(Sources), NEW rows, NEW cap \in Nat, NEW n \in Nat, n < Len(order),
         NEW list, ListIs(list, order, rows, cap, n)
  PROVE  ListIs(IF order[n + 1] \in rows
                THEN Taken(list, cap, TitleOfSource[order[n + 1]]) ELSE list,
                order, rows, cap, n + 1)
<1> DEFINE F == Firsts(order, rows)
           t == TitleOfSource[order[n + 1]]
           K(m) == {k \in F : k <= m /\ Rank(order, rows, k) <= cap}
           T(m) == {TitleOfSource[order[i]] : i \in K(m)}
           r == Rank(order, rows, n)
<1>0. /\ n + 1 \in 1..Len(order) /\ order[n + 1] \in Sources /\ t \in HouseholdTitles
      /\ F \subseteq 1..Len(order) /\ F \subseteq Nat /\ Len(order) \in Nat
  BY FirstsAre DEF HouseholdTitles
<1>1. /\ list \in Seq(HouseholdTitles) /\ IsInjective(list) /\ ToSet(list) = T(n)
      /\ Len(list) = IF r <= cap THEN r ELSE cap
  BY DEF ListIs
<1>2. r \in Nat /\ \A k \in Nat : Rank(order, rows, k) \in Nat
  BY FirstsAre
<1> HIDE DEF r
<1>3. CASE n + 1 \notin F
  <2>1. Rank(order, rows, n + 1) = r
    BY <1>3, RankGrows DEF r
  <2>2. K(n + 1) = K(n)
    BY <1>0, <1>3
  <2>3. ListIs(list, order, rows, cap, n + 1)
    BY <1>1, <2>1, <2>2 DEF ListIs
  <2>4. CASE order[n + 1] \in rows
    <3>1. PICK i \in F : i <= n + 1 /\ TitleOfSource[order[i]] = t
      BY <1>0, <2>4, FirstOfTitle
    <3>2. i <= n /\ i \in Nat
      BY <1>0, <1>3, <3>1
    <3>3. CASE t \in ToSet(list)
      BY <2>3, <2>4, <3>3 DEF Taken
    <3>4. CASE t \notin ToSet(list)
      <4>1. i \notin K(n)
        BY <1>1, <3>1, <3>4
      <4>2. ~(Rank(order, rows, i) <= cap)
        BY <3>1, <3>2, <4>1
      <4>3. Rank(order, rows, i) <= r /\ Rank(order, rows, i) \in Nat
        BY <1>2, <3>2, RankIsMonotone DEF r
      <4>4. Len(list) = cap
        BY <1>1, <1>2, <4>2, <4>3
      <4>5. ~(Len(list) < cap)
        BY <4>4
      <4> QED BY <2>3, <2>4, <4>5 DEF Taken
    <3> QED BY <3>3, <3>4
  <2>5. CASE order[n + 1] \notin rows
    BY <2>3, <2>5
  <2> QED BY <2>4, <2>5
<1>4. CASE n + 1 \in F
  <2>1. Rank(order, rows, n + 1) = r + 1
    BY <1>4, RankGrows DEF r
  <2>2. order[n + 1] \in rows
    BY <1>4 DEF Firsts
  <2>3. t \notin ToSet(list)
    <3> SUFFICES ASSUME NEW i \in K(n), TitleOfSource[order[i]] = t PROVE FALSE
      BY <1>1
    <3>1. i \in F /\ i < n + 1
      BY <1>0
    <3> QED BY <3>1, <1>4, FirstsDiffer
  <2>4. CASE Len(list) < cap
    <3>1. r < cap /\ Len(list) = r
      BY <1>1, <1>2, <2>4
    <3>2. K(n + 1) = K(n) \cup {n + 1}
      <4>1. Rank(order, rows, n + 1) <= cap
        BY <1>2, <2>1, <3>1
      <4>2. \A k \in F : k <= n + 1 <=> k <= n \/ k = n + 1
        BY <1>0
      <4> QED BY <1>4, <4>1, <4>2
    <3>3. T(n + 1) = T(n) \cup {t}
      BY <3>2
    <3> HIDE DEF K, T, F, t
    <3> DEFINE l == Append(list, t)
    <3>4. /\ l \in Seq(HouseholdTitles) /\ IsInjective(l) /\ ToSet(l) = ToSet(list) \cup {t}
      BY <1>0, <1>1, <2>3, AppendIs
    <3>5. Len(l) = Len(list) + 1
      BY <1>1
    <3>6. Taken(list, cap, t) = l
      BY <2>3, <2>4 DEF Taken
    <3> HIDE DEF l
    <3>7. Len(l) = r + 1 /\ r + 1 <= cap
      BY <1>2, <3>1, <3>5
    <3>8. ToSet(l) = T(n + 1)
      BY <1>1, <3>3, <3>4
    <3>9. ListIs(l, order, rows, cap, n + 1)
      BY <2>1, <3>4, <3>7, <3>8 DEF ListIs, T, K, F
    <3> QED BY <2>2, <3>6, <3>9 DEF t
  <2>5. CASE ~(Len(list) < cap)
    <3>1. r >= cap /\ Len(list) = cap
      <4>1. CASE r <= cap
        <5>1. Len(list) = r
          BY <1>1, <4>1
        <5> QED BY <5>1, <4>1, <1>2, <2>5
      <4>2. CASE ~(r <= cap)
        <5>1. Len(list) = cap
          BY <1>1, <4>2
        <5> QED BY <5>1, <4>2, <1>2
      <4> QED BY <4>1, <4>2
    <3>2. ~(r + 1 <= cap)
      BY <1>2, <3>1
    <3>3. K(n + 1) = K(n)
      <4>1. ~(Rank(order, rows, n + 1) <= cap)
        BY <2>1, <3>2
      <4>2. \A k \in F : k <= n + 1 <=> k <= n \/ k = n + 1
        BY <1>0
      <4> QED BY <4>1, <4>2
    <3>4. Taken(list, cap, t) = list
      BY <2>5 DEF Taken
    <3>5. ListIs(list, order, rows, cap, n + 1)
      BY <1>1, <2>1, <3>1, <3>2, <3>3 DEF ListIs
    <3> QED BY <2>2, <3>4, <3>5
  <2> QED BY <2>4, <2>5
<1> QED BY <1>3, <1>4

(* Once every row is looked at, a list is what was promised.               *)
LEMMA ListIsFirst ==
  ASSUME NEW order \in Seq(Sources), NEW rows, NEW cap \in Nat,
         NEW list, ListIs(list, order, rows, cap, Len(order))
  PROVE  ToSet(list) = FirstTitles(order, rows, cap) /\ IsInjective(list)
<1>1. {k \in Firsts(order, rows) : k <= Len(order) /\ Rank(order, rows, k) <= cap}
        = {k \in Firsts(order, rows) : Rank(order, rows, k) <= cap}
  BY FirstsAre
<1>2. FirstTitles(order, rows, cap)
        = {TitleOfSource[order[i]] :
             i \in {k \in Firsts(order, rows) : Rank(order, rows, k) <= cap}}
  BY DEF FirstTitles, Firsts, Rank
<1> QED BY <1>1, <1>2 DEF ListIs

LEMMA ListStarts ==
  ASSUME NEW order \in Seq(Sources), NEW rows, NEW cap \in Nat
  PROVE  ListIs(<< >>, order, rows, cap, 0)
<1>1. \A k \in Firsts(order, rows) : ~(k <= 0)
  BY FirstsAre
<1>2. {j \in Firsts(order, rows) : j <= 0} = {}
  BY <1>1
<1>3. Rank(order, rows, 0) = 0
  BY <1>2, FS_EmptySet DEF Rank
<1>4. {k \in Firsts(order, rows) : k <= 0 /\ Rank(order, rows, k) <= cap} = {}
  BY <1>1
<1>5. << >> \in Seq(HouseholdTitles) /\ Len(<< >>) = 0
  OBVIOUS
<1>6. ToSet(<< >>) = {} /\ IsInjective(<< >>)
  BY DEF ToSet, IsInjective
<1> QED BY <1>3, <1>4, <1>5, <1>6 DEF ListIs

(* The rows that belong in the lists.                                      *)
SeenRows == {s \in Sources : playback[s].watched}
StartedRows == {s \in Sources \ SeenRows : playback[s].pos > 0}

ListsAre(lists, order, n) ==
    /\ lists \in [{"recent", "watched", "continue"} -> Seq(HouseholdTitles)]
    /\ ListIs(lists.recent, order, Sources, Caps.recent, n)
    /\ ListIs(lists.watched, order, SeenRows, Caps.watched, n)
    /\ ListIs(lists.continue, order, StartedRows, Caps.continue, n)

(* Passing a row over loses nothing: the lists that it belongs in are full.*)
LEMMA RowIs ==
  ASSUME HouseholdInv, NEW order \in Seq(Sources), NEW n \in Nat, n < Len(order),
         NEW lists, ListsAre(lists, order, n)
  PROVE  ListsAre(Row(lists, order[n + 1]), order, n + 1)
<1> DEFINE s == order[n + 1]
           t == TitleOfSource[s]
           rec == Taken(lists.recent, Caps.recent, t)
           wat == IF s \in SeenRows THEN Taken(lists.watched, Caps.watched, t)
                  ELSE lists.watched
           con == IF s \in StartedRows THEN Taken(lists.continue, Caps.continue, t)
                  ELSE lists.continue
           new == [recent |-> rec, watched |-> wat, continue |-> con]
<1>0. s \in Sources /\ Caps.recent \in Nat /\ Caps.watched \in Nat /\ Caps.continue \in Nat
      /\ playback[s] \in PlaybackRow
  <2>1. s \in Sources
    OBVIOUS
  <2> QED BY <2>1, HouseholdAssumption DEF HouseholdInv, HouseholdTypeOK
<1>1. /\ ListIs(rec, order, Sources, Caps.recent, n + 1)
      /\ ListIs(wat, order, SeenRows, Caps.watched, n + 1)
      /\ ListIs(con, order, StartedRows, Caps.continue, n + 1)
  BY <1>0, TakenIs DEF ListsAre
<1>2. playback[s].pos \in Nat
  BY <1>0 DEF PlaybackRow
<1>3. /\ s \in SeenRows <=> playback[s].watched
      /\ s \in StartedRows <=> ~playback[s].watched /\ playback[s].pos > 0
  BY <1>0 DEF SeenRows, StartedRows
<1>4. ListsAre(new, order, n + 1)
  <2>1. rec \in Seq(HouseholdTitles) /\ wat \in Seq(HouseholdTitles) /\ con \in Seq(HouseholdTitles)
    BY <1>1 DEF ListIs
  <2> HIDE DEF rec, wat, con
  <2>2. /\ new \in [{"recent", "watched", "continue"} -> Seq(HouseholdTitles)]
        /\ new.recent = rec /\ new.watched = wat /\ new.continue = con
    BY <2>1
  <2> HIDE DEF new
  <2> QED BY <1>1, <2>2 DEF ListsAre
<1> DEFINE passed == /\ Len(lists.recent) >= Caps.recent
                     /\ ~playback[s].watched \/ Len(lists.watched) >= Caps.watched
                     /\ playback[s].watched \/ playback[s].pos = 0
                          \/ Len(lists.continue) >= Caps.continue
<1>5. Row(lists, s) = IF passed THEN lists ELSE new
  <2>1. Row(lists, s) =
          IF passed THEN lists
          ELSE [recent   |-> Taken(lists.recent, Caps.recent, t),
                watched  |-> IF playback[s].watched THEN Taken(lists.watched, Caps.watched, t)
                             ELSE lists.watched,
                continue |-> IF ~playback[s].watched /\ playback[s].pos > 0
                             THEN Taken(lists.continue, Caps.continue, t) ELSE lists.continue]
    BY DEF Row
  <2> HIDE DEF passed
  <2> QED BY <1>3, <2>1, Zenon
<1>6. ASSUME passed PROVE lists = new
  <2>0. lists \in [{"recent", "watched", "continue"} -> Seq(HouseholdTitles)]
    BY DEF ListsAre
  <2>1. /\ Len(lists.recent) \in Nat /\ Len(lists.watched) \in Nat /\ Len(lists.continue) \in Nat
    BY <2>0
  <2>2. rec = lists.recent
    BY <1>0, <1>6, <2>1 DEF Taken
  <2>3. wat = lists.watched
    BY <1>0, <1>3, <1>6, <2>1 DEF Taken
  <2>4. con = lists.continue
    BY <1>0, <1>2, <1>3, <1>6, <2>1 DEF Taken
  <2> HIDE DEF rec, wat, con
  <2> QED BY <2>0, <2>2, <2>3, <2>4
<1> HIDE DEF passed, new
<1> QED BY <1>4, <1>5, <1>6

(* The loop over the rows.                                                 *)
IsLoop(order, f) ==
    f = [n \in 0..Len(order) |-> IF n = 0 THEN Lists ELSE Row(f[n - 1], order[n])]

LEMMA SomeLoop ==
  ASSUME NEW order \in Seq(Sources)
  PROVE  \E f : IsLoop(order, f)
<1> DEFINE Upto(N, f) == f = [n \in 0..N |-> IF n = 0 THEN Lists ELSE Row(f[n - 1], order[n])]
           bad == {N \in 0..Len(order) : ~\E f : Upto(N, f)}
<1>2. Len(order) \in Nat
  OBVIOUS
<1>3. \E f : Upto(0, f)
  <2> DEFINE f0 == [n \in 0..0 |-> Lists]
  <2>1. f0 = [n \in 0..0 |-> IF n = 0 THEN Lists ELSE Row(f0[n - 1], order[n])]
    OBVIOUS
  <2> QED BY <2>1
<1>4. bad = {}
  <2> SUFFICES ASSUME bad # {} PROVE FALSE
    OBVIOUS
  <2>0. bad \in SUBSET Nat
    BY <1>2
  <2>1. PICK N \in bad : \A M \in bad : N <= M
    <3> HIDE DEF bad
    <3> QED BY <2>0, LeastOf
  <2>2. N \in 0..Len(order) /\ ~\E f : Upto(N, f)
    BY <2>1
  <2>3. N # 0
    BY <2>2, <1>3
  <2>4. N - 1 \in 0..Len(order) /\ N \in 1..Len(order) /\ N - 1 < N
    BY <2>2, <2>3, <1>2
  <2>5. N - 1 \notin bad
    <3> HIDE DEF bad
    <3>1. ASSUME N - 1 \in bad PROVE FALSE
      <4>1. N <= N - 1
        BY <3>1, <2>1
      <4> QED BY <4>1, <2>4, <1>2
    <3> QED BY <3>1
  <2>6. PICK f : Upto(N - 1, f)
    BY <2>4, <2>5
  <2> DEFINE g == [n \in 0..N |-> IF n = N THEN Row(f[N - 1], order[N]) ELSE f[n]]
  <2>7. \A n \in 0..N : g[n] = IF n = 0 THEN Lists ELSE Row(g[n - 1], order[n])
    <3> SUFFICES ASSUME NEW n \in 0..N
                 PROVE  g[n] = IF n = 0 THEN Lists ELSE Row(g[n - 1], order[n])
      OBVIOUS
    <3>1. CASE n = N
      <4>1. g[n] = Row(f[N - 1], order[N]) /\ g[N - 1] = f[N - 1]
        BY <3>1, <2>4, <1>2
      <4> QED BY <3>1, <4>1, <2>3
    <3>2. CASE n # N
      <4>1. n \in 0..(N - 1) /\ g[n] = f[n]
        BY <3>2, <2>4, <1>2
      <4>2. CASE n = 0
        BY <4>1, <4>2, <2>6
      <4>3. CASE n # 0
        <5>1. n - 1 \in 0..N /\ n - 1 # N /\ g[n - 1] = f[n - 1]
          BY <4>1, <4>3, <2>4, <1>2
        <5>2. f[n] = Row(f[n - 1], order[n])
          BY <4>1, <4>3, <2>6
        <5> QED BY <4>1, <4>3, <5>1, <5>2
      <4> QED BY <4>2, <4>3
    <3> QED BY <3>1, <3>2
  <2>8. g = [n \in 0..N |-> IF n = 0 THEN Lists ELSE Row(g[n - 1], order[n])]
    <3>1. g = [n \in 0..N |-> g[n]]
      OBVIOUS
    <3> HIDE DEF g
    <3> QED BY <3>1, <2>7
  <2>10. Upto(N, g)
    <3> HIDE DEF g
    <3> QED BY <2>8
  <2> HIDE DEF Upto
  <2> QED BY <2>2, <2>10
<1>5. \E f : Upto(Len(order), f)
  <2> HIDE DEF Upto
  <2> QED BY <1>4, <1>2
<1> QED BY <1>5 DEF IsLoop

LEMMA HouseholdStateIs ==
  ASSUME HouseholdInv, NEW order \in Seq(Sources)
  PROVE  ListsAre(HouseholdState(order), order, Len(order))
<1> DEFINE f == CHOOSE g : IsLoop(order, g)
           bad == {n \in 0..Len(order) : ~ListsAre(f[n], order, n)}
<1>1. IsLoop(order, f)
  BY SomeLoop
<1>2. HouseholdState(order) = f[Len(order)]
  BY DEF HouseholdState, IsLoop
<1>3. Len(order) \in Nat
  OBVIOUS
<1> HIDE DEF f
<1>4. \A n \in 0..Len(order) : f[n] = IF n = 0 THEN Lists ELSE Row(f[n - 1], order[n])
  BY <1>1, Zenon DEF IsLoop
<1>5. bad = {}
  <2> SUFFICES ASSUME bad # {} PROVE FALSE
    OBVIOUS
  <2>0. bad \in SUBSET Nat
    BY <1>3
  <2>1. PICK n \in bad : \A m \in bad : n <= m
    <3> HIDE DEF bad
    <3> QED BY <2>0, LeastOf
  <2>2. n \in 0..Len(order) /\ ~ListsAre(f[n], order, n)
    BY <2>1
  <2>3. CASE n = 0
    <3>1. f[n] = Lists
      BY <2>2, <2>3, <1>4
    <3>2. /\ Caps.recent \in Nat /\ Caps.watched \in Nat /\ Caps.continue \in Nat
      BY HouseholdAssumption
    <3>3. /\ Lists \in [{"recent", "watched", "continue"} -> Seq(HouseholdTitles)]
          /\ Lists.recent = << >> /\ Lists.watched = << >> /\ Lists.continue = << >>
      <4>1. << >> \in Seq(HouseholdTitles)
        BY DEF Seq
      <4> DEFINE none == << >>
      <4>2. Lists = [recent |-> none, watched |-> none, continue |-> none]
        BY DEF Lists
      <4>3. none \in Seq(HouseholdTitles)
        BY <4>1
      <4> HIDE DEF none
      <4>4. /\ Lists \in [{"recent", "watched", "continue"} -> Seq(HouseholdTitles)]
            /\ Lists.recent = none /\ Lists.watched = none /\ Lists.continue = none
        BY <4>2, <4>3
      <4> QED BY <4>4 DEF none
    <3>4. /\ ListIs(<< >>, order, Sources, Caps.recent, 0)
          /\ ListIs(<< >>, order, SeenRows, Caps.watched, 0)
          /\ ListIs(<< >>, order, StartedRows, Caps.continue, 0)
      BY <3>2, ListStarts
    <3>5. ListsAre(Lists, order, 0)
      BY <3>3, <3>4 DEF ListsAre
    <3> QED BY <2>2, <2>3, <3>1, <3>5
  <2>4. CASE n # 0
    <3>1. n - 1 \in 0..Len(order) /\ n - 1 \in Nat /\ n - 1 < Len(order) /\ (n - 1) + 1 = n
          /\ ~(n <= n - 1)
      BY <2>2, <2>4, <1>3
    <3>2. n - 1 \notin bad
      <4> HIDE DEF bad
      <4> QED BY <2>1, <3>1
    <3>3. ListsAre(f[n - 1], order, n - 1)
      BY <3>1, <3>2
    <3> DEFINE k == n - 1
    <3>4. f[n] = Row(f[k], order[k + 1]) /\ k + 1 = n
      BY <2>2, <2>4, <3>1, <1>4
    <3>5. ListsAre(f[k], order, k) /\ k \in Nat /\ k < Len(order)
      BY <3>1, <3>3
    <3> HIDE DEF k
    <3>6. ListsAre(Row(f[k], order[k + 1]), order, k + 1)
      BY <3>5, RowIs
    <3> QED BY <2>2, <3>4, <3>6
  <2> QED BY <2>3, <2>4
<1>6. ListsAre(f[Len(order)], order, Len(order))
  BY <1>3, <1>5
<1> QED BY <1>2, <1>6

LEMMA ListingsAre ==
  ASSUME NEW order \in Listings
  PROVE  order \in Seq(Sources)
<1> DEFINE S == {s \in Sources : playback[s].saved}
<1>1. IsFiniteSet(S)
  BY HouseholdAssumption, FS_Subset
<1>2. Cardinality(S) \in Nat
  BY <1>1, FS_CardinalityType
<1>3. order \in [1..Cardinality(S) -> S]
  BY DEF Listings, SetToSeqs
<1> HIDE DEF S
<1>4. order \in Seq(S)
  BY <1>2, <1>3
<1> QED BY <1>4 DEF S

LEMMA ListsAreCompleteIs ==
  ASSUME HouseholdInv
  PROVE  ListsAreComplete
<1> SUFFICES ASSUME NEW order \in Listings
             PROVE  LET lists == HouseholdState(order)
                    IN  /\ ToSet(lists.recent) = FirstTitles(order, Sources, Caps.recent)
                        /\ ToSet(lists.watched) = FirstTitles(order, SeenRows, Caps.watched)
                        /\ ToSet(lists.continue) = FirstTitles(order, StartedRows, Caps.continue)
                        /\ \A l \in DOMAIN lists : IsInjective(lists[l])
  BY DEF ListsAreComplete, SeenRows, StartedRows
<1> DEFINE lists == HouseholdState(order)
<1>1. order \in Seq(Sources)
  BY ListingsAre
<1>2. ListsAre(lists, order, Len(order))
  BY <1>1, HouseholdStateIs
<1> HIDE DEF lists
<1>3. Caps.recent \in Nat /\ Caps.watched \in Nat /\ Caps.continue \in Nat
  BY HouseholdAssumption
<1>4. DOMAIN lists = {"recent", "watched", "continue"}
  BY <1>2 DEF ListsAre
<1>5. ToSet(lists.recent) = FirstTitles(order, Sources, Caps.recent) /\ IsInjective(lists.recent)
  BY <1>1, <1>2, <1>3, ListIsFirst DEF ListsAre
<1>6. ToSet(lists.watched) = FirstTitles(order, SeenRows, Caps.watched)
      /\ IsInjective(lists.watched)
  BY <1>1, <1>2, <1>3, ListIsFirst DEF ListsAre
<1>7. ToSet(lists.continue) = FirstTitles(order, StartedRows, Caps.continue)
      /\ IsInjective(lists.continue)
  BY <1>1, <1>2, <1>3, ListIsFirst DEF ListsAre
<1>8. \A l \in DOMAIN lists : IsInjective(lists[l])
  BY <1>4, <1>5, <1>6, <1>7
<1> QED BY <1>5, <1>6, <1>7, <1>8 DEF lists

LEMMA FavouritesPlayIs ==
  ASSUME HouseholdInv
  PROVE  FavouritesPlay
<1> SUFFICES ASSUME NEW order \in Listings, NEW t \in liked, BestDownload(t) # {}
             PROVE  /\ FavouriteSource(order, t) # {}
                    /\ \A s \in FavouriteSource(order, t) : managed[s] >= 0
  BY DEF FavouritesPlay
<1>1. order \in Seq(Sources)
  BY ListingsAre
<1>2. \A s \in BestDownload(t) : managed[s] >= 0
  BY DEF BestDownload
<1>3. \A i \in DOMAIN order : order[i] \in Sources
  BY <1>1
<1>4. \A s, r \in LatestRow(order, t) : s = r
  <2> SUFFICES ASSUME NEW i \in DOMAIN order, NEW j \in DOMAIN order,
                      TitleOfSource[order[i]] = t, TitleOfSource[order[j]] = t,
                      \A k \in 1..i - 1 : TitleOfSource[order[k]] # t,
                      \A k \in 1..j - 1 : TitleOfSource[order[k]] # t
               PROVE  i = j
    BY DEF LatestRow
  <2>1. i \in 1..Len(order) /\ j \in 1..Len(order) /\ Len(order) \in Nat
    BY <1>1
  <2>2. ~(i < j)
    <3>1. i < j => i \in 1..j - 1
      BY <2>1
    <3> QED BY <3>1
  <2>3. ~(j < i)
    <3>1. j < i => j \in 1..i - 1
      BY <2>1
    <3> QED BY <3>1
  <2> QED BY <2>1, <2>2, <2>3
<1>5. \A s \in LatestRow(order, t) : s \in Sources
  BY <1>3 DEF LatestRow
<1>6. \A s \in Sources : managed[s] # -1 => managed[s] >= 0
  <2>1. \A s \in Sources : managed[s] \in -1..seconds /\ seconds \in Nat
    BY HouseholdAssumption DEF HouseholdInv, HouseholdTypeOK
  <2> QED BY <2>1
<1>7. CASE \A s \in LatestRow(order, t) : managed[s] = -1
  <2>1. FavouriteSource(order, t) = BestDownload(t)
    BY <1>7 DEF FavouriteSource
  <2> QED BY <2>1, <1>2
<1>8. CASE ~\A s \in LatestRow(order, t) : managed[s] = -1
  <2>1. FavouriteSource(order, t) = LatestRow(order, t)
    BY <1>8 DEF FavouriteSource
  <2>2. PICK s \in LatestRow(order, t) : managed[s] # -1
    BY <1>8
  <2> QED BY <2>1, <2>2, <1>4, <1>5, <1>6
<1> QED BY <1>7, <1>8

(* Whatever is reported, marked, managed and listed: no row is from the    *)
(* future, each list has the latest titles that belong in it, a favourite  *)
(* that has a download plays one, and a viewer's mark stays until somebody *)
(* undoes it (UpdatePlayback, SetWatched, HouseholdState).                 *)
THEOREM HouseholdTheorem ==
  HouseholdInit /\ [][HouseholdNext]_householdVars => []HouseholdSafe
<1>1. HouseholdInit => HouseholdInv
  BY HouseholdInvInit
<1>2. HouseholdInv /\ [HouseholdNext]_householdVars => HouseholdInv'
  <2> SUFFICES ASSUME HouseholdInv, [HouseholdNext]_householdVars PROVE HouseholdInv'
    OBVIOUS
  <2>1. ASSUME NEW h \in Handlers, NEW s \in Sources,
               \/ \E x \in Positions : UpdatePlaybackReads(h, s, x[1], x[2])
               \/ \E mark \in BOOLEAN : SetWatchedReads(h, s, mark)
        PROVE  HouseholdInv'
    BY <2>1, UpdatePlaybackReadsKeeps, SetWatchedReadsKeeps
  <2>2. ASSUME NEW h \in Handlers, UpdatePlaybackSaves(h) \/ SetWatchedSaves(h)
        PROVE  HouseholdInv'
    BY <2>2, UpdatePlaybackSavesKeeps, SetWatchedSavesKeeps
  <2> QED BY <2>1, <2>2, HouseholdRestKeeps DEF HouseholdNext
<1>3. HouseholdInv => HouseholdSafe
  BY ListsAreCompleteIs, FavouritesPlayIs DEF HouseholdInv, HouseholdSafe
<1> QED BY <1>1, <1>2, <1>3, PTL

-----------------------------------------------------------------------------
(* The subtitles: the inductive invariant.                                 *)

Assets == Tracks \X (0..MaxVersions)
Temps == {"temp"} \X Players
CacheFiles == Assets \cup Temps

PrepStages == {"idle", "lock", "look", "stat", "probe", "open", "extract",
               "fetch", "write", "list", "prune", "save"}
Preps == [at: PrepStages, track: Tracks \cup {"none", "search"}, mod: 0..MaxAge,
          key: 0..MaxVersions, content: 0..MaxVersions, files: Seq(CacheFiles), total: Nat,
          clean: BOOLEAN]
AssetRows == [saved: BOOLEAN, content: 0..MaxVersions, created: 0..MaxAge, at: 0..MaxAge,
              clean: BOOLEAN]

SubTypes ==
    /\ media \in [version: 0..MaxVersions, mod: 0..MaxAge, complete: BOOLEAN]
    /\ assets \in [Tracks -> AssetRows]
    /\ cache \in Seq(CacheFiles)
    /\ probed \subseteq (0..MaxVersions) \X (0..MaxVersions)
    /\ prep \in [Players -> Preps]
    /\ age \in 0..MaxAge /\ prepares \in 0..MaxPrepares

(* Nothing is later than now, and a conversion is not older than its row.  *)
SubTimes ==
    /\ media.mod <= age
    /\ \A t \in Tracks : assets[t].created <= assets[t].at /\ assets[t].at <= age
    /\ \A k \in probed : k[1] <= k[2] /\ k[2] <= media.version
    /\ \A p \in Players : prep[p].key <= media.version

(* A preparation: only a search probes for no track; while the media file  *)
(* is as it was, so is its time.                                           *)
SubPlaces ==
    \A p \in Players :
        /\ prep[p].at # "idle" => prep[p].track \in Tracks \cup {"search"}
        /\ prep[p].track = "search" => prep[p].at \in {"stat", "probe"}
        /\ prep[p].track \in Embedded /\ prep[p].clean => prep[p].mod = media.mod

(* One preparation of a track is past the lock.                            *)
SubLocks ==
    \A p, q \in Players :
        Locked(p) /\ Locked(q) /\ prep[p].track = prep[q].track /\ prep[p].track \in Tracks =>
            p = q

(* A temporary file is there from its extraction to the return.            *)
TempStages == {"extract", "write", "list", "prune", "save"}
SubTemps == \A p \in Players : <<"temp", p>> \in ToSet(cache) => prep[p].at \in TempStages

(* Somebody is still going to prune, and will see enough: the conversions  *)
(* in the cache are those that it has listed or written, and the total it  *)
(* goes by is no less than what it has yet to look at and what there is.   *)
Kept == ToSet(cache) \ Temps
Own(p) == <<prep[p].track, prep[p].content>>
Prunes(p) ==
    \/ prep[p].at = "list"
    \/ /\ prep[p].at = "prune"
       /\ Kept \subseteq ToSet(prep[p].files) \cup {Own(p)}
       /\ Cardinality(Kept \cup ToSet(prep[p].files)) <= prep[p].total

SubBounded == Cardinality(Kept) <= CacheLimit \/ \E p \in Players : Prunes(p)

(* Whoever reads the media file for a track has no fresh asset to find.    *)
Needed(p) ==
    prep[p].at \in {"stat", "probe", "open", "extract"} /\ prep[p].track \in Tracks =>
        ~Fresh(prep[p].track, prep[p].mod)
          \/ <<prep[p].track, assets[prep[p].track].content>> \notin ToSet(cache)

SubInv ==
    /\ SubTypes /\ SubTimes /\ SubPlaces /\ SubLocks /\ SubTemps /\ SubBounded
    /\ IsInjective(cache) /\ \A p \in Players : IsInjective(prep[p].files)
    /\ AnswersAreCurrent /\ \A p \in Players : Needed(p)

(* The files of the cache: a sequence that names none twice.               *)
LEMMA WithoutIs ==
  ASSUME NEW S, NEW s \in Seq(S), IsInjective(s), NEW x
  PROVE  /\ Without(s, x) \in Seq(S) /\ IsInjective(Without(s, x))
         /\ ToSet(Without(s, x)) = ToSet(s) \ {x}
<1>1. CASE x \notin ToSet(s)
  BY <1>1 DEF Without
<1>2. CASE x \in ToSet(s)
  <2> DEFINE i == CHOOSE j \in DOMAIN s : s[j] = x
             a == SubSeq(s, 1, i - 1)
             b == SubSeq(s, i + 1, Len(s))
  <2>1. i \in 1..Len(s) /\ s[i] = x /\ DOMAIN s = 1..Len(s) /\ Len(s) \in Nat
    BY <1>2 DEF ToSet
  <2>2. Without(s, x) = a \o b
    BY <1>2 DEF Without, RemoveAt
  <2>3. a \in Seq(S) /\ Len(a) = i - 1 /\ \A j \in 1..(i - 1) : a[j] = s[j]
    BY <2>1
  <2>4. b \in Seq(S) /\ Len(b) = Len(s) - i /\ \A j \in 1..(Len(s) - i) : b[j] = s[j + i]
    BY <2>1
  <2> DEFINE w == a \o b
  <2> HIDE DEF i, a, b
  <2>5. w \in Seq(S) /\ Len(w) = Len(s) - 1 /\ DOMAIN w = 1..(Len(s) - 1)
    <3>1. Len(a) \in Nat /\ Len(b) \in Nat /\ Len(a) + Len(b) = Len(s) - 1
      BY <2>1, <2>3, <2>4
    <3>2. w \in Seq(S) /\ Len(w) = Len(a) + Len(b) /\ DOMAIN w = 1..Len(w)
      <4>1. a \in Seq(S) /\ b \in Seq(S)
        BY <2>3, <2>4
      <4>2. w \in Seq(S) /\ Len(w) = Len(a) + Len(b)
        BY <4>1
      <4> QED BY <4>2
    <3> QED BY <3>1, <3>2
  <2>6. \A j \in 1..(Len(s) - 1) : w[j] = IF j < i THEN s[j] ELSE s[j + 1]
    <3> SUFFICES ASSUME NEW j \in 1..(Len(s) - 1)
                 PROVE  w[j] = IF j < i THEN s[j] ELSE s[j + 1]
      OBVIOUS
    <3>1. CASE j < i
      BY <3>1, <2>1, <2>3, <2>4
    <3>2. CASE ~(j < i)
      <4>1. w[j] = b[j - Len(a)]
        BY <3>2, <2>1, <2>3, <2>4
      <4>2. j - Len(a) \in 1..(Len(s) - i) /\ (j - Len(a)) + i = j + 1
        BY <3>2, <2>1, <2>3
      <4> QED BY <3>2, <4>1, <4>2, <2>4
    <3> QED BY <3>1, <3>2
  <2> HIDE DEF w
  <2>7. IsInjective(w)
    <3> SUFFICES ASSUME NEW j \in 1..(Len(s) - 1), NEW k \in 1..(Len(s) - 1), w[j] = w[k]
                 PROVE  j = k
      BY <2>5 DEF IsInjective
    <3> DEFINE Old(m) == IF m < i THEN m ELSE m + 1
    <3>1. Old(j) \in 1..Len(s) /\ Old(k) \in 1..Len(s)
      BY <2>1
    <3>2. w[j] = s[Old(j)] /\ w[k] = s[Old(k)]
      BY <2>6
    <3>3. Old(j) = Old(k)
      <4> HIDE DEF Old
      <4> QED BY <2>1, <3>1, <3>2 DEF IsInjective
    <3> QED BY <2>1, <3>3
  <2>8. ToSet(w) = ToSet(s) \ {x}
    <3>1. ASSUME NEW y \in ToSet(w) PROVE y \in ToSet(s) \ {x}
      <4>1. PICK j \in 1..(Len(s) - 1) : w[j] = y
        BY <3>1, <2>5 DEF ToSet
      <4>2. PICK k \in 1..Len(s) : k # i /\ s[k] = y
        BY <4>1, <2>1, <2>6
      <4> QED BY <4>2, <2>1 DEF ToSet, IsInjective
    <3>2. ASSUME NEW y \in ToSet(s) \ {x} PROVE y \in ToSet(w)
      <4>1. PICK j \in 1..Len(s) : s[j] = y
        BY <2>1 DEF ToSet
      <4>2. CASE j < i
        <5>1. j \in 1..(Len(s) - 1)
          BY <4>2, <2>1
        <5>2. w[j] = s[j]
          BY <4>2, <5>1, <2>6
        <5> QED BY <4>1, <5>1, <5>2, <2>5 DEF ToSet
      <4>3. CASE j > i
        <5>1. j - 1 \in 1..(Len(s) - 1) /\ w[j - 1] = s[j]
          BY <4>1, <4>3, <2>1, <2>6
        <5> QED BY <4>1, <5>1, <2>5 DEF ToSet
      <4> QED BY <4>1, <4>2, <4>3, <2>1, <3>2
    <3> QED BY <3>1, <3>2
  <2> QED BY <2>2, <2>5, <2>7, <2>8 DEF w
<1> QED BY <1>1, <1>2

LEMMA TailIs ==
  ASSUME NEW S, NEW s \in Seq(S), IsInjective(s), s # << >>
  PROVE  /\ Tail(s) \in Seq(S) /\ IsInjective(Tail(s))
         /\ Head(s) \in ToSet(s) /\ ToSet(Tail(s)) = ToSet(s) \ {Head(s)}
<1> DEFINE w == Tail(s)
<1>1. /\ w \in Seq(S) /\ Len(w) = Len(s) - 1 /\ DOMAIN w = 1..(Len(s) - 1)
      /\ \A j \in 1..(Len(s) - 1) : w[j] = s[j + 1]
  OBVIOUS
<1>2. DOMAIN s = 1..Len(s) /\ Len(s) \in Nat /\ Len(s) > 0 /\ Head(s) = s[1]
  OBVIOUS
<1> HIDE DEF w
<1>3. IsInjective(w)
  <2> SUFFICES ASSUME NEW j \in 1..(Len(s) - 1), NEW k \in 1..(Len(s) - 1), w[j] = w[k]
               PROVE  j = k
    BY <1>1 DEF IsInjective
  <2>1. j + 1 \in 1..Len(s) /\ k + 1 \in 1..Len(s) /\ s[j + 1] = s[k + 1]
    BY <1>1, <1>2
  <2>2. j + 1 = k + 1
    BY <2>1, <1>2 DEF IsInjective
  <2> QED BY <2>2
<1>4. Head(s) \in ToSet(s)
  BY <1>2 DEF ToSet
<1>5. ToSet(w) = ToSet(s) \ {Head(s)}
  <2>1. ASSUME NEW y \in ToSet(w) PROVE y \in ToSet(s) \ {Head(s)}
    BY <2>1, <1>1, <1>2 DEF ToSet, IsInjective
  <2>2. ASSUME NEW y \in ToSet(s) \ {Head(s)} PROVE y \in ToSet(w)
    <3>1. PICK j \in 1..Len(s) : s[j] = y /\ j # 1
      BY <1>2 DEF ToSet
    <3>2. j - 1 \in 1..(Len(s) - 1) /\ w[j - 1] = s[j]
      BY <3>1, <1>1, <1>2
    <3> QED BY <3>1, <3>2, <1>1 DEF ToSet
  <2> QED BY <2>1, <2>2
<1> QED BY <1>1, <1>3, <1>4, <1>5 DEF w

LEMMA LenIs ==
  ASSUME NEW S, NEW s \in Seq(S), IsInjective(s)
  PROVE  IsFiniteSet(ToSet(s)) /\ Cardinality(ToSet(s)) = Len(s)
<1>1. Len(s) \in Nat /\ DOMAIN s = 1..Len(s)
  OBVIOUS
<1>2. s \in Bijection(1..Len(s), ToSet(s))
  BY <1>1 DEF ToSet, IsInjective, Bijection, Injection, Surjection
<1>3. IsFiniteSet(1..Len(s)) /\ Cardinality(1..Len(s)) = Len(s)
  BY <1>1, FS_Interval
<1> QED BY <1>2, <1>3, FS_Bijection DEF ExistsBijection

(* What a step of one player must show for the invariant to be preserved.  *)
SubStep(p) ==
    /\ prep' \in [Players -> Preps] /\ \A q \in Players : q # p => prep'[q] = prep[q]
    /\ UNCHANGED <<media, age>> /\ prepares' \in 0..MaxPrepares
    /\ assets' \in [Tracks -> AssetRows]
    /\ \A t \in Tracks :
          \/ assets'[t] = assets[t]
          \/ /\ Locked(p) /\ t = prep[p].track
             /\ assets'[t].created <= assets'[t].at /\ assets'[t].at <= age
    /\ cache' \in Seq(CacheFiles) /\ IsInjective(cache') /\ IsInjective(prep'[p].files)
    /\ probed' \in SUBSET ((0..MaxVersions) \X (0..MaxVersions))
    /\ \A k \in probed' : k[1] <= k[2] /\ k[2] <= media.version
    /\ prep'[p].key <= media.version
    /\ prep'[p].at # "idle" => prep'[p].track \in Tracks \cup {"search"}
    /\ prep'[p].track = "search" => prep'[p].at \in {"stat", "probe"}
    /\ prep'[p].track \in Embedded /\ prep'[p].clean => prep'[p].mod = media.mod

(* What it does to the lock, the cache and the pruning.                    *)
SubTakes(p) ==
    Locked(p)' /\ prep'[p].track \in Tracks =>
        \/ Locked(p) /\ prep'[p].track = prep[p].track
        \/ \A q \in Players : Locked(q) => prep[q].track # prep'[p].track

SubFiles(p) ==
    /\ <<"temp", p>> \in ToSet(cache') => prep'[p].at \in TempStages
    /\ \/ ToSet(cache') \subseteq ToSet(cache) \cup {<<"temp", p>>}
       \/ /\ Locked(p) /\ prep[p].track \in Tracks
          /\ ToSet(cache') \subseteq ToSet(cache) \cup {Own(p)}

SubPrunes(p) ==
    \/ Prunes(p)' \/ Cardinality(Kept') <= CacheLimit
    \/ ~Prunes(p) /\ Kept' \subseteq Kept

LEMMA KeptIs ==
  ASSUME SubTypes, IsInjective(cache)
  PROVE  /\ IsFiniteSet(Kept) /\ Cardinality(Kept) \in Nat
         /\ \A p \in Players : IsInjective(prep[p].files) =>
               /\ IsFiniteSet(ToSet(prep[p].files))
               /\ IsFiniteSet(Kept \cup ToSet(prep[p].files))
               /\ Cardinality(Kept \cup ToSet(prep[p].files)) \in Nat
<1>1. IsFiniteSet(ToSet(cache))
  BY LenIs DEF SubTypes
<1>2. IsFiniteSet(Kept)
  BY <1>1, FS_Subset DEF Kept
<1>3. ASSUME NEW p \in Players, IsInjective(prep[p].files)
      PROVE  IsFiniteSet(ToSet(prep[p].files)) /\ IsFiniteSet(Kept \cup ToSet(prep[p].files))
  <2>1. prep[p].files \in Seq(CacheFiles)
    BY DEF SubTypes, Preps
  <2>2. IsFiniteSet(ToSet(prep[p].files))
    BY <2>1, <1>3, LenIs
  <2> QED BY <1>2, <2>2, FS_Union
<1> QED BY <1>2, <1>3, FS_CardinalityType

LEMMA SubBoundedStays ==
  ASSUME SubInv, NEW p \in Players, SubStep(p), SubPrunes(p)
  PROVE  SubBounded'
<1>1. CASE Prunes(p)' \/ Cardinality(Kept') <= CacheLimit
  BY <1>1 DEF SubBounded
<1>2. CASE ~Prunes(p) /\ Kept' \subseteq Kept
  <2>0. IsFiniteSet(Kept) /\ Cardinality(Kept) \in Nat
        /\ \A q \in Players : IsFiniteSet(Kept \cup ToSet(prep[q].files))
                              /\ Cardinality(Kept \cup ToSet(prep[q].files)) \in Nat
    BY KeptIs DEF SubInv
  <2>1. CASE Cardinality(Kept) <= CacheLimit
    <3>1. Cardinality(Kept') <= Cardinality(Kept) /\ Cardinality(Kept') \in Nat
      BY <1>2, <2>0, FS_Subset, FS_CardinalityType
    <3>2. Cardinality(Kept') <= CacheLimit
      BY <2>0, <2>1, <3>1, SubtitlesAssumption
    <3> QED BY <3>2 DEF SubBounded
  <2>2. ASSUME NEW q \in Players, Prunes(q) PROVE SubBounded'
    <3>1. q # p
      BY <1>2, <2>2
    <3>2. prep'[q] = prep[q]
      BY <3>1 DEF SubStep
    <3>3. CASE prep[q].at = "list"
      BY <3>2, <3>3 DEF SubBounded, Prunes
    <3>4. CASE prep[q].at # "list"
      <4>1. prep[q].at = "prune" /\ Kept \subseteq ToSet(prep[q].files) \cup {Own(q)}
            /\ Cardinality(Kept \cup ToSet(prep[q].files)) <= prep[q].total
        BY <2>2, <3>4 DEF Prunes
      <4> DEFINE A == Kept \cup ToSet(prep[q].files)
                 B == Kept' \cup ToSet(prep[q].files)
      <4>2. B \subseteq A /\ IsFiniteSet(A)
        BY <1>2, <2>0
      <4>3. Cardinality(B) <= Cardinality(A) /\ IsFiniteSet(B)
        BY <4>2, FS_Subset
      <4>4. Cardinality(B) \in Nat /\ Cardinality(A) \in Nat /\ prep[q].total \in Nat
        BY <4>2, <4>3, FS_CardinalityType DEF SubInv, SubTypes, Preps
      <4>5. Cardinality(B) <= prep[q].total
        BY <4>1, <4>3, <4>4
      <4>6. Own(q)' = Own(q)
        BY <3>2 DEF Own
      <4>7. Prunes(q)'
        BY <4>1, <4>5, <4>6, <3>2, <1>2 DEF Prunes
      <4> QED BY <4>7 DEF SubBounded
    <3> QED BY <3>3, <3>4
  <2> QED BY <2>1, <2>2 DEF SubInv, SubBounded
<1> QED BY <1>1, <1>2 DEF SubPrunes

LEMMA SubGoes ==
  ASSUME SubInv, NEW p \in Players, SubStep(p), SubTakes(p), SubFiles(p), SubPrunes(p),
         Needed(p)', AnswersAreCurrent'
  PROVE  SubInv'
<1>1. SubTypes'
  BY DEF SubInv, SubStep, SubTypes
<1>2. SubTimes'
  <2>1. \A t \in Tracks : assets'[t].created <= assets'[t].at /\ assets'[t].at <= age
    BY DEF SubInv, SubStep, SubTimes
  <2> QED BY <2>1 DEF SubInv, SubStep, SubTimes
<1>3. SubPlaces'
  BY DEF SubInv, SubStep, SubPlaces
<1>4. SubLocks'
  BY DEF SubInv, SubStep, SubLocks, SubTakes, Locked
<1>5. SubTemps'
  <2> SUFFICES ASSUME NEW q \in Players, <<"temp", q>> \in ToSet(cache'), q # p
               PROVE  prep'[q].at \in TempStages
    BY DEF SubTemps, SubFiles
  <2>1. <<"temp", q>> # <<"temp", p>>
    OBVIOUS
  <2>2. prep[p].track \in Tracks => <<"temp", q>> # Own(p)
    BY SubtitlesAssumption DEF Own
  <2>3. <<"temp", q>> \in ToSet(cache)
    BY <2>1, <2>2 DEF SubFiles
  <2> QED BY <2>3 DEF SubInv, SubTemps, SubStep
<1>6. SubBounded'
  BY SubBoundedStays
<1>7. IsInjective(cache') /\ \A q \in Players : IsInjective(prep'[q].files)
  BY DEF SubInv, SubStep
<1>8. ASSUME NEW q \in Players, q # p PROVE Needed(q)'
  <2>1. prep'[q] = prep[q]
    BY <1>8 DEF SubStep
  <2> SUFFICES ASSUME prep[q].at \in {"stat", "probe", "open", "extract"}, prep[q].track \in Tracks,
                      Fresh(prep[q].track, prep[q].mod)'
               PROVE  <<prep[q].track, assets'[prep[q].track].content>> \notin ToSet(cache')
    BY <2>1 DEF Needed
  <2>5. assets'[prep[q].track] = assets[prep[q].track]
    BY <1>8 DEF SubInv, SubLocks, SubStep, Locked
  <2>6. Fresh(prep[q].track, prep[q].mod)
    BY <2>1, <2>5 DEF Fresh
  <2> DEFINE f == <<prep[q].track, assets[prep[q].track].content>>
  <2>2. f \notin ToSet(cache)
    BY <2>6 DEF SubInv, Needed
  <2>3. f # <<"temp", p>>
    BY SubtitlesAssumption
  <2>4. Locked(p) /\ prep[p].track \in Tracks => f # Own(p)
    BY <1>8 DEF SubInv, SubLocks, Locked, Own
  <2> QED BY <2>2, <2>3, <2>4, <2>5 DEF SubFiles
<1> QED BY <1>1, <1>2, <1>3, <1>4, <1>5, <1>6, <1>7, <1>8 DEF SubInv

LEMMA NoPrepIs == NoPrep \in Preps /\ IsInjective(NoPrep.files)
<1>1. 0 \in 0..MaxAge /\ 0 \in 0..MaxVersions /\ << >> \in Seq(CacheFiles)
  BY SubtitlesAssumption
<1> QED BY <1>1 DEF NoPrep, Preps, PrepStages, IsInjective

(* A step that leaves the cache alone and is not about pruning.            *)
LEMMA SubQuiet ==
  ASSUME SubInv, NEW p \in Players, NEW k \in Preps, prep' = [prep EXCEPT ![p] = k],
         UNCHANGED <<media, assets, cache, age>>, prepares' \in 0..MaxPrepares,
         IsInjective(k.files), prep[p].at \notin {"list", "prune"},
         prep[p].at \in TempStages => k.at \in TempStages,
         probed' \in SUBSET ((0..MaxVersions) \X (0..MaxVersions)),
         \A n \in probed' : n[1] <= n[2] /\ n[2] <= media.version,
         k.key <= media.version,
         k.at # "idle" => k.track \in Tracks \cup {"search"},
         k.track = "search" => k.at \in {"stat", "probe"},
         k.track \in Embedded /\ k.clean => k.mod = media.mod,
         SubTakes(p), Needed(p)', AnswersAreCurrent'
  PROVE  SubInv'
<1>1. prep' \in [Players -> Preps] /\ prep'[p] = k
      /\ \A q \in Players : q # p => prep'[q] = prep[q]
  BY DEF SubInv, SubTypes
<1>2. SubStep(p)
  BY <1>1 DEF SubStep, SubInv, SubTypes
<1>3. SubFiles(p)
  BY <1>1 DEF SubFiles, SubInv, SubTemps
<1>4. SubPrunes(p)
  BY DEF SubPrunes, Prunes, Kept
<1> QED BY <1>2, <1>3, <1>4, SubGoes

(* A return: nothing is left of the preparation and its temporary file.    *)
LEMMA ReturnKeeps ==
  ASSUME SubInv, NEW p \in Players, Return(p, cache), prep[p].at \notin {"list", "prune"},
         UNCHANGED <<media, assets, probed, age, prepares>>, AnswersAreCurrent'
  PROVE  SubInv'
<1>1. prep' \in [Players -> Preps] /\ prep'[p] = NoPrep
      /\ \A q \in Players : q # p => prep'[q] = prep[q]
  BY NoPrepIs DEF SubInv, SubTypes, Return
<1>2. /\ cache' \in Seq(CacheFiles) /\ IsInjective(cache')
      /\ ToSet(cache') = ToSet(cache) \ {<<"temp", p>>}
  BY WithoutIs DEF SubInv, SubTypes, Return
<1>3. /\ NoPrep.at = "idle" /\ NoPrep.key = 0 /\ NoPrep.track = "none" /\ NoPrep.clean = TRUE
      /\ "none" \notin Tracks /\ "none" \notin Embedded
  BY SubtitlesAssumption DEF NoPrep
<1>4. 0 <= media.version
  BY DEF SubInv, SubTypes
<1>5. SubStep(p)
  BY <1>1, <1>2, <1>3, <1>4, NoPrepIs DEF SubStep, SubInv, SubTypes, SubTimes
<1>6. SubFiles(p)
  BY <1>2 DEF SubFiles
<1>7. SubPrunes(p)
  BY <1>2 DEF SubPrunes, Prunes, Kept
<1>8. SubTakes(p) /\ Needed(p)'
  BY <1>1, <1>3 DEF SubTakes, Needed, Locked
<1> QED BY <1>5, <1>6, <1>7, <1>8, SubGoes

LEMMA SearchSubtitlesKeeps ==
  ASSUME SubInv, NEW p \in Players, SearchSubtitles(p)
  PROVE  SubInv'
<1> DEFINE k == [NoPrep EXCEPT !.at = "stat", !.track = "search"]
<1>1. k \in Preps /\ k.files = << >> /\ k.key = 0 /\ k.at = "stat" /\ k.track = "search"
  BY NoPrepIs DEF NoPrep, Preps, PrepStages
<1>2. "search" \notin Tracks /\ "search" \notin Embedded /\ 0 <= media.version
  BY SubtitlesAssumption DEF SubInv, SubTypes
<1>3. prep' = [prep EXCEPT ![p] = k] /\ prep'[p] = k /\ prep[p].at = "idle"
  BY DEF SearchSubtitles, SubInv, SubTypes
<1>4. prepares' \in 0..MaxPrepares
  BY SubtitlesAssumption DEF SearchSubtitles, SubInv, SubTypes
<1>5. UNCHANGED <<media, assets, cache, probed, age, answer>>
  BY DEF SearchSubtitles
<1> HIDE DEF k
<1>6. SubTakes(p) /\ Needed(p)' /\ AnswersAreCurrent'
  BY <1>1, <1>2, <1>3, <1>5 DEF SubTakes, Needed, SubInv, AnswersAreCurrent
<1>7. IsInjective(k.files)
  BY <1>1 DEF IsInjective
<1> QED BY <1>1, <1>2, <1>3, <1>4, <1>5, <1>6, <1>7, SubQuiet DEF SubInv, SubTypes, SubTimes, TempStages

LEMMA PrepareBeginsKeeps ==
  ASSUME SubInv, NEW p \in Players, NEW t \in Tracks, PrepareBegins(p, t)
  PROVE  SubInv'
<1> DEFINE m == IF t \in Embedded THEN media.mod ELSE 0
           k == [NoPrep EXCEPT !.at = "lock", !.track = t, !.mod = m]
<1>0. m \in 0..MaxAge
  BY SubtitlesAssumption DEF SubInv, SubTypes
<1> HIDE DEF m
<1>1. k \in Preps /\ k.files = << >> /\ k.key = 0 /\ k.at = "lock" /\ k.track = t /\ k.mod = m
  BY <1>0, NoPrepIs DEF NoPrep, Preps, PrepStages
<1>2. t # "search" /\ 0 <= media.version
  BY SubtitlesAssumption DEF SubInv, SubTypes
<1>3. prep' = [prep EXCEPT ![p] = k] /\ prep'[p] = k /\ prep[p].at = "idle"
  BY DEF PrepareBegins, SubInv, SubTypes, m
<1>4. prepares' \in 0..MaxPrepares
  BY SubtitlesAssumption DEF PrepareBegins, SubInv, SubTypes
<1>5. UNCHANGED <<media, assets, cache, probed, age, answer>>
  BY DEF PrepareBegins
<1> HIDE DEF k
<1>6. SubTakes(p) /\ Needed(p)' /\ AnswersAreCurrent'
  BY <1>1, <1>2, <1>3, <1>5 DEF SubTakes, Needed, SubInv, AnswersAreCurrent, Locked
<1>7. IsInjective(k.files)
  BY <1>1 DEF IsInjective
<1>8. k.track \in Embedded => k.mod = media.mod
  BY <1>1 DEF m
<1> QED BY <1>1, <1>2, <1>3, <1>4, <1>5, <1>6, <1>7, <1>8, SubQuiet DEF SubInv, SubTypes, SubTimes, TempStages

(* A preparation goes on, with what it has.                                *)
LEMMA SubAdvances ==
  ASSUME SubInv, NEW p \in Players, NEW s \in PrepStages, prep' = [prep EXCEPT ![p].at = s],
         UNCHANGED <<media, assets, cache, age, prepares, answer>>,
         prep[p].at \notin {"idle", "list", "prune"}, s # "idle",
         prep[p].at \in TempStages => s \in TempStages,
         prep[p].track = "search" => s \in {"stat", "probe"},
         probed' \in SUBSET ((0..MaxVersions) \X (0..MaxVersions)),
         \A n \in probed' : n[1] <= n[2] /\ n[2] <= media.version,
         prep[p].at = "lock" =>
            \A q \in Players : Locked(q) => prep[q].track # prep[p].track,
         \/ s \notin {"stat", "probe", "open", "extract"}
         \/ prep[p].at \in {"stat", "probe", "open", "extract"}
         \/ /\ prep[p].track \in Tracks
            /\ \/ ~Fresh(prep[p].track, prep[p].mod)
               \/ <<prep[p].track, assets[prep[p].track].content>> \notin ToSet(cache)
  PROVE  SubInv'
<1> DEFINE k == [prep[p] EXCEPT !.at = s]
<1>1. k \in Preps /\ k.files = prep[p].files /\ k.key = prep[p].key /\ k.at = s
      /\ k.track = prep[p].track /\ k.mod = prep[p].mod /\ k.clean = prep[p].clean
  <2>1. prep[p] \in Preps
    BY DEF SubInv, SubTypes
  <2>2. k \in Preps
    BY <2>1 DEF Preps
  <2> QED BY <2>1, <2>2 DEF Preps
<1>2. prep' = [prep EXCEPT ![p] = k] /\ prep'[p] = k
  BY DEF SubInv, SubTypes
<1> HIDE DEF k
<1>3. SubTakes(p)
  BY <1>1, <1>2 DEF SubTakes, Locked
<1>4. Needed(p)'
  BY <1>1, <1>2 DEF Needed, SubInv, Fresh
<1>5. AnswersAreCurrent'
  BY DEF AnswersAreCurrent, SubInv
<1>6. prepares' \in 0..MaxPrepares
  BY DEF SubInv, SubTypes
<1>7. k.key <= media.version /\ IsInjective(k.files)
  BY <1>1 DEF SubInv, SubTimes
<1>8. k.at # "idle" => k.track \in Tracks \cup {"search"}
  BY <1>1 DEF SubInv, SubPlaces
<1>9. k.track \in Embedded /\ k.clean => k.mod = media.mod
  BY <1>1 DEF SubInv, SubPlaces
<1> QED BY <1>1, <1>2, <1>3, <1>4, <1>5, <1>6, <1>7, <1>8, <1>9, SubQuiet

LEMMA PrepareLocksKeeps ==
  ASSUME SubInv, NEW p \in Players, PrepareLocks(p)
  PROVE  SubInv'
<1>1. "look" \in PrepStages /\ prep[p].at = "lock" /\ prep[p].track # "search"
  BY DEF PrepareLocks, PrepStages, SubInv, SubPlaces
<1> QED BY <1>1, SubAdvances DEF PrepareLocks, SubInv, SubTypes, SubTimes, TempStages

LEMMA PrepareLooksKeeps ==
  ASSUME SubInv, NEW p \in Players, PrepareLooks(p)
  PROVE  SubInv'
<1> DEFINE t == prep[p].track
           found == Fresh(t, prep[p].mod) /\ <<t, assets[t].content>> \in ToSet(cache)
<1>1. prep[p].at = "look" /\ t \in Tracks /\ UNCHANGED <<media, assets, probed, age, prepares>>
  BY DEF PrepareLooks, SubInv, SubPlaces
<1>2. CASE /\ found /\ Return(p, cache)
           /\ Replies(p, assets[t].content, assets[t].at, assets[t].clean)
  <2>1. /\ answer'.track = t /\ answer'.mod = media.mod /\ answer'.at = assets[t].at
        /\ answer'.clean = (assets[t].clean /\ prep[p].clean)
    BY <1>2 DEF Replies
  <2>2. ASSUME t \in Embedded, answer'.clean PROVE assets[t].at + 1 >= media.mod
    <3>1. prep[p].mod = media.mod
      BY <2>1, <2>2 DEF SubInv, SubPlaces
    <3>2. assets[t].created + 1 >= media.mod
      BY <1>2, <3>1 DEF Fresh
    <3>3. assets[t].created <= assets[t].at
      BY <1>1 DEF SubInv, SubTimes
    <3>4. assets[t].created \in Nat /\ assets[t].at \in Nat /\ media.mod \in Nat
      BY <1>1, SubtitlesAssumption DEF SubInv, SubTypes, AssetRows
    <3> QED BY <3>2, <3>3, <3>4
  <2>3. assets[t].at \in Nat /\ media.mod \in Nat
    BY <1>1, SubtitlesAssumption DEF SubInv, SubTypes, AssetRows
  <2>4. AnswersAreCurrent'
    BY <2>1, <2>2, <2>3 DEF AnswersAreCurrent
  <2> QED BY <1>1, <1>2, <2>4, ReturnKeeps
<1>3. CASE /\ ~found /\ UNCHANGED <<cache, answer>>
           /\ prep' = [prep EXCEPT ![p].at = IF t \in Embedded THEN "stat" ELSE "fetch"]
  <2> DEFINE s == IF t \in Embedded THEN "stat" ELSE "fetch"
  <2>1. s \in PrepStages /\ s # "idle" /\ prep' = [prep EXCEPT ![p].at = s]
    BY <1>3 DEF PrepStages
  <2> HIDE DEF s
  <2>2. t # "search"
    BY <1>1, SubtitlesAssumption
  <2> QED BY <1>1, <1>3, <2>1, <2>2, SubAdvances DEF SubInv, SubTypes, SubTimes, TempStages
<1> QED BY <1>2, <1>3 DEF PrepareLooks

(* A probe of the media file ends: a search is over, an extraction begins. *)
LEMMA ProbedKeeps ==
  ASSUME SubInv, NEW p \in Players, Probed(p), prep[p].at \in {"stat", "probe"},
         UNCHANGED <<media, assets, cache, age, prepares, answer>>,
         probed' \in SUBSET ((0..MaxVersions) \X (0..MaxVersions)),
         \A n \in probed' : n[1] <= n[2] /\ n[2] <= media.version
  PROVE  SubInv'
<1>1. CASE prep[p].track = "search"
  <2>1. prep' = [prep EXCEPT ![p] = NoPrep] /\ prep'[p] = NoPrep
    BY <1>1 DEF Probed, SubInv, SubTypes
  <2>2. /\ NoPrep.at = "idle" /\ NoPrep.key = 0 /\ NoPrep.track = "none" /\ NoPrep.clean = TRUE
        /\ "none" \notin Embedded /\ 0 <= media.version
    BY SubtitlesAssumption DEF NoPrep, SubInv, SubTypes
  <2>3. SubTakes(p) /\ Needed(p)' /\ AnswersAreCurrent'
    BY <2>1, <2>2 DEF SubTakes, Needed, SubInv, AnswersAreCurrent, Locked
  <2>4. prepares' \in 0..MaxPrepares
    BY DEF SubInv, SubTypes
  <2> QED BY <2>1, <2>2, <2>3, <2>4, NoPrepIs, SubQuiet DEF TempStages
<1>2. CASE prep[p].track # "search"
  <2>1. "open" \in PrepStages
    BY DEF PrepStages
  <2>2. prep' = [prep EXCEPT ![p].at = "open"]
    BY <1>2 DEF Probed, SubInv, SubTypes
  <2> QED BY <1>2, <2>1, <2>2, SubAdvances DEF TempStages
<1> QED BY <1>1, <1>2

LEMMA ProbeLooksKeeps ==
  ASSUME SubInv, NEW p \in Players, ProbeLooks(p)
  PROVE  SubInv'
<1>1. prep[p].at = "stat" /\ UNCHANGED <<media, assets, cache, probed, age, prepares, answer>>
  BY DEF ProbeLooks
<1>2. probed' \in SUBSET ((0..MaxVersions) \X (0..MaxVersions))
      /\ \A n \in probed' : n[1] <= n[2] /\ n[2] <= media.version
  BY <1>1 DEF SubInv, SubTypes, SubTimes
<1>3. CASE Probed(p)
  BY <1>1, <1>2, <1>3, ProbedKeeps
<1>4. CASE prep' = [prep EXCEPT ![p].at = "probe", ![p].key = media.version]
  <2> DEFINE k == [prep[p] EXCEPT !.at = "probe", !.key = media.version]
  <2>0. media.version \in 0..MaxVersions /\ media.version <= media.version
    BY DEF SubInv, SubTypes
  <2>1. k \in Preps /\ k.files = prep[p].files /\ k.key = media.version /\ k.at = "probe"
        /\ k.track = prep[p].track /\ k.mod = prep[p].mod /\ k.clean = prep[p].clean
    BY <2>0 DEF SubInv, SubTypes, Preps, PrepStages
  <2>2. prep' = [prep EXCEPT ![p] = k] /\ prep'[p] = k
    BY <1>4 DEF SubInv, SubTypes
  <2> HIDE DEF k
  <2>3. SubTakes(p)
    BY <1>1, <2>1, <2>2 DEF SubTakes, Locked
  <2>4. Needed(p)' /\ AnswersAreCurrent'
    BY <1>1, <2>1, <2>2 DEF Needed, SubInv, Fresh, AnswersAreCurrent
  <2>5. prepares' \in 0..MaxPrepares /\ IsInjective(k.files)
    BY <1>1, <2>1 DEF SubInv, SubTypes
  <2>6. k.track \in Tracks \cup {"search"}
    BY <1>1, <2>1 DEF SubInv, SubPlaces
  <2>7. k.track \in Embedded /\ k.clean => k.mod = media.mod
    BY <2>1 DEF SubInv, SubPlaces
  <2> QED BY <1>1, <1>2, <2>0, <2>1, <2>2, <2>3, <2>4, <2>5, <2>6, <2>7, SubQuiet DEF TempStages
<1> QED BY <1>3, <1>4 DEF ProbeLooks

LEMMA ProbeReadsKeeps ==
  ASSUME SubInv, NEW p \in Players, ProbeReads(p)
  PROVE  SubInv'
<1>1. /\ prep[p].at = "probe" /\ Probed(p)
      /\ UNCHANGED <<media, assets, cache, age, prepares, answer>>
  BY DEF ProbeReads
<1>2. probed' = probed \cup {<<prep[p].key, media.version>>}
  BY DEF ProbeReads
<1>3. prep[p].key \in 0..MaxVersions /\ media.version \in 0..MaxVersions
      /\ prep[p].key <= media.version
  BY DEF SubInv, SubTypes, SubTimes, Preps
<1>4. probed' \in SUBSET ((0..MaxVersions) \X (0..MaxVersions))
  BY <1>2, <1>3 DEF SubInv, SubTypes
<1>5. \A n \in probed' : n[1] <= n[2] /\ n[2] <= media.version
  BY <1>2, <1>3 DEF SubInv, SubTimes
<1> QED BY <1>1, <1>4, <1>5, ProbedKeeps

LEMMA FetchKeeps ==
  ASSUME SubInv, NEW p \in Players, ExtractEnds(p) \/ ReadsContained(p) \/ DownloadsTrack(p)
  PROVE  SubInv'
<1>1. /\ prep[p].at \in {"extract", "fetch"} /\ prep' = [prep EXCEPT ![p].at = "write"]
      /\ UNCHANGED <<media, assets, cache, probed, age, prepares, answer>>
  BY DEF ExtractEnds, ReadsContained, DownloadsTrack
<1>2. "write" \in PrepStages /\ prep[p].track # "search"
  BY <1>1 DEF PrepStages, SubInv, SubPlaces
<1> QED BY <1>1, <1>2, SubAdvances DEF SubInv, SubTypes, SubTimes, TempStages

LEMMA PrepareFailsKeeps ==
  ASSUME SubInv, NEW p \in Players, PrepareFails(p)
  PROVE  SubInv'
<1>1. /\ prep[p].at \notin {"list", "prune"} /\ Return(p, cache)
      /\ UNCHANGED <<media, assets, probed, age, prepares, answer>>
  BY DEF PrepareFails
<1>2. AnswersAreCurrent'
  BY <1>1 DEF SubInv, AnswersAreCurrent
<1> QED BY <1>1, <1>2, ReturnKeeps

LEMMA ExtractBeginsKeeps ==
  ASSUME SubInv, NEW p \in Players, ExtractBegins(p)
  PROVE  SubInv'
<1> DEFINE k == [prep[p] EXCEPT !.at = "extract", !.content = media.version]
<1>1. /\ prep[p].at = "open" /\ cache' = Append(cache, <<"temp", p>>)
      /\ UNCHANGED <<media, assets, probed, age, prepares, answer>>
  BY DEF ExtractBegins
<1>2. prep[p] \in Preps /\ media.version \in 0..MaxVersions
  BY DEF SubInv, SubTypes
<1>3. k \in Preps
  BY <1>2 DEF Preps, PrepStages
<1>4. k.files = prep[p].files /\ k.key = prep[p].key /\ k.at = "extract"
      /\ k.track = prep[p].track /\ k.mod = prep[p].mod /\ k.clean = prep[p].clean
  BY <1>2 DEF Preps
<1>5. prep' \in [Players -> Preps] /\ prep'[p] = k
      /\ \A q \in Players : q # p => prep'[q] = prep[q]
  BY <1>3 DEF ExtractBegins, SubInv, SubTypes
<1> HIDE DEF k
<1>6. <<"temp", p>> \in CacheFiles /\ <<"temp", p>> \notin ToSet(cache) /\ cache \in Seq(CacheFiles)
      /\ IsInjective(cache)
  BY <1>1 DEF SubInv, SubTemps, SubTypes, TempStages, CacheFiles, Temps
<1>7. /\ cache' \in Seq(CacheFiles) /\ IsInjective(cache')
      /\ ToSet(cache') = ToSet(cache) \cup {<<"temp", p>>}
  BY <1>1, <1>6, AppendIs
<1>8. prep[p].track \in Tracks /\ prep[p].track # "search"
  BY <1>1, SubtitlesAssumption DEF SubInv, SubPlaces
<1>9. SubStep(p)
  <2>1. k.key <= media.version /\ IsInjective(k.files)
    BY <1>4 DEF SubInv, SubTimes
  <2>2. k.track \in Embedded /\ k.clean => k.mod = media.mod
    BY <1>4 DEF SubInv, SubPlaces
  <2> QED BY <2>1, <2>2, <1>1, <1>4, <1>5, <1>7, <1>8 DEF SubStep, SubInv, SubTypes, SubTimes
<1>10. SubFiles(p)
  BY <1>4, <1>5, <1>7 DEF SubFiles, TempStages
<1>11. SubPrunes(p)
  <2>1. <<"temp", p>> \in Temps
    BY DEF Temps
  <2> QED BY <2>1, <1>1, <1>7 DEF SubPrunes, Prunes, Kept
<1>12. SubTakes(p)
  BY <1>1, <1>4, <1>5 DEF SubTakes, Locked
<1>13. Needed(p)'
  <2>1. \A c : c \in 0..MaxVersions => <<prep[p].track, c>> # <<"temp", p>>
    BY <1>8, SubtitlesAssumption
  <2>2. assets[prep[p].track].content \in 0..MaxVersions
    BY <1>8 DEF SubInv, SubTypes, AssetRows
  <2> QED BY <2>1, <2>2, <1>1, <1>4, <1>5, <1>7 DEF Needed, SubInv, Fresh
<1>14. AnswersAreCurrent'
  BY <1>1 DEF AnswersAreCurrent, SubInv
<1> QED BY <1>9, <1>10, <1>11, <1>12, <1>13, <1>14, SubGoes

LEMMA WritesKeeps ==
  ASSUME SubInv, NEW p \in Players, Writes(p)
  PROVE  SubInv'
<1> DEFINE k == [prep[p] EXCEPT !.at = "list"]
<1>1. /\ prep[p].at = "write" /\ cache' = Append(Without(cache, Own(p)), Own(p))
      /\ UNCHANGED <<media, assets, probed, age, prepares, answer>>
  BY DEF Writes, Own
<1>2. prep[p] \in Preps
  BY DEF SubInv, SubTypes
<1>3. k \in Preps
  BY <1>2 DEF Preps, PrepStages
<1>4. k.files = prep[p].files /\ k.key = prep[p].key /\ k.at = "list"
      /\ k.track = prep[p].track /\ k.mod = prep[p].mod /\ k.clean = prep[p].clean
  BY <1>2 DEF Preps
<1>5. prep' \in [Players -> Preps] /\ prep'[p] = k
      /\ \A q \in Players : q # p => prep'[q] = prep[q]
  BY <1>3 DEF Writes, SubInv, SubTypes
<1> HIDE DEF k
<1>6. prep[p].track \in Tracks /\ prep[p].track # "search" /\ prep[p].content \in 0..MaxVersions
  BY <1>1, <1>2, SubtitlesAssumption DEF SubInv, SubPlaces, Preps
<1>7. Own(p) \in CacheFiles
  BY <1>6 DEF Own, CacheFiles, Assets
<1>8. /\ Without(cache, Own(p)) \in Seq(CacheFiles) /\ IsInjective(Without(cache, Own(p)))
      /\ ToSet(Without(cache, Own(p))) = ToSet(cache) \ {Own(p)}
  BY WithoutIs DEF SubInv, SubTypes
<1>9. /\ cache' \in Seq(CacheFiles) /\ IsInjective(cache')
      /\ ToSet(cache') = ToSet(cache) \cup {Own(p)}
  BY <1>1, <1>7, <1>8, AppendIs
<1>10. SubStep(p)
  <2>1. k.key <= media.version /\ IsInjective(k.files)
    BY <1>4 DEF SubInv, SubTimes
  <2>2. k.track \in Embedded /\ k.clean => k.mod = media.mod
    BY <1>4 DEF SubInv, SubPlaces
  <2> QED BY <2>1, <2>2, <1>1, <1>4, <1>5, <1>6, <1>9 DEF SubStep, SubInv, SubTypes, SubTimes
<1>11. SubFiles(p)
  BY <1>1, <1>4, <1>5, <1>6, <1>9 DEF SubFiles, TempStages, Locked
<1>12. SubPrunes(p)
  BY <1>4, <1>5 DEF SubPrunes, Prunes
<1>13. SubTakes(p) /\ Needed(p)'
  BY <1>1, <1>4, <1>5 DEF SubTakes, Locked, Needed
<1>14. AnswersAreCurrent'
  BY <1>1 DEF AnswersAreCurrent, SubInv
<1> QED BY <1>10, <1>11, <1>12, <1>13, <1>14, SubGoes

LEMMA PruneListsKeeps ==
  ASSUME SubInv, NEW p \in Players, PruneLists(p)
  PROVE  SubInv'
<1> DEFINE k == [prep[p] EXCEPT !.at = "prune", !.files = cache, !.total = Len(cache)]
<1>1. /\ prep[p].at = "list" /\ UNCHANGED <<media, assets, cache, probed, age, prepares, answer>>
  BY DEF PruneLists
<1>2. prep[p] \in Preps /\ cache \in Seq(CacheFiles) /\ IsInjective(cache) /\ Len(cache) \in Nat
  BY DEF SubInv, SubTypes
<1>3. k \in Preps
  BY <1>2 DEF Preps, PrepStages
<1>4. k.files = cache /\ k.total = Len(cache) /\ k.key = prep[p].key /\ k.at = "prune"
      /\ k.track = prep[p].track /\ k.mod = prep[p].mod /\ k.clean = prep[p].clean
  BY <1>2 DEF Preps
<1>5. prep' \in [Players -> Preps] /\ prep'[p] = k
      /\ \A q \in Players : q # p => prep'[q] = prep[q]
  BY <1>3 DEF PruneLists, SubInv, SubTypes
<1> HIDE DEF k
<1>6. prep[p].track \in Tracks /\ prep[p].track # "search"
  BY <1>1, SubtitlesAssumption DEF SubInv, SubPlaces
<1>7. SubStep(p)
  <2>1. k.key <= media.version
    BY <1>4 DEF SubInv, SubTimes
  <2>2. k.track \in Embedded /\ k.clean => k.mod = media.mod
    BY <1>4 DEF SubInv, SubPlaces
  <2> QED BY <2>1, <2>2, <1>1, <1>2, <1>4, <1>5, <1>6 DEF SubStep, SubInv, SubTypes, SubTimes
<1>8. SubFiles(p)
  BY <1>1, <1>4, <1>5 DEF SubFiles, TempStages
<1>9. SubPrunes(p)
  <2>1. Kept' = Kept /\ Kept \subseteq ToSet(cache) /\ Kept \cup ToSet(cache) = ToSet(cache)
    BY <1>1 DEF Kept
  <2>2. Cardinality(ToSet(cache)) = Len(cache)
    BY <1>2, LenIs
  <2>3. Cardinality(Kept \cup ToSet(cache)) <= Len(cache)
    <3>1. Cardinality(Kept \cup ToSet(cache)) = Cardinality(ToSet(cache))
      BY <2>1
    <3>2. Cardinality(Kept \cup ToSet(cache)) = Len(cache)
      BY <3>1, <2>2
    <3> QED BY <3>2, <1>2
  <2> QED BY <2>1, <2>3, <1>4, <1>5 DEF SubPrunes, Prunes
<1>10. SubTakes(p) /\ Needed(p)'
  BY <1>1, <1>4, <1>5 DEF SubTakes, Locked, Needed
<1>11. AnswersAreCurrent'
  BY <1>1 DEF AnswersAreCurrent, SubInv
<1> QED BY <1>7, <1>8, <1>9, <1>10, <1>11, SubGoes

(* The oldest file that a pruner has listed: gone already, its own, or     *)
(* removed.                                                                *)
LEMMA PruneRemovesKeeps ==
  ASSUME SubInv, NEW p \in Players, PruneRemoves(p)
  PROVE  SubInv'
<1> DEFINE over == prep[p].files # << >> /\ prep[p].total > CacheLimit
           file == Head(prep[p].files)
           removed == file # Own(p) /\ file \in ToSet(cache)
<1>1. prep[p].at = "prune" /\ UNCHANGED <<media, assets, probed, age, prepares, answer>>
  BY DEF PruneRemoves
<1>2. /\ prep[p] \in Preps /\ cache \in Seq(CacheFiles) /\ IsInjective(cache)
      /\ IsInjective(prep[p].files)
  BY DEF SubInv, SubTypes
<1>3. prep[p].files \in Seq(CacheFiles) /\ prep[p].total \in Nat /\ CacheLimit \in Nat
      /\ CacheLimit >= 1
  BY <1>2, SubtitlesAssumption DEF Preps
<1>4. prep[p].track \in Tracks /\ prep[p].track # "search"
  BY <1>1, SubtitlesAssumption DEF SubInv, SubPlaces
<1>5. AnswersAreCurrent'
  BY <1>1 DEF AnswersAreCurrent, SubInv
<1>6. prep[p].key <= media.version
      /\ (prep[p].track \in Embedded /\ prep[p].clean => prep[p].mod = media.mod)
  BY DEF SubInv, SubTimes, SubPlaces
<1>7. IsFiniteSet(Kept) /\ IsFiniteSet(Kept \cup ToSet(prep[p].files))
      /\ Cardinality(Kept) \in Nat /\ Cardinality(Kept \cup ToSet(prep[p].files)) \in Nat
  BY <1>2, KeptIs DEF SubInv
<1>8. CASE /\ ~over /\ UNCHANGED cache
           /\ prep' = [prep EXCEPT ![p].at = "save", ![p].files = << >>, ![p].total = 0]
  <2> DEFINE k == [prep[p] EXCEPT !.at = "save", !.files = << >>, !.total = 0]
  <2>0. << >> \in Seq(CacheFiles)
    OBVIOUS
  <2>1. k \in Preps
    BY <1>2, <2>0 DEF Preps, PrepStages
  <2>2. k.files = << >> /\ k.key = prep[p].key /\ k.at = "save"
        /\ k.track = prep[p].track /\ k.mod = prep[p].mod /\ k.clean = prep[p].clean
    BY <1>2 DEF Preps
  <2>3. prep' \in [Players -> Preps] /\ prep'[p] = k
        /\ \A q \in Players : q # p => prep'[q] = prep[q]
    BY <1>8, <2>1 DEF SubInv, SubTypes
  <2> HIDE DEF k
  <2>4. IsInjective(k.files)
    BY <2>2 DEF IsInjective
  <2>5. SubStep(p)
    BY <1>1, <1>2, <1>4, <1>6, <1>8, <2>2, <2>3, <2>4 DEF SubStep, SubInv, SubTypes, SubTimes
  <2>6. SubFiles(p) /\ SubTakes(p) /\ Needed(p)'
    BY <1>1, <1>8, <2>2, <2>3 DEF SubFiles, TempStages, SubTakes, Locked, Needed
  <2>7. SubPrunes(p)
    <3>1. Kept' = Kept
      BY <1>8 DEF Kept
    <3>2. CASE ~Prunes(p)
      BY <3>1, <3>2 DEF SubPrunes
    <3>3. CASE Prunes(p)
      <4>1. /\ Kept \subseteq ToSet(prep[p].files) \cup {Own(p)}
            /\ Cardinality(Kept \cup ToSet(prep[p].files)) <= prep[p].total
        BY <1>1, <3>3 DEF Prunes
      <4>2. CASE prep[p].files = << >>
        <5>1. Kept \subseteq {Own(p)}
          BY <4>1, <4>2 DEF ToSet
        <5>2. IsFiniteSet({Own(p)}) /\ Cardinality({Own(p)}) = 1
          BY FS_Singleton
        <5>3. Cardinality(Kept) <= 1
          BY <5>1, <5>2, FS_Subset
        <5> QED BY <5>3, <3>1, <1>3, <1>7 DEF SubPrunes
      <4>3. CASE ~(prep[p].total > CacheLimit)
        <5>1. Cardinality(Kept) <= Cardinality(Kept \cup ToSet(prep[p].files))
          BY <1>7, FS_Subset
        <5>2. Cardinality(Kept) <= CacheLimit
          BY <5>1, <4>1, <4>3, <1>3, <1>7
        <5> QED BY <5>2, <3>1 DEF SubPrunes
      <4> QED BY <4>2, <4>3, <1>8
    <3> QED BY <3>2, <3>3
  <2> QED BY <2>5, <2>6, <2>7, <1>5, SubGoes
<1>9. CASE /\ over /\ cache' = IF removed THEN Without(cache, file) ELSE cache
           /\ prep' = [prep EXCEPT ![p].files = Tail(@),
                                   ![p].total = IF removed THEN @ - 1 ELSE @]
  <2> DEFINE n == IF removed THEN prep[p].total - 1 ELSE prep[p].total
             w == Tail(prep[p].files)
             k == [prep[p] EXCEPT !.files = w, !.total = n]
  <2>1. n \in Nat /\ n = IF removed THEN prep[p].total - 1 ELSE prep[p].total
    BY <1>3, <1>9
  <2>2. /\ w \in Seq(CacheFiles) /\ IsInjective(w)
        /\ file \in ToSet(prep[p].files) /\ ToSet(w) = ToSet(prep[p].files) \ {file}
    BY <1>2, <1>3, <1>9, TailIs
  <2>3. prep' = [prep EXCEPT ![p].files = w, ![p].total = n]
    BY <1>9 DEF SubInv, SubTypes
  <2> HIDE DEF n, w
  <2>4. k \in Preps
    BY <1>2, <2>1, <2>2 DEF Preps
  <2>5. k.files = w /\ k.total = n /\ k.key = prep[p].key /\ k.at = "prune"
        /\ k.track = prep[p].track /\ k.mod = prep[p].mod /\ k.clean = prep[p].clean
        /\ k.content = prep[p].content
    BY <1>1, <1>2 DEF Preps
  <2>6. prep' \in [Players -> Preps] /\ prep'[p] = k
        /\ \A q \in Players : q # p => prep'[q] = prep[q]
    BY <2>3, <2>4 DEF SubInv, SubTypes
  <2> HIDE DEF k
  <2>7. /\ cache' \in Seq(CacheFiles) /\ IsInjective(cache')
        /\ ToSet(cache') = IF removed THEN ToSet(cache) \ {file} ELSE ToSet(cache)
    BY <1>2, <1>9, WithoutIs
  <2>8. SubStep(p)
    BY <1>1, <1>2, <1>4, <1>6, <2>2, <2>5, <2>6, <2>7 DEF SubStep, SubInv, SubTypes, SubTimes
  <2>9. SubFiles(p) /\ SubTakes(p) /\ Needed(p)'
    BY <1>1, <2>5, <2>6, <2>7 DEF SubFiles, TempStages, SubTakes, Locked, Needed
  <2>10. SubPrunes(p)
    <3>1. Kept' = (IF removed THEN Kept \ {file} ELSE Kept) /\ Kept' \subseteq Kept
      BY <2>7 DEF Kept
    <3>2. CASE ~Prunes(p)
      BY <3>1, <3>2 DEF SubPrunes
    <3>3. CASE Prunes(p)
      <4> DEFINE A == Kept \cup ToSet(prep[p].files)
                 B == Kept' \cup ToSet(w)
      <4>1. Kept \subseteq ToSet(prep[p].files) \cup {Own(p)} /\ Cardinality(A) <= prep[p].total
        BY <1>1, <3>3 DEF Prunes
      <4>2. Kept' \subseteq ToSet(w) \cup {Own(p)}
        BY <3>1, <4>1, <2>2 DEF Kept
      <4>3. Cardinality(B) <= n
        <5>1. CASE removed
          <6>1. B = A \ {file} /\ file \in A
            BY <5>1, <3>1, <2>2
          <6>2. Cardinality(B) = Cardinality(A) - 1
            <7>1. IsFiniteSet(A)
              BY <1>7
            <7> HIDE DEF A, B
            <7>2. Cardinality(A \ {file}) = Cardinality(A) - 1
              BY <6>1, <7>1, FS_RemoveElement
            <7> QED BY <6>1, <7>2
          <6> QED BY <6>2, <5>1, <4>1, <2>1, <1>3, <1>7
        <5>2. CASE ~removed
          <6>1. B \subseteq A
            BY <3>1, <2>2
          <6>2. Cardinality(B) <= Cardinality(A) /\ IsFiniteSet(B)
            BY <6>1, <1>7, FS_Subset
          <6>3. Cardinality(B) \in Nat
            BY <6>2, FS_CardinalityType
          <6> QED BY <6>2, <6>3, <5>2, <4>1, <2>1, <1>3, <1>7
        <5> QED BY <5>1, <5>2
      <4>4. Own(p)' = Own(p)
        BY <2>5, <2>6 DEF Own
      <4>5. Prunes(p)'
        BY <4>2, <4>3, <4>4, <2>5, <2>6 DEF Prunes
      <4> QED BY <4>5 DEF SubPrunes
    <3> QED BY <3>2, <3>3
  <2> QED BY <2>8, <2>9, <2>10, <1>5, SubGoes
<1> QED BY <1>8, <1>9 DEF PruneRemoves, Own

LEMMA SaveSubtitleAssetKeeps ==
  ASSUME SubInv, NEW p \in Players, SaveSubtitleAsset(p)
  PROVE  SubInv'
<1> DEFINE t == prep[p].track
           row == [saved |-> TRUE, content |-> prep[p].content, at |-> age,
                   clean |-> prep[p].clean,
                   created |-> IF assets[t].saved THEN assets[t].created ELSE age]
<1>1. /\ prep[p].at = "save" /\ Return(p, cache)
      /\ Replies(p, prep[p].content, age, prep[p].clean)
      /\ UNCHANGED <<media, probed, age, prepares>>
  BY DEF SaveSubtitleAsset
<1>2. t \in Tracks
  BY <1>1, SubtitlesAssumption DEF SubInv, SubPlaces
<1>3. assets' = [assets EXCEPT ![t] = row]
  BY <1>2 DEF SaveSubtitleAsset, SubInv, SubTypes
<1>4. prep[p] \in Preps /\ assets[t] \in AssetRows /\ age \in 0..MaxAge /\ age \in Nat
  BY <1>2, SubtitlesAssumption DEF SubInv, SubTypes
<1>5. row \in AssetRows
  <2>1. (IF assets[t].saved THEN assets[t].created ELSE age) \in 0..MaxAge
    BY <1>4 DEF AssetRows
  <2>2. prep[p].content \in 0..MaxVersions /\ prep[p].clean \in BOOLEAN
    BY <1>4 DEF Preps
  <2> QED BY <1>4, <2>1, <2>2 DEF AssetRows
<1>6. row.created <= row.at /\ row.at <= age
  <2>1. assets[t].created <= assets[t].at /\ assets[t].at <= age
    BY <1>2 DEF SubInv, SubTimes
  <2>2. assets[t].created \in Nat /\ assets[t].at \in Nat
    BY <1>4, SubtitlesAssumption DEF AssetRows
  <2> QED BY <1>4, <2>1, <2>2
<1> HIDE DEF row
<1>7. /\ assets' \in [Tracks -> AssetRows] /\ assets'[t] = row
      /\ \A u \in Tracks : u # t => assets'[u] = assets[u]
  BY <1>2, <1>3, <1>5 DEF SubInv, SubTypes
<1>8. prep' \in [Players -> Preps] /\ prep'[p] = NoPrep
      /\ \A q \in Players : q # p => prep'[q] = prep[q]
  BY <1>1, NoPrepIs DEF SubInv, SubTypes, Return
<1>9. /\ cache' \in Seq(CacheFiles) /\ IsInjective(cache')
      /\ ToSet(cache') = ToSet(cache) \ {<<"temp", p>>}
  BY <1>1, WithoutIs DEF SubInv, SubTypes, Return
<1>10. /\ NoPrep.at = "idle" /\ NoPrep.key = 0 /\ NoPrep.track = "none" /\ NoPrep.clean = TRUE
       /\ "none" \notin Tracks /\ "none" \notin Embedded /\ 0 <= media.version
  BY SubtitlesAssumption DEF NoPrep, SubInv, SubTypes
<1>11. Locked(p)
  BY <1>1 DEF Locked
<1>12. SubStep(p)
  BY <1>1, <1>6, <1>7, <1>8, <1>9, <1>10, <1>11, NoPrepIs DEF SubStep, SubInv, SubTypes, SubTimes
<1>13. SubFiles(p)
  BY <1>9 DEF SubFiles
<1>14. SubPrunes(p)
  BY <1>1, <1>9 DEF SubPrunes, Prunes, Kept
<1>15. SubTakes(p) /\ Needed(p)'
  BY <1>8, <1>10 DEF SubTakes, Needed, Locked
<1>16. AnswersAreCurrent'
  <2>1. answer'.mod = media.mod /\ answer'.at = age
    BY <1>1 DEF Replies
  <2>2. media.mod <= age /\ media.mod \in Nat
    BY SubtitlesAssumption DEF SubInv, SubTimes, SubTypes
  <2> QED BY <2>1, <2>2, <1>4 DEF AnswersAreCurrent
<1> QED BY <1>12, <1>13, <1>14, <1>15, <1>16, SubGoes

(* The media file changes under every preparation.                         *)
LEMMA MediaChangesKeeps ==
  ASSUME SubInv, MediaChanges
  PROVE  SubInv'
<1>1. /\ media.version < MaxVersions /\ media.version \in Nat /\ media.mod \in Nat
      /\ age \in 0..MaxAge /\ age \in Nat /\ MaxVersions \in Nat /\ MaxAge \in Nat
  BY SubtitlesAssumption DEF MediaChanges, SubInv, SubTypes
<1>2. /\ media' \in [version: 0..MaxVersions, mod: 0..MaxAge, complete: BOOLEAN]
      /\ media'.version = media.version + 1 /\ media'.mod = age
  BY <1>1 DEF MediaChanges
<1>3. UNCHANGED <<assets, cache, probed, age, prepares, answer>>
  BY DEF MediaChanges
<1>4. ASSUME NEW p \in Players
      PROVE  /\ prep'[p] \in Preps /\ IsInjective(prep'[p].files)
             /\ prep[p].at = "idle" => prep'[p] = NoPrep
             /\ prep[p].at # "idle" =>
                   /\ prep'[p].at = prep[p].at /\ prep'[p].files = prep[p].files
                   /\ prep'[p].track = prep[p].track /\ prep'[p].mod = prep[p].mod
                   /\ prep'[p].key = prep[p].key /\ prep'[p].content = prep[p].content
                   /\ prep'[p].total = prep[p].total /\ prep'[p].clean = FALSE
  <2>0. prep[p] \in Preps /\ IsInjective(prep[p].files)
    BY DEF SubInv, SubTypes
  <2>1. CASE prep[p].at = "idle"
    <3>1. prep'[p] = NoPrep
      BY <2>1 DEF MediaChanges
    <3> QED BY <2>1, <3>1, NoPrepIs
  <2>2. CASE prep[p].at # "idle"
    <3> DEFINE k == [prep[p] EXCEPT !.clean = FALSE]
    <3>1. prep'[p] = k
      BY <2>2 DEF MediaChanges
    <3>2. k \in Preps
      BY <2>0 DEF Preps
    <3>3. /\ k.at = prep[p].at /\ k.files = prep[p].files /\ k.track = prep[p].track
          /\ k.mod = prep[p].mod /\ k.key = prep[p].key /\ k.content = prep[p].content
          /\ k.total = prep[p].total /\ k.clean = FALSE
      BY <2>0 DEF Preps
    <3> HIDE DEF k
    <3> QED BY <2>0, <2>2, <3>1, <3>2, <3>3
  <2> QED BY <2>1, <2>2
<1>5. /\ NoPrep.at = "idle" /\ NoPrep.key = 0 /\ NoPrep.track = "none"
      /\ "none" \notin Tracks /\ "none" \notin Embedded /\ "none" # "search"
  BY SubtitlesAssumption DEF NoPrep
<1>6. prep' \in [Players -> Preps]
  BY <1>4 DEF MediaChanges
<1>7. SubTypes'
  BY <1>2, <1>3, <1>6 DEF SubInv, SubTypes
<1>8. SubTimes'
  <2>1. ASSUME NEW p \in Players PROVE prep'[p].key <= media'.version
    <3>1. prep[p].key <= media.version /\ prep[p].key \in Nat
      BY SubtitlesAssumption DEF SubInv, SubTimes, SubTypes, Preps
    <3>2. CASE prep[p].at = "idle"
      <4>1. prep'[p].key = 0
        BY <3>2, <1>4, <1>5
      <4> QED BY <4>1, <1>1, <1>2
    <3>3. CASE prep[p].at # "idle"
      <4>1. prep'[p].key = prep[p].key
        BY <3>3, <1>4
      <4> QED BY <4>1, <3>1, <1>1, <1>2
    <3> QED BY <3>2, <3>3
  <2>2. ASSUME NEW n \in probed PROVE n[1] <= n[2] /\ n[2] <= media'.version
    <3>1. n[1] <= n[2] /\ n[2] <= media.version /\ n[2] \in Nat
      BY SubtitlesAssumption DEF SubInv, SubTimes, SubTypes
    <3> QED BY <3>1, <1>1, <1>2
  <2>3. media'.mod <= age
    BY <1>1, <1>2
  <2> QED BY <2>1, <2>2, <2>3, <1>3 DEF SubInv, SubTimes
<1>9. SubPlaces'
  <2> SUFFICES ASSUME NEW p \in Players
               PROVE  /\ prep'[p].at # "idle" => prep'[p].track \in Tracks \cup {"search"}
                      /\ prep'[p].track = "search" => prep'[p].at \in {"stat", "probe"}
                      /\ ~(prep'[p].track \in Embedded /\ prep'[p].clean)
    BY DEF SubPlaces
  <2>1. CASE prep[p].at = "idle"
    <3>1. prep'[p].at = "idle" /\ prep'[p].track = "none"
      BY <2>1, <1>4, <1>5
    <3> QED BY <3>1, <1>5
  <2>2. CASE prep[p].at # "idle"
    <3>1. prep'[p].at = prep[p].at /\ prep'[p].track = prep[p].track
      BY <2>2, <1>4
    <3>2. ~prep'[p].clean
      BY <2>2, <1>4
    <3> QED BY <2>2, <3>1, <3>2 DEF SubInv, SubPlaces
  <2> QED BY <2>1, <2>2
<1>10. SubLocks'
  BY <1>4, <1>5 DEF SubInv, SubLocks, Locked
<1>11. SubTemps'
  BY <1>3, <1>4 DEF SubInv, SubTemps, TempStages
<1>12. SubBounded'
  <2>1. Kept' = Kept
    BY <1>3 DEF Kept
  <2>2. \A p \in Players : Prunes(p) => Prunes(p)'
    <3> SUFFICES ASSUME NEW p \in Players, Prunes(p) PROVE Prunes(p)'
      OBVIOUS
    <3>1. prep[p].at # "idle"
      BY DEF Prunes
    <3>2. Own(p)' = Own(p)
      BY <3>1, <1>4 DEF Own
    <3> QED BY <3>1, <3>2, <2>1, <1>4 DEF Prunes
  <2> QED BY <2>1, <2>2 DEF SubInv, SubBounded
<1>13. \A p \in Players : Needed(p)'
  BY <1>3, <1>4, <1>5 DEF SubInv, Needed, Fresh
<1>14. AnswersAreCurrent'
  BY <1>3 DEF SubInv, AnswersAreCurrent
<1> QED BY <1>3, <1>4, <1>7, <1>8, <1>9, <1>10, <1>11, <1>12, <1>13, <1>14 DEF SubInv

LEMMA AgesKeeps ==
  ASSUME SubInv, Ages
  PROVE  SubInv'
<1>1. age' \in 0..MaxAge /\ age' >= age /\ age \in Nat /\ age' \in Nat
  BY SubtitlesAssumption DEF Ages, SubInv, SubTypes
<1>2. UNCHANGED <<media, assets, cache, probed, prep, prepares, answer>>
  BY DEF Ages
<1>3. SubTypes'
  BY <1>1, <1>2 DEF SubInv, SubTypes
<1>4. SubTimes'
  <2>1. ASSUME NEW t \in Tracks PROVE assets[t].created <= assets[t].at /\ assets[t].at <= age'
    <3>1. assets[t].created <= assets[t].at /\ assets[t].at <= age /\ assets[t].at \in Nat
      BY SubtitlesAssumption DEF SubInv, SubTimes, SubTypes, AssetRows
    <3> QED BY <3>1, <1>1
  <2>2. media.mod <= age'
    <3>1. media.mod <= age /\ media.mod \in Nat
      BY SubtitlesAssumption DEF SubInv, SubTimes, SubTypes
    <3> QED BY <3>1, <1>1
  <2> QED BY <2>1, <2>2, <1>2 DEF SubInv, SubTimes
<1>5. SubPlaces' /\ SubLocks' /\ SubTemps' /\ AnswersAreCurrent'
  BY <1>2 DEF SubInv, SubPlaces, SubLocks, SubTemps, AnswersAreCurrent, Locked
<1>6. SubBounded'
  BY <1>2 DEF SubInv, SubBounded, Prunes, Kept, Own
<1>7. \A p \in Players : Needed(p)'
  BY <1>2 DEF SubInv, Needed, Fresh
<1> QED BY <1>2, <1>3, <1>4, <1>5, <1>6, <1>7 DEF SubInv

LEMMA SubInvInit ==
  ASSUME SubtitlesInit
  PROVE  SubInv
<1>1. /\ 0 \in 0..MaxVersions /\ 0 \in 0..MaxAge /\ 0 \in 0..MaxPrepares
      /\ "none" \notin Embedded /\ CacheLimit \in Nat
  BY SubtitlesAssumption
<1>2. ToSet(cache) = {} /\ IsInjective(cache) /\ cache \in Seq(CacheFiles)
  BY DEF SubtitlesInit, ToSet, IsInjective
<1>3. NoAsset \in AssetRows /\ NoAsset.created = 0 /\ NoAsset.at = 0
  BY <1>1 DEF NoAsset, AssetRows
<1>4. media \in [version: 0..MaxVersions, mod: 0..MaxAge, complete: BOOLEAN]
      /\ media.version = 0 /\ media.mod = 0
  BY <1>1 DEF SubtitlesInit
<1>5. \A p \in Players : prep[p] = NoPrep
  BY DEF SubtitlesInit
<1>6. /\ NoPrep.at = "idle" /\ NoPrep.key = 0 /\ NoPrep.track = "none" /\ IsInjective(NoPrep.files)
      /\ "none" # "search"
  BY NoPrepIs DEF NoPrep
<1>7. SubTypes
  BY <1>1, <1>2, <1>3, <1>4, NoPrepIs DEF SubtitlesInit, SubTypes
<1>8. SubTimes
  BY <1>3, <1>4, <1>5, <1>6 DEF SubtitlesInit, SubTimes
<1>9. SubPlaces /\ SubLocks /\ SubTemps
  BY <1>1, <1>2, <1>5, <1>6 DEF SubPlaces, SubLocks, SubTemps, Locked
<1>10. SubBounded
  <2>1. Kept = {}
    BY <1>2 DEF Kept
  <2>2. Cardinality(Kept) = 0
    BY <2>1, FS_EmptySet
  <2> QED BY <2>2, <1>1 DEF SubBounded
<1>11. AnswersAreCurrent
  BY <1>1 DEF SubtitlesInit, NoAnswer, AnswersAreCurrent
<1>12. \A p \in Players : Needed(p)
  BY <1>5, <1>6 DEF Needed
<1> QED BY <1>2, <1>5, <1>6, <1>7, <1>8, <1>9, <1>10, <1>11, <1>12 DEF SubInv

LEMMA SubInvStep ==
  ASSUME SubInv, [SubtitlesNext]_subtitlesVars
  PROVE  SubInv'
<1>1. ASSUME NEW p \in Players, NEW t \in Tracks, PrepareBegins(p, t) PROVE SubInv'
  BY <1>1, PrepareBeginsKeeps
<1>2. ASSUME NEW p \in Players,
             \/ SearchSubtitles(p) \/ PrepareLocks(p) \/ PrepareLooks(p)
             \/ ProbeLooks(p) \/ ProbeReads(p) \/ ExtractBegins(p) \/ ExtractEnds(p)
             \/ ReadsContained(p) \/ DownloadsTrack(p) \/ PrepareFails(p) \/ Writes(p)
             \/ PruneLists(p) \/ PruneRemoves(p) \/ SaveSubtitleAsset(p)
      PROVE  SubInv'
  BY <1>2, SearchSubtitlesKeeps, PrepareLocksKeeps, PrepareLooksKeeps, ProbeLooksKeeps,
     ProbeReadsKeeps, ExtractBeginsKeeps, FetchKeeps, PrepareFailsKeeps, WritesKeeps,
     PruneListsKeeps, PruneRemovesKeeps, SaveSubtitleAssetKeeps
<1>3. CASE MediaChanges
  BY <1>3, MediaChangesKeeps
<1>4. CASE Ages
  BY <1>4, AgesKeeps
<1>5. CASE UNCHANGED subtitlesVars
  <2>1. UNCHANGED <<media, assets, cache, probed, prep, age, prepares, answer>>
    BY <1>5 DEF subtitlesVars
  <2> QED BY <2>1 DEF SubInv, SubTypes, SubTimes, SubPlaces, SubLocks, SubTemps, SubBounded,
        Prunes, Kept, Own, Needed, Fresh, Locked, AnswersAreCurrent
<1> QED BY <1>1, <1>2, <1>3, <1>4, <1>5 DEF SubtitlesNext

(* What the invariant says of the answers, the reads, the probes and the   *)
(* cache.                                                                  *)
LEMMA SubSafe ==
  ASSUME SubInv
  PROVE  SubtitlesSafe
<1>1. SubtitlesTypeOK
  <2>1. ToSet(cache) \subseteq CacheFiles
    BY DEF SubInv, SubTypes, ToSet
  <2>2. ASSUME NEW p \in Players
        PROVE  /\ prep[p].at \in PrepStages /\ prep[p].track \in Tracks \cup {"none", "search"}
               /\ ToSet(prep[p].files) \subseteq CacheFiles /\ prep[p].total \in Nat
    <3>1. prep[p] \in Preps
      BY DEF SubInv, SubTypes
    <3>2. prep[p].files \in Seq(CacheFiles) /\ prep[p].at \in PrepStages
          /\ prep[p].track \in Tracks \cup {"none", "search"} /\ prep[p].total \in Nat
      BY <3>1 DEF Preps
    <3> QED BY <3>2 DEF ToSet
  <2>3. ASSUME NEW t \in Tracks
        PROVE  assets[t] \in [saved: BOOLEAN, content: 0..MaxVersions, created: 0..age,
                              at: 0..age, clean: BOOLEAN]
    <3>1. assets[t] \in AssetRows /\ age \in Nat /\ MaxAge \in Nat
      BY SubtitlesAssumption DEF SubInv, SubTypes
    <3>2. assets[t].created \in Nat /\ assets[t].at \in Nat
      BY <3>1 DEF AssetRows
    <3>3. assets[t].created <= assets[t].at /\ assets[t].at <= age
      BY DEF SubInv, SubTimes
    <3>4. assets[t].created \in 0..age /\ assets[t].at \in 0..age
      BY <3>1, <3>2, <3>3
    <3> QED BY <3>1, <3>4 DEF AssetRows
  <2>4. assets \in [Tracks -> [saved: BOOLEAN, content: 0..MaxVersions, created: 0..age,
                               at: 0..age, clean: BOOLEAN]]
    BY <2>3 DEF SubInv, SubTypes
  <2> QED BY <2>1, <2>2, <2>4
          DEF SubInv, SubTypes, SubtitlesTypeOK, CacheFiles, Assets, Temps, PrepStages
<1>2. ReadsAreNeeded /\ AnswersAreCurrent
  <2>1. ASSUME NEW p \in Players, ReadsMedia(p), MadeSince(p)
        PROVE  RowOutdated(prep[p].track, prep[p].mod)
    <3>1. prep[p].track \in Tracks /\ Needed(p)
      BY <2>1 DEF ReadsMedia, SubInv
    <3>2. ~Fresh(prep[p].track, prep[p].mod) /\ assets[prep[p].track].saved
      BY <2>1, <3>1 DEF Needed, ReadsMedia, MadeSince
    <3>3. assets[prep[p].track] \in AssetRows /\ prep[p] \in Preps /\ MaxAge \in Nat
      BY <3>1, SubtitlesAssumption DEF SubInv, SubTypes, Assets
    <3>4. /\ assets[prep[p].track].created \in Nat /\ assets[prep[p].track].at \in Nat
          /\ prep[p].mod \in Nat
      BY <3>3 DEF AssetRows, Preps
    <3>5. assets[prep[p].track].at + 1 >= prep[p].mod
      BY <2>1 DEF MadeSince
    <3> QED BY <3>2, <3>4, <3>5 DEF Fresh, RowOutdated
  <2> QED BY <2>1 DEF ReadsAreNeeded, SubInv
<1>3. CacheIsBounded
  <2> SUFFICES ASSUME \A p \in Players : ~Locked(p) PROVE Len(cache) <= CacheLimit
    BY DEF CacheIsBounded
  <2>1. \A p \in Players : prep[p].at \notin TempStages
    BY DEF Locked, TempStages
  <2>2. Cardinality(Kept) <= CacheLimit
    BY <2>1 DEF SubInv, SubBounded, Prunes, TempStages
  <2>3. ToSet(cache) \cap Temps = {}
    BY <2>1 DEF SubInv, SubTemps, Temps
  <2>4. Kept = ToSet(cache)
    BY <2>3 DEF Kept
  <2>5. Cardinality(ToSet(cache)) = Len(cache)
    BY LenIs DEF SubInv, SubTypes
  <2> QED BY <2>2, <2>4, <2>5
<1>4. ProbesAreCurrent
  <2> SUFFICES ASSUME NEW n \in probed, n[1] = media.version PROVE n[2] = media.version
    BY DEF ProbesAreCurrent
  <2>1. n[1] <= n[2] /\ n[2] <= media.version /\ n[2] \in Nat /\ media.version \in Nat
    BY SubtitlesAssumption DEF SubInv, SubTimes, SubTypes
  <2> QED BY <2>1
<1> QED BY <1>1, <1>2, <1>3, <1>4 DEF SubtitlesSafe

(* However players overlap, fail, and remove each other's files: a player  *)
(* is not given a conversion that is older than the media file, nobody     *)
(* reads the whole file for a conversion that is at hand and was made      *)
(* since the file changed, unless its row is out of date for good, what is *)
(* remembered of a version was read from it, and the cache is within its   *)
(* limit when nobody is at work (SearchSubtitles, PrepareSubtitle,         *)
(* probeSubtitles, pruneSubtitleCache).                                    *)
THEOREM SubtitlesTheorem ==
  SubtitlesInit /\ [][SubtitlesNext]_subtitlesVars => []SubtitlesSafe
<1>1. SubtitlesInit => SubInv
  BY SubInvInit
<1>2. SubInv /\ [SubtitlesNext]_subtitlesVars => SubInv'
  BY SubInvStep
<1>3. SubInv => SubtitlesSafe
  BY SubSafe
<1> QED BY <1>1, <1>2, <1>3, PTL
--------------------------------------------------------------------------------
(* The library state: sequences, and the numbers taken from them.          *)

(* What holds of 0 and of the next number holds of all up to a bound.      *)
LEMMA UpTo ==
  ASSUME NEW L \in Nat, NEW S, 0 \in S, \A n \in 1..L : n - 1 \in S => n \in S
  PROVE  \A n \in 0..L : n \in S
<1> DEFINE bad == (0..L) \ S
<1>1. ASSUME bad # {} PROVE FALSE
  <2>1. bad \in SUBSET Nat
    OBVIOUS
  <2>2. PICK m \in bad : \A n \in bad : m <= n
    <3> HIDE DEF bad
    <3> QED BY <1>1, <2>1, LeastOf
  <2>3. m \in 0..L /\ m \notin S
    BY <2>2
  <2>4. m \in 1..L /\ m - 1 \in 0..L
    BY <2>3
  <2>5. m - 1 \notin bad
    <3> HIDE DEF bad
    <3>1. ASSUME m - 1 \in bad PROVE FALSE
      <4>1. m <= m - 1
        BY <3>1, <2>2
      <4> QED BY <4>1, <2>3
    <3> QED BY <3>1
  <2> QED BY <2>3, <2>4, <2>5
<1> QED BY <1>1

(* A recursion over the numbers up to a bound has a solution.              *)
IsRun(f, L, b, g) == f = [n \in 0..L |-> IF n = 0 THEN b ELSE g[<<n, f[n - 1]>>]]

LEMMA SomeRun ==
  ASSUME NEW L \in Nat, NEW b, NEW g
  PROVE  \E f : IsRun(f, L, b, g)
<1> DEFINE S == {N \in 0..L : \E f : IsRun(f, N, b, g)}
<1>1. 0 \in S
  <2> DEFINE f == [n \in 0..0 |-> b]
  <2>1. f = [n \in 0..0 |-> IF n = 0 THEN b ELSE g[<<n, f[n - 1]>>]]
    OBVIOUS
  <2>2. IsRun(f, 0, b, g)
    BY <2>1 DEF IsRun
  <2> HIDE DEF f
  <2> QED BY <2>2
<1>2. ASSUME NEW N \in 1..L, N - 1 \in S PROVE N \in S
  <2>1. PICK f : IsRun(f, N - 1, b, g)
    BY <1>2
  <2>2. \A n \in 0..(N - 1) : f[n] = IF n = 0 THEN b ELSE g[<<n, f[n - 1]>>]
    BY <2>1 DEF IsRun
  <2> DEFINE h == [n \in 0..N |-> IF n = N THEN g[<<N, f[N - 1]>>] ELSE f[n]]
  <2>3. \A n \in 0..N : h[n] = IF n = 0 THEN b ELSE g[<<n, h[n - 1]>>]
    <3> SUFFICES ASSUME NEW n \in 0..N PROVE h[n] = IF n = 0 THEN b ELSE g[<<n, h[n - 1]>>]
      OBVIOUS
    <3>1. CASE n = N
      <4>1. h[n] = g[<<N, f[N - 1]>>] /\ N - 1 \in 0..N /\ N - 1 # N
        BY <3>1
      <4>2. h[N - 1] = f[N - 1]
        BY <4>1
      <4> HIDE DEF h
      <4> QED BY <3>1, <4>1, <4>2
    <3>2. CASE n # N
      <4>1. n \in 0..(N - 1) /\ h[n] = f[n]
        BY <3>2
      <4>2. CASE n = 0
        BY <4>1, <4>2, <2>2
      <4>3. CASE n # 0
        <5>1. n - 1 \in 0..N /\ n - 1 # N
          BY <4>1, <4>3
        <5>2. h[n - 1] = f[n - 1]
          BY <5>1
        <5> HIDE DEF h
        <5> QED BY <4>1, <4>3, <5>2, <2>2
      <4> QED BY <4>2, <4>3
    <3> QED BY <3>1, <3>2
  <2>4. h = [n \in 0..N |-> h[n]]
    OBVIOUS
  <2> HIDE DEF h
  <2>5. IsRun(h, N, b, g)
    BY <2>3, <2>4 DEF IsRun
  <2> QED BY <2>5
<1>3. \A n \in 0..L : n \in S
  <2> HIDE DEF S
  <2> QED BY <1>1, <1>2, UpTo
<1>4. L \in S
  <2> HIDE DEF S
  <2> QED BY <1>3
<1> QED BY <1>4

(* The greatest of a bounded set.                                          *)
LEMMA MaxIs ==
  ASSUME NEW S \in SUBSET Nat, S # {}, NEW N \in Nat, \A x \in S : x <= N
  PROVE  Max(S) \in S /\ \A x \in S : x <= Max(S)
<1> DEFINE above == {m \in Nat : \A x \in S : x <= m}
<1>1. PICK m \in above : \A n \in above : m <= n
  <2>1. above \in SUBSET Nat /\ N \in above
    OBVIOUS
  <2> HIDE DEF above
  <2> QED BY <2>1, LeastOf
<1>2. m \in Nat /\ \A x \in S : x <= m
  BY <1>1
<1>3. m \in S
  <2> SUFFICES ASSUME m \notin S PROVE FALSE
    OBVIOUS
  <2>1. \A x \in S : x <= m - 1 /\ m - 1 \in Nat
    BY <1>2
  <2>2. m - 1 \in above
    BY <2>1
  <2>3. m <= m - 1
    <3> HIDE DEF above
    <3> QED BY <1>1, <2>2
  <2> QED BY <2>3, <1>2
<1>4. \E x \in S : \A y \in S : x >= y
  BY <1>2, <1>3
<1>5. Max(S) \in S /\ \A y \in S : Max(S) >= y
  BY <1>4 DEF Max
<1> QED BY <1>5

(* How many of the members of a sequence are in a set.                     *)
LEMMA CountIs ==
  ASSUME NEW L \in Nat, NEW S \in SUBSET (1..L)
  PROVE  /\ Cardinality(S) \in 0..L
         /\ Cardinality(S) = L <=> S = 1..L
         /\ Cardinality(S) = 0 <=> S = {}
<1>1. IsFiniteSet(1..L) /\ Cardinality(1..L) = L
  BY FS_Interval
<1>2. IsFiniteSet(S) /\ Cardinality(S) <= L /\ (Cardinality(S) = L => S = 1..L)
  BY <1>1, FS_Subset
<1>3. Cardinality(S) \in Nat /\ (Cardinality(S) = 0 <=> S = {})
  BY <1>2, FS_CardinalityType, FS_EmptySet
<1> QED BY <1>1, <1>2, <1>3

(* A finite set has a member that is the greatest in some number.          *)
LEMMA Greatest ==
  ASSUME NEW S, IsFiniteSet(S), S # {}, NEW f, \A x \in S : f[x] \in Nat
  PROVE  \E m \in S : \A x \in S : f[x] <= f[m]
<1>1. PICK e \in Seq(S) : \A x \in S : \E n \in 1..Len(e) : e[n] = x
  BY DEF IsFiniteSet
<1>2. Len(e) \in Nat /\ \A n \in 1..Len(e) : e[n] \in S
  OBVIOUS
<1> DEFINE P(n) == n = 0 \/ \E k \in 1..n : \A j \in 1..n : f[e[j]] <= f[e[k]]
           good == {n \in 0..Len(e) : P(n)}
<1>3. \A n \in 1..Len(e) : f[e[n]] \in Nat
  BY <1>2
<1>4. 0 \in good
  BY <1>2
<1>5. ASSUME NEW n \in 1..Len(e), n - 1 \in good PROVE n \in good
  <2>1. n - 1 \in 0..Len(e) /\ P(n - 1)
    BY <1>5
  <2>2. 1..n = 1..(n - 1) \cup {n} /\ 1..n \subseteq 1..Len(e)
    BY <1>2, <1>5
  <2>3. CASE n - 1 = 0
    <3>1. n = 1 /\ 1..n = {1}
      BY <2>3, <1>5
    <3>2. P(n)
      BY <3>1, <1>3
    <3> QED BY <3>2, <1>5
  <2>4. CASE n - 1 # 0
    <3>1. PICK k \in 1..(n - 1) : \A j \in 1..(n - 1) : f[e[j]] <= f[e[k]]
      BY <2>1, <2>4
    <3>2. CASE f[e[n]] <= f[e[k]]
      <4>1. \A j \in 1..n : f[e[j]] <= f[e[k]]
        BY <3>1, <3>2, <2>2
      <4>2. k \in 1..n
        BY <3>1, <2>2
      <4> QED BY <4>1, <4>2
    <3>3. CASE ~(f[e[n]] <= f[e[k]])
      <4> DEFINE v(j) == f[e[j]]
      <4>1. /\ v(n) \in Nat /\ v(k) \in Nat /\ ~(v(n) <= v(k))
            /\ \A j \in 1..(n - 1) : v(j) \in Nat /\ v(j) <= v(k)
        BY <3>1, <3>3, <2>2, <1>3
      <4>2. n \in 1..n
        BY <2>2
      <4>3. \A j \in 1..n : v(j) <= v(n)
        <5> SUFFICES ASSUME NEW j \in 1..n PROVE v(j) <= v(n)
          OBVIOUS
        <5>1. j = n \/ j \in 1..(n - 1)
          BY <2>2
        <5> HIDE DEF v
        <5>2. CASE j = n
          BY <4>1, <5>2
        <5>3. CASE j \in 1..(n - 1)
          <6>1. v(j) \in Nat /\ v(j) <= v(k)
            BY <4>1, <5>3
          <6> QED BY <4>1, <6>1
        <5> QED BY <5>1, <5>2, <5>3
      <4> QED BY <4>2, <4>3
    <3>4. P(n)
      BY <3>2, <3>3
    <3>5. n \in 0..Len(e)
      BY <1>2, <1>5
    <3> HIDE DEF P
    <3> QED BY <3>4, <3>5
  <2> QED BY <2>3, <2>4
<1>6. \A n \in 0..Len(e) : n \in good
  <2> HIDE DEF good
  <2> QED BY <1>2, <1>4, <1>5, UpTo
<1>7. P(Len(e))
  <2>1. Len(e) \in good
    <3> HIDE DEF good
    <3> QED BY <1>2, <1>6
  <2> QED BY <2>1
<1>8. Len(e) # 0
  BY <1>1
<1>9. PICK k \in 1..Len(e) : \A j \in 1..Len(e) : f[e[j]] <= f[e[k]]
  BY <1>7, <1>8
<1> QED BY <1>1, <1>2, <1>9

(* What is downloaded, and what was watched, as a source.                  *)
HeldAs(r, s) == RowOf[r].release = s.release /\ Managed(r) /\ Matches(r, s)
WatchedAs(r, s) ==
    /\ RowOf[r].release = s.release /\ played[r] # "none"
    /\ s.file < 0 \/ RowOf[r].file = s.file

(* The parts of a media state that anything is said of.                    *)
MediaOK(st) == /\ st.progress \in 0..Full
               /\ st.transfer \in {"idle", "complete", "paused", "queued", "active", "error"}

SourceSays(s) ==
    LET st == sourceState(s)
    IN  /\ MediaOK(st)
        /\ st.download # "none" <=> \E r \in Rows : HeldAs(r, s)
        /\ st.download = "downloaded" <=> \E r \in Rows : HeldAs(r, s) /\ downloads[r].progress = Full
        /\ st.download = "downloaded" <=> st.progress = Full
        /\ st.transfer = "error" => st.download = "error"
        /\ \A r \in Rows : HeldAs(r, s) => downloads[r].progress <= st.progress
        /\ st.progress = 0 \/ \E r \in Rows : HeldAs(r, s) /\ downloads[r].progress = st.progress
        /\ st.watch # "unwatched" <=> \E r \in Rows : WatchedAs(r, s)

(* The furthest row exists.                                                *)
LEMMA SelectedIs ==
  LibraryTypeOK => \A s \in SourceOf :
    /\ \A r \in Selected(s) : r \in Rows /\ HeldAs(r, s)
                              /\ \A q \in Rows : HeldAs(q, s) =>
                                    downloads[q].progress <= downloads[r].progress
    /\ (\E r \in Rows : HeldAs(r, s)) => Selected(s) # {}
<1> SUFFICES ASSUME LibraryTypeOK, NEW s \in SourceOf
             PROVE  /\ \A r \in Selected(s) : r \in Rows /\ HeldAs(r, s)
                              /\ \A q \in Rows : HeldAs(q, s) =>
                                    downloads[q].progress <= downloads[r].progress
                    /\ (\E r \in Rows : HeldAs(r, s)) => Selected(s) # {}
  OBVIOUS
<1> DEFINE rows == {r \in Rows : HeldAs(r, s)}
           far(r) == downloads[r].progress
           when(r) == RowOf[r].created
<1>1. \A r \in rows : far(r) \in 0..Full /\ when(r) \in Nat
  <2> SUFFICES ASSUME NEW r \in rows PROVE far(r) \in 0..Full /\ when(r) \in Nat
    OBVIOUS
  <2>1. r \in Rows /\ Managed(r)
    BY DEF HeldAs
  <2>2. downloads[r].progress \in -1..Full /\ Full \in Nat
    BY <2>1, LibraryStateAssumption DEF LibraryTypeOK
  <2>3. RowOf[r].created \in Nat
    BY <2>1, LibraryStateAssumption
  <2> QED BY <2>1, <2>2, <2>3 DEF Managed
<1>2. Selected(s) = {r \in rows : \A q \in rows : \/ far(q) < far(r)
                                                  \/ far(q) = far(r) /\ when(q) <= when(r)}
  BY DEF Selected, RowsOf, HeldAs
<1>3. \A r \in Selected(s) : r \in rows /\ \A q \in rows : far(q) <= far(r)
  <2> HIDE DEF rows, far, when
  <2> QED BY <1>1, <1>2
<1>4. ASSUME rows # {} PROVE Selected(s) # {}
  <2> DEFINE f == [r \in Rows |-> far(r)]
             g == [r \in Rows |-> when(r)]
  <2>1. /\ rows \subseteq Rows /\ IsFiniteSet(rows)
        /\ \A r \in rows : /\ far(r) \in 0..Full /\ when(r) \in Nat
                           /\ f[r] = far(r) /\ g[r] = when(r)
    <3>1. rows \subseteq Rows
      OBVIOUS
    <3>2. IsFiniteSet(rows)
      <4> HIDE DEF rows
      <4> QED BY <3>1, LibraryStateAssumption, FS_Subset
    <3> QED BY <1>1, <3>1, <3>2
  <2>2. Full \in Nat
    BY LibraryStateAssumption
  <2> HIDE DEF rows, far, when, f, g
  <2>3. PICK m \in rows : \A q \in rows : far(q) <= far(m)
    <3>1. \E m \in rows : \A q \in rows : f[q] <= f[m]
      BY <1>4, <2>1, <2>2, Greatest
    <3> QED BY <2>1, <3>1
  <2> DEFINE tops == {r \in rows : far(r) = far(m)}
  <2>4. m \in tops /\ IsFiniteSet(tops) /\ \A r \in tops : g[r] \in Nat
    <3>1. tops \subseteq rows /\ m \in tops
      OBVIOUS
    <3>2. IsFiniteSet(tops)
      <4> HIDE DEF tops
      <4> QED BY <2>1, <3>1, FS_Subset
    <3> QED BY <2>1, <3>1, <3>2
  <2>5. \E r \in tops : \A q \in tops : g[q] <= g[r]
    <3> HIDE DEF tops
    <3> QED BY <2>4, Greatest
  <2>6. PICK r \in tops : \A q \in tops : when(q) <= when(r)
    BY <2>1, <2>5
  <2>7. ASSUME NEW q \in rows
        PROVE  far(q) < far(r) \/ (far(q) = far(r) /\ when(q) <= when(r))
    <3>1. far(q) <= far(m) /\ far(r) = far(m) /\ r \in rows
      BY <2>3, <2>6, <2>7
    <3>2. CASE far(q) = far(m)
      BY <3>1, <3>2, <2>6, <2>7
    <3>3. CASE far(q) # far(m)
      BY <3>1, <3>3, <2>1, <2>3
    <3> QED BY <3>2, <3>3
  <2>8. r \in rows
    BY <2>6
  <2> QED BY <1>2, <2>7, <2>8
<1> QED BY <1>3, <1>4

(* What a source shows is what its furthest row says, and what was watched *)
(* of it does not depend on which row that is.                             *)
LEMMA WatchIs ==
  LibraryTypeOK => \A s \in SourceOf :
    Watch(WatchOf(s)) # "unwatched" <=> \E r \in Rows : WatchedAs(r, s)
<1> SUFFICES ASSUME LibraryTypeOK, NEW s \in SourceOf
             PROVE  Watch(WatchOf(s)) # "unwatched" <=> \E r \in Rows : WatchedAs(r, s)
  OBVIOUS
<1> DEFINE own == {played[r] : r \in Selected(s)} \ {"none"}
           all == Watches(s)
<1>1. \A r \in Rows : played[r] \in {"none", "started", "watched"}
  BY DEF LibraryTypeOK
<1>2. \A r \in Selected(s) : /\ r \in Rows /\ RowOf[r].release = s.release
                             /\ s.file < 0 \/ RowOf[r].file = s.file
  <2>1. \A r \in Selected(s) : r \in Rows /\ HeldAs(r, s)
    BY SelectedIs
  <2>2. s.file \in Nat \cup {-1}
    BY DEF SourceOf
  <2> QED BY <2>1, <2>2 DEF HeldAs, Matches
<1>3. all = {played[r] : r \in {q \in Rows : RowOf[q].release = s.release
                                            /\ (s.file < 0 \/ RowOf[q].file = s.file)}}
  BY DEF Watches, RowsOf
<1>4. own \subseteq all /\ all \subseteq {"none", "started", "watched"}
  BY <1>1, <1>2, <1>3
<1>5. WatchOf(s) = MostWatched(IF own # {} THEN own ELSE all)
  BY DEF WatchOf
<1>6. all \subseteq {"none"} <=> ~\E r \in Rows : WatchedAs(r, s)
  BY <1>3 DEF WatchedAs
<1>7. "none" \notin own
  OBVIOUS
<1> HIDE DEF own, all
<1>8. ASSUME NEW ws \in SUBSET {"none", "started", "watched"}
      PROVE  Watch(MostWatched(ws)) # "unwatched" <=> ~(ws \subseteq {"none"})
  BY <1>8 DEF Watch, MostWatched
<1>9. CASE own # {}
  <2>1. own \in SUBSET {"none", "started", "watched"} /\ ~(own \subseteq {"none"})
    BY <1>4, <1>7, <1>9
  <2>2. Watch(MostWatched(own)) # "unwatched"
    BY <2>1, <1>8
  <2> QED BY <2>1, <2>2, <1>4, <1>5, <1>6, <1>9
<1>10. CASE own = {}
  <2>1. Watch(MostWatched(all)) # "unwatched" <=> ~(all \subseteq {"none"})
    BY <1>4, <1>8
  <2> QED BY <2>1, <1>5, <1>6, <1>10
<1> QED BY <1>9, <1>10

LEMMA SourceIs == LibraryTypeOK => \A s \in SourceOf : SourceSays(s)
<1> SUFFICES ASSUME LibraryTypeOK, NEW s \in SourceOf PROVE SourceSays(s)
  OBVIOUS
<1> DEFINE st == sourceState(s)
           w == Watch(WatchOf(s))
<1>0. /\ Full \in Nat \ {0}
      /\ w # "unwatched" <=> \E r \in Rows : WatchedAs(r, s)
  BY WatchIs, LibraryStateAssumption
<1>1. CASE Selected(s) = {}
  <2>1. /\ st.download = "none" /\ st.transfer = "idle" /\ st.progress = 0 /\ st.watch = w
    BY <1>1 DEF sourceState, emptyMediaState
  <2>2. \A r \in Rows : ~HeldAs(r, s)
    BY <1>1, SelectedIs
  <2> HIDE DEF st, w
  <2>3. MediaOK(st)
    BY <2>1, <1>0 DEF MediaOK
  <2> QED BY <2>1, <2>2, <2>3, <1>0, WatchIs DEF SourceSays, st, w
<1>2. CASE Selected(s) # {}
  <2> DEFINE r == CHOOSE r \in Selected(s) : TRUE
             d == downloads[r]
  <2>1. r \in Selected(s)
    BY <1>2
  <2>2. r \in Rows /\ HeldAs(r, s) /\ \A q \in Rows : HeldAs(q, s) => downloads[q].progress <= d.progress
    BY <2>1, SelectedIs
  <2>3. d.progress \in 0..Full /\ d.status \in {"active", "paused", "queued", "error"}
    <3> HIDE DEF r
    <3>1. downloads[r] \in [progress: -1..Full, status: Statuses \cup {"active"}]
      BY <2>2 DEF LibraryTypeOK
    <3>2. d.progress >= 0
      BY <2>2 DEF HeldAs, Managed
    <3> QED BY <3>1, <3>2, <1>0, LibraryStateAssumption
  <2>4. /\ st.download = DownloadState(d)[1] /\ st.transfer = DownloadState(d)[2]
        /\ st.progress = d.progress /\ st.watch = w
    BY <1>2 DEF sourceState, emptyMediaState
  <2> HIDE DEF st, w, r, d
  <2>5. CASE d.progress = Full
    <3>1. DownloadState(d) = <<"downloaded", "complete">>
      BY <2>5, <1>0 DEF DownloadState
    <3>2. st.download = "downloaded" /\ st.transfer = "complete" /\ st.progress = Full
      BY <2>4, <2>5, <3>1
    <3>3. MediaOK(st)
      BY <3>2, <1>0 DEF MediaOK
    <3> QED BY <3>2, <3>3, <2>2, <2>4, <2>5, <1>0, WatchIs DEF SourceSays, st, w, d
  <2>6. CASE d.progress # Full
    <3>1. d.progress < Full
      BY <2>3, <2>6, <1>0
    <3>2. DownloadState(d) \in {<<"error", "error">>, <<"downloading", "paused">>,
                                <<"queued", "queued">>, <<"downloading", "active">>}
      BY <2>3, <2>6, <3>1 DEF DownloadState
    <3>3. /\ st.download \in {"error", "downloading", "queued"}
          /\ st.transfer \in {"error", "paused", "queued", "active"}
          /\ st.transfer = "error" => st.download = "error"
      BY <2>4, <3>2
    <3>4. MediaOK(st)
      BY <3>3, <2>3, <2>4 DEF MediaOK
    <3>5. \A q \in Rows : HeldAs(q, s) => downloads[q].progress # Full
      <4>1. ASSUME NEW q \in Rows, HeldAs(q, s), downloads[q].progress = Full PROVE FALSE
        <5>1. Full <= d.progress
          BY <4>1, <2>2
        <5> QED BY <5>1, <3>1, <2>3, <1>0
      <4> QED BY <4>1
    <3> QED BY <3>3, <3>4, <3>5, <2>2, <2>4, <2>6, <1>0, WatchIs DEF SourceSays, st, w, d
  <2> QED BY <2>5, <2>6
<1> QED BY <1>1, <1>2

(* What an aggregate shows of the states that it is made of.               *)
Aggregated(states, all, st) ==
    /\ MediaOK(st)
    /\ st.download # "none" <=> \E i \in DOMAIN states : states[i].download # "none"
    /\ ~all => (st.download = "downloaded" <=>
                  \E i \in DOMAIN states : states[i].download = "downloaded")
    /\ all => (st.download = "downloaded" <=>
                 states # << >> /\ \A i \in DOMAIN states : states[i].download = "downloaded")
    /\ st.transfer = "error" <=> \E i \in DOMAIN states : states[i].transfer = "error"
    /\ st.watch # "unwatched" <=> \E i \in DOMAIN states : states[i].watch # "unwatched"
    /\ \A i \in DOMAIN states : states[i].progress <= st.progress
    /\ st.progress = 0 \/ \E i \in DOMAIN states : states[i].progress = st.progress

LEMMA TransferIs ==
  ASSUME NEW ts
  PROVE  /\ mergeTransferState(ts) \in {"idle", "complete", "paused", "queued", "active", "error"}
         /\ mergeTransferState(ts) = "error" <=> "error" \in ts
<1> DEFINE S == {i \in DOMAIN Priorities : Priorities[i] \in ts \cup {"idle"}}
<1>1. /\ DOMAIN Priorities = 1..6 /\ Priorities[1] = "idle" /\ Priorities[2] = "complete"
      /\ Priorities[3] = "paused" /\ Priorities[4] = "queued" /\ Priorities[5] = "active"
      /\ Priorities[6] = "error"
  BY DEF Priorities
<1>2. S \in SUBSET Nat /\ S # {} /\ \A x \in S : x <= 6
  BY <1>1
<1>3. Max(S) \in S /\ \A x \in S : x <= Max(S)
  <2> HIDE DEF S
  <2> QED BY <1>2, MaxIs
<1>4. mergeTransferState(ts) = Priorities[Max(S)]
  BY DEF mergeTransferState
<1>5. Max(S) \in 1..6 /\ Priorities[Max(S)] \in ts \cup {"idle"}
  BY <1>1, <1>3
<1>6. "error" \in ts => 6 \in S
  BY <1>1
<1>7. "error" \in ts => Max(S) = 6
  <2> HIDE DEF S
  <2> QED BY <1>3, <1>5, <1>6
<1> HIDE DEF S
<1> QED BY <1>1, <1>4, <1>5, <1>7

LEMMA AggregateIs ==
  ASSUME NEW T, NEW states \in Seq(T), NEW all \in BOOLEAN,
         \A i \in DOMAIN states : MediaOK(states[i])
  PROVE  Aggregated(states, all, aggregateMediaStates(states, all))
<1> DEFINE st == aggregateMediaStates(states, all)
           L == Len(states)
           down == {i \in DOMAIN states : states[i].download = "downloaded"}
           man == {i \in DOMAIN states : states[i].download # "none"}
           seen == {i \in DOMAIN states : states[i].watch = "watched"}
           new == {i \in DOMAIN states : states[i].watch # "unwatched"}
           enough(n) == IF all THEN n = L ELSE n > 0
<1>0. L \in Nat /\ DOMAIN states = 1..L /\ Full \in Nat
  BY LibraryStateAssumption
<1>1. CASE states = << >>
  <2>1. st = emptyMediaState /\ DOMAIN states = {}
    BY <1>1 DEF aggregateMediaStates
  <2>2. st.download = "none" /\ st.transfer = "idle" /\ st.watch = "unwatched" /\ st.progress = 0
    <3> HIDE DEF st
    <3> QED BY <2>1 DEF emptyMediaState
  <2> HIDE DEF st
  <2>3. MediaOK(st)
    BY <2>2, <1>0 DEF MediaOK
  <2> QED BY <2>1, <2>2, <2>3, <1>1 DEF Aggregated, st
<1>2. CASE states # << >>
  <2>1. L > 0
    BY <1>0, <1>2
  <2>2. /\ st.transfer = mergeTransferState({states[i].transfer : i \in DOMAIN states})
        /\ st.download = IF enough(Cardinality(down)) THEN "downloaded"
                         ELSE IF Cardinality(man) = 0 THEN "none"
                         ELSE IF all THEN "partial" ELSE "downloading"
        /\ st.watch = IF enough(Cardinality(seen)) THEN "watched"
                      ELSE IF Cardinality(new) = 0 THEN "unwatched"
                      ELSE IF all THEN "partial" ELSE "inProgress"
        /\ st.progress = Furthest(states).progress
    BY <1>2 DEF aggregateMediaStates, Count
  <2>3. /\ down \in SUBSET (1..L) /\ man \in SUBSET (1..L)
        /\ seen \in SUBSET (1..L) /\ new \in SUBSET (1..L)
    BY <1>0
  <2>4. ASSUME NEW S \in SUBSET (1..L)
        PROVE  /\ enough(Cardinality(S)) <=> IF all THEN S = 1..L ELSE S # {}
               /\ Cardinality(S) = 0 <=> S = {}
    BY <1>0, <2>4, CountIs
  <2>5. /\ st.download # "none" <=> \E i \in DOMAIN states : states[i].download # "none"
        /\ st.download = "downloaded" <=> IF all THEN down = 1..L ELSE down # {}
    <3>1. enough(Cardinality(down)) <=> IF all THEN down = 1..L ELSE down # {}
      <4> HIDE DEF down, enough
      <4> QED BY <2>3, <2>4
    <3>2. Cardinality(man) = 0 <=> man = {}
      <4> HIDE DEF man
      <4> QED BY <2>3, <2>4
    <3>3. down \subseteq man
      OBVIOUS
    <3>4. man = {} <=> ~\E i \in DOMAIN states : states[i].download # "none"
      OBVIOUS
    <3>5. 1 \in 1..L
      BY <1>0, <2>1
    <3> HIDE DEF down, man, st, enough, L
    <3> QED BY <2>2, <3>1, <3>2, <3>3, <3>4, <3>5
  <2>6. st.watch # "unwatched" <=> \E i \in DOMAIN states : states[i].watch # "unwatched"
    <3>1. enough(Cardinality(seen)) <=> IF all THEN seen = 1..L ELSE seen # {}
      <4> HIDE DEF seen, enough
      <4> QED BY <2>3, <2>4
    <3>2. Cardinality(new) = 0 <=> new = {}
      <4> HIDE DEF new
      <4> QED BY <2>3, <2>4
    <3>3. seen \subseteq new
      OBVIOUS
    <3>4. new = {} <=> ~\E i \in DOMAIN states : states[i].watch # "unwatched"
      OBVIOUS
    <3>5. 1 \in 1..L
      BY <1>0, <2>1
    <3> HIDE DEF seen, new, st, enough, L
    <3> QED BY <2>2, <3>1, <3>2, <3>3, <3>4, <3>5
  <2>7. /\ st.transfer \in {"idle", "complete", "paused", "queued", "active", "error"}
        /\ st.transfer = "error" <=> \E i \in DOMAIN states : states[i].transfer = "error"
    <3> DEFINE ts == {states[i].transfer : i \in DOMAIN states}
    <3>1. "error" \in ts <=> \E i \in DOMAIN states : states[i].transfer = "error"
      OBVIOUS
    <3> HIDE DEF ts, st
    <3>2. st.transfer = mergeTransferState(ts)
      BY <2>2 DEF ts
    <3> QED BY <3>1, <3>2, TransferIs
  <2>8. /\ st.progress \in 0..Full
        /\ \A i \in DOMAIN states : states[i].progress <= st.progress
        /\ st.progress = 0 \/ \E i \in DOMAIN states : states[i].progress = st.progress
    <3> DEFINE S == {0} \cup {states[i].progress : i \in DOMAIN states}
    <3>1. \A i \in DOMAIN states : states[i].progress \in 0..Full
      BY DEF MediaOK
    <3>2. S \in SUBSET Nat /\ S # {} /\ \A x \in S : x <= Full
      BY <1>0, <3>1
    <3>3. Max(S) \in S /\ \A x \in S : x <= Max(S)
      <4> HIDE DEF S
      <4> QED BY <1>0, <3>2, MaxIs
    <3>4. Furthest(states).progress = Max(S)
      BY DEF Furthest
    <3>5. st.progress = Max(S)
      <4> HIDE DEF st, S
      <4> QED BY <2>2, <3>4
    <3>6. Max(S) \in 0..Full
      <4>1. \A x \in S : x \in 0..Full
        BY <1>0, <3>1
      <4> HIDE DEF S
      <4> QED BY <3>3, <4>1
    <3> HIDE DEF st
    <3> QED BY <3>3, <3>5, <3>6
  <2>9. (states # << >> /\ \A i \in DOMAIN states : states[i].download = "downloaded")
           <=> down = 1..L
    BY <1>0, <1>2
  <2>10. (\E i \in DOMAIN states : states[i].download = "downloaded") <=> down # {}
    OBVIOUS
  <2>11. MediaOK(st)
    BY <2>7, <2>8 DEF MediaOK
  <2> HIDE DEF st, down, L
  <2> QED BY <2>5, <2>6, <2>7, <2>8, <2>9, <2>10, <2>11 DEF Aggregated, st
<1> QED BY <1>1, <1>2

(* The sources on the page, and in the lists.                              *)
PageSources ==
    {s \in SourceOf : \E e \in DOMAIN title.episodes :
                         \E i \in DOMAIN title.episodes[e] : title.episodes[e][i] = s}

LEMMA FlattenIs ==
  ASSUME NEW T, NEW ss \in Seq(Seq(T))
  PROVE  /\ FlattenSeq(ss) \in Seq(T)
         /\ \A x : (\E i \in DOMAIN FlattenSeq(ss) : FlattenSeq(ss)[i] = x)
                     <=> \E e \in DOMAIN ss : \E i \in DOMAIN ss[e] : ss[e][i] = x
<1> DEFINE L == Len(ss)
           In(a, n) == \A x : (\E i \in DOMAIN a : a[i] = x)
                                <=> \E e \in 1..n : \E i \in DOMAIN ss[e] : ss[e][i] = x
           Is(f) == f = [i \in 1..L |-> IF i = 1 THEN ss[i] ELSE f[i - 1] \o ss[i]]
           flat == CHOOSE f : Is(f)
<1>0. L \in Nat /\ DOMAIN ss = 1..L /\ \A e \in 1..L : ss[e] \in Seq(T)
  OBVIOUS
<1>1. CASE L = 0
  <2>1. FlattenSeq(ss) = ss /\ ss = << >>
    BY <1>1 DEF FlattenSeq
  <2> QED BY <2>1
<1>2. CASE L # 0
  <2>1. FlattenSeq(ss) = flat[L]
    BY <1>2 DEF FlattenSeq
  <2>2. \E f : Is(f)
    <3> DEFINE g == [p \in (1..L) \X Seq(T) |-> IF p[1] = 1 THEN ss[1] ELSE p[2] \o ss[p[1]]]
    <3>1. PICK h : IsRun(h, L, << >>, g)
      BY <1>0, SomeRun
    <3>2. \A n \in 0..L : h[n] = IF n = 0 THEN << >> ELSE g[<<n, h[n - 1]>>]
      BY <3>1 DEF IsRun
    <3> DEFINE ok == {n \in 0..L : h[n] \in Seq(T)}
    <3>3. 0 \in ok
      <4>1. h[0] = << >> /\ 0 \in 0..L
        <5> HIDE DEF g, L
        <5>1. 0 \in 0..L
          BY <1>0
        <5>2. h[0] = IF 0 = 0 THEN << >> ELSE g[<<0, h[0 - 1]>>]
          BY <3>2, <5>1
        <5> QED BY <5>1, <5>2
      <4>2. << >> \in Seq(T)
        OBVIOUS
      <4> QED BY <4>1, <4>2
    <3>4. ASSUME NEW n \in 1..L, h[n - 1] \in Seq(T)
          PROVE  h[n] = IF n = 1 THEN ss[1] ELSE h[n - 1] \o ss[n]
      <4>1. n \in 0..L /\ n # 0
        BY <1>0, <3>4
      <4>2. h[n] = g[<<n, h[n - 1]>>]
        <5> HIDE DEF g
        <5> QED BY <3>2, <4>1
      <4>3. <<n, h[n - 1]>> \in (1..L) \X Seq(T)
        BY <3>4
      <4>4. g[<<n, h[n - 1]>>] = IF n = 1 THEN ss[1] ELSE h[n - 1] \o ss[n]
        BY <4>3
      <4> QED BY <4>2, <4>4
    <3>5. ASSUME NEW n \in 1..L, n - 1 \in ok PROVE n \in ok
      <4>1. h[n - 1] \in Seq(T) /\ ss[n] \in Seq(T) /\ ss[1] \in Seq(T)
        BY <1>0, <1>2, <3>5
      <4>2. h[n] = IF n = 1 THEN ss[1] ELSE h[n - 1] \o ss[n]
        BY <3>4, <4>1
      <4>3. h[n - 1] \o ss[n] \in Seq(T)
        BY <4>1
      <4>4. h[n] \in Seq(T)
        BY <4>1, <4>2, <4>3
      <4>5. n \in 0..L
        BY <1>0
      <4> QED BY <4>4, <4>5
    <3>6. \A n \in 0..L : n \in ok
      <4> HIDE DEF ok
      <4> QED BY <1>0, <3>3, <3>5, UpTo
    <3> DEFINE f == [i \in 1..L |-> h[i]]
    <3>7. \A i \in 1..L : f[i] = IF i = 1 THEN ss[i] ELSE f[i - 1] \o ss[i]
      <4> SUFFICES ASSUME NEW i \in 1..L PROVE f[i] = IF i = 1 THEN ss[i] ELSE f[i - 1] \o ss[i]
        OBVIOUS
      <4>1. i - 1 \in 0..L /\ h[i - 1] \in Seq(T) /\ f[i] = h[i]
        BY <1>0, <3>6
      <4>2. h[i] = IF i = 1 THEN ss[1] ELSE h[i - 1] \o ss[i]
        BY <3>4, <4>1
      <4>3. i # 1 => f[i - 1] = h[i - 1]
        BY <1>0
      <4> HIDE DEF f
      <4> QED BY <4>1, <4>2, <4>3
    <3>8. f = [i \in 1..L |-> f[i]]
      OBVIOUS
    <3> HIDE DEF f, L
    <3>9. Is(f)
      BY <3>7, <3>8
    <3> QED BY <3>9
  <2>3. Is(flat)
    BY <2>2
  <2>4. \A i \in 1..L : flat[i] = IF i = 1 THEN ss[i] ELSE flat[i - 1] \o ss[i]
    BY <2>3
  <2> HIDE DEF flat
  <2> DEFINE ok == {n \in 0..L : n = 0 \/ (flat[n] \in Seq(T) /\ In(flat[n], n))}
  <2>5. 0 \in ok
    BY <1>0
  <2>6. ASSUME NEW n \in 1..L, n - 1 \in ok PROVE n \in ok
    <3>1. ss[n] \in Seq(T) /\ 1..n = (1..(n - 1)) \cup {n}
      BY <1>0, <2>6
    <3>2. CASE n = 1
      <4>1. flat[n] = ss[1] /\ 1..n = {1}
        BY <3>2, <2>4, <2>6
      <4>2. In(flat[n], n)
        BY <4>1
      <4> QED BY <3>1, <3>2, <4>1, <4>2, <1>0
    <3>3. CASE n # 1
      <4> DEFINE a == flat[n - 1]
                 b == ss[n]
                 c == flat[n]
      <4>0. n - 1 # 0 /\ flat[n - 1] \in Seq(T) /\ In(flat[n - 1], n - 1)
        <5> HIDE DEF In
        <5> QED BY <3>3, <2>6
      <4>1. c = a \o b /\ a \in Seq(T) /\ In(a, n - 1)
        <5>1. flat[n] = flat[n - 1] \o ss[n]
          BY <3>3, <2>4
        <5> HIDE DEF In
        <5> QED BY <4>0, <5>1
      <4> HIDE DEF a, c
      <4>2. c \in Seq(T)
        BY <3>1, <4>1
      <4>3. \A x : (\E i \in DOMAIN c : c[i] = x)
                     <=> (\E i \in DOMAIN a : a[i] = x) \/ (\E i \in DOMAIN b : b[i] = x)
        <5>0. b \in Seq(T)
          BY <3>1
        <5> HIDE DEF b, In
        <5>1. /\ DOMAIN c = 1..(Len(a) + Len(b)) /\ DOMAIN a = 1..Len(a) /\ DOMAIN b = 1..Len(b)
              /\ Len(a) \in Nat /\ Len(b) \in Nat
              /\ \A i \in DOMAIN c : c[i] = IF i <= Len(a) THEN a[i] ELSE b[i - Len(a)]
          BY <4>1, <5>0
        <5>3. \A i \in DOMAIN a : i \in DOMAIN c /\ c[i] = a[i]
          BY <5>1
        <5>4. \A i \in DOMAIN b : i + Len(a) \in DOMAIN c /\ c[i + Len(a)] = b[i]
          <6> SUFFICES ASSUME NEW i \in DOMAIN b
                       PROVE  i + Len(a) \in DOMAIN c /\ c[i + Len(a)] = b[i]
            OBVIOUS
          <6>1. i \in 1..Len(b)
            BY <5>1
          <6>2. /\ i + Len(a) \in 1..(Len(a) + Len(b)) /\ ~(i + Len(a) <= Len(a))
                /\ (i + Len(a)) - Len(a) = i
            BY <5>1, <6>1
          <6> DEFINE k == i + Len(a)
          <6>3. k \in 1..(Len(a) + Len(b)) /\ ~(k <= Len(a)) /\ k - Len(a) = i
            BY <6>2
          <6> HIDE DEF k
          <6>4. k \in DOMAIN c
            BY <5>1, <6>3, Zenon
          <6>5. c[k] = IF k <= Len(a) THEN a[k] ELSE b[k - Len(a)]
            BY <5>1, <6>4, Zenon
          <6>6. c[k] = b[i]
            BY <6>3, <6>5, Zenon
          <6> QED BY <6>4, <6>6, Zenon DEF k
        <5>5. \A i \in DOMAIN c : (\E j \in DOMAIN a : a[j] = c[i]) \/ (\E j \in DOMAIN b : b[j] = c[i])
          <6> SUFFICES ASSUME NEW i \in DOMAIN c
                       PROVE  (\E j \in DOMAIN a : a[j] = c[i]) \/ (\E j \in DOMAIN b : b[j] = c[i])
            OBVIOUS
          <6>1. c[i] = IF i <= Len(a) THEN a[i] ELSE b[i - Len(a)]
            BY <5>1, Zenon
          <6>2. i <= Len(a) => i \in DOMAIN a
            BY <5>1
          <6>3. ~(i <= Len(a)) => i - Len(a) \in DOMAIN b
            BY <5>1
          <6> QED BY <6>1, <6>2, <6>3, Zenon
        <5> QED BY <5>3, <5>4, <5>5
      <4>4. In(c, n)
        <5> SUFFICES ASSUME NEW x
                     PROVE  (\E i \in DOMAIN c : c[i] = x)
                              <=> \E e \in 1..n : \E i \in DOMAIN ss[e] : ss[e][i] = x
          OBVIOUS
        <5>1. (\E i \in DOMAIN a : a[i] = x)
                <=> \E e \in 1..(n - 1) : \E i \in DOMAIN ss[e] : ss[e][i] = x
          BY <4>1
        <5>2. (\E e \in 1..n : \E i \in DOMAIN ss[e] : ss[e][i] = x)
                <=> \/ \E e \in 1..(n - 1) : \E i \in DOMAIN ss[e] : ss[e][i] = x
                    \/ \E i \in DOMAIN ss[n] : ss[n][i] = x
          BY <3>1
        <5> HIDE DEF In
        <5> QED BY <4>3, <5>1, <5>2
      <4>5. n \in 0..L
        BY <1>0
      <4> HIDE DEF In
      <4> QED BY <4>2, <4>4, <4>5 DEF c
    <3> QED BY <3>2, <3>3
  <2>7. \A n \in 0..L : n \in ok
    <3> HIDE DEF ok
    <3> QED BY <1>0, <2>5, <2>6, UpTo
  <2>8. flat[L] \in Seq(T) /\ In(flat[L], L)
    <3> HIDE DEF In, L
    <3>1. L \in ok
      <4> HIDE DEF ok
      <4> QED BY <1>0, <2>7
    <3> QED BY <1>2, <3>1
  <2> QED BY <1>0, <2>1, <2>8
<1> QED BY <1>1, <1>2

LEMMA SourcesAre ==
  LibraryTypeOK =>
    /\ title.film \in BOOLEAN /\ title.episodes \in Seq(Seq(SourceOf))
    /\ FlattenSeq(title.episodes) \in Seq(SourceOf)
    /\ \A s : (\E i \in DOMAIN FlattenSeq(title.episodes) : FlattenSeq(title.episodes)[i] = s)
                <=> s \in PageSources
    /\ \A e \in DOMAIN title.episodes : /\ title.episodes[e] \in Seq(SourceOf)
                                        /\ \A i \in DOMAIN title.episodes[e] :
                                              title.episodes[e][i] \in PageSources
<1> SUFFICES ASSUME LibraryTypeOK
             PROVE  /\ title.film \in BOOLEAN /\ title.episodes \in Seq(Seq(SourceOf))
                    /\ FlattenSeq(title.episodes) \in Seq(SourceOf)
                    /\ \A s : (\E i \in DOMAIN FlattenSeq(title.episodes) :
                                  FlattenSeq(title.episodes)[i] = s) <=> s \in PageSources
                    /\ \A e \in DOMAIN title.episodes :
                          /\ title.episodes[e] \in Seq(SourceOf)
                          /\ \A i \in DOMAIN title.episodes[e] : title.episodes[e][i] \in PageSources
  OBVIOUS
<1>1. title.film \in BOOLEAN /\ title.episodes \in Seq(Seq(SourceOf))
  BY LibraryStateAssumption DEF LibraryTypeOK
<1> DEFINE all == title.episodes
           flat == FlattenSeq(all)
<1>2. /\ flat \in Seq(SourceOf)
      /\ \A x : (\E i \in DOMAIN flat : flat[i] = x)
                  <=> \E e \in DOMAIN all : \E i \in DOMAIN all[e] : all[e][i] = x
  <2> HIDE DEF all
  <2>1. all \in Seq(Seq(SourceOf))
    BY <1>1 DEF all
  <2> QED BY <2>1, FlattenIs
<1>3. \A e \in DOMAIN all : all[e] \in Seq(SourceOf)
  BY <1>1
<1>4. \A e \in DOMAIN all : \A i \in DOMAIN all[e] : all[e][i] \in SourceOf
  <2> HIDE DEF all
  <2> QED BY <1>3
<1>5. \A x : x \in PageSources <=> \E e \in DOMAIN all : \E i \in DOMAIN all[e] : all[e][i] = x
  BY <1>4 DEF PageSources
<1> HIDE DEF all
<1>6. \A e \in DOMAIN all : \A i \in DOMAIN all[e] : all[e][i] \in PageSources
  BY <1>5
<1> HIDE DEF flat
<1>7. \A x : (\E i \in DOMAIN flat : flat[i] = x) <=> x \in PageSources
  BY <1>2, <1>5
<1> QED BY <1>1, <1>2, <1>3, <1>6, <1>7 DEF all, flat

(* The states of some sources.                                             *)
LEMMA SourceStatesAre ==
  LibraryTypeOK => \A sources \in Seq(SourceOf) :
    LET states == SourceStates(sources)
        T == {states[i] : i \in DOMAIN states}
    IN  /\ states \in Seq(T) /\ DOMAIN states = DOMAIN sources /\ Len(states) = Len(sources)
        /\ \A i \in DOMAIN sources : states[i] = sourceState(sources[i]) /\ SourceSays(sources[i])
        /\ \A i \in DOMAIN states : MediaOK(states[i])
<1> SUFFICES ASSUME LibraryTypeOK, NEW sources \in Seq(SourceOf)
             PROVE  LET states == SourceStates(sources)
                        T == {states[i] : i \in DOMAIN states}
                    IN  /\ states \in Seq(T) /\ DOMAIN states = DOMAIN sources
                        /\ Len(states) = Len(sources)
                        /\ \A i \in DOMAIN sources : /\ states[i] = sourceState(sources[i])
                                                     /\ SourceSays(sources[i])
                        /\ \A i \in DOMAIN states : MediaOK(states[i])
  OBVIOUS
<1> DEFINE states == SourceStates(sources)
           T == {states[i] : i \in DOMAIN states}
<1>1. \A i \in DOMAIN sources : sources[i] \in SourceOf
  OBVIOUS
<1>2. \A i \in DOMAIN sources : SourceSays(sources[i])
  BY <1>1, SourceIs
<1>3. states = [i \in DOMAIN sources |-> sourceState(sources[i])]
  BY DEF SourceStates
<1>4. DOMAIN sources = 1..Len(sources) /\ Len(sources) \in Nat
  OBVIOUS
<1>5. \A i \in DOMAIN sources : MediaOK(sourceState(sources[i]))
  BY <1>2 DEF SourceSays
<1> HIDE DEF states
<1>6. DOMAIN states = 1..Len(sources) /\ \A i \in DOMAIN sources : states[i] = sourceState(sources[i])
  BY <1>3, <1>4
<1>7. states \in Seq(T) /\ Len(states) = Len(sources)
  <2>1. states = [i \in 1..Len(sources) |-> states[i]]
    BY <1>3, <1>4
  <2>2. \A i \in 1..Len(sources) : states[i] \in T
    BY <1>6
  <2> HIDE DEF T
  <2> QED BY <1>4, <2>1, <2>2
<1> QED BY <1>2, <1>4, <1>5, <1>6, <1>7 DEF states

(* What some sources show together, in the terms of their rows.            *)
Together(sources, st) ==
    /\ MediaOK(st)
    /\ st.download # "none" <=> \E s \in sources : \E r \in Rows : HeldAs(r, s)
    /\ st.watch # "unwatched" <=> \E s \in sources : \E r \in Rows : WatchedAs(r, s)
    /\ \A s \in sources : \A r \in Rows : HeldAs(r, s) => downloads[r].progress <= st.progress
    /\ st.progress = 0 \/ \E s \in sources : \E r \in Rows :
                             HeldAs(r, s) /\ downloads[r].progress = st.progress

HasWhole(s) == \E r \in Rows : HeldAs(r, s) /\ downloads[r].progress = Full

MembersOf(seq) == {seq[i] : i \in DOMAIN seq}

LEMMA SourcesShow ==
  LibraryTypeOK => \A sources \in Seq(SourceOf) :
    LET st == aggregateSourceState(sources)
    IN  /\ Together(MembersOf(sources), st)
        /\ st.download = "downloaded" <=> \E s \in MembersOf(sources) : HasWhole(s)
<1> SUFFICES ASSUME LibraryTypeOK, NEW sources \in Seq(SourceOf)
             PROVE  LET st == aggregateSourceState(sources)
                    IN  /\ Together(MembersOf(sources), st)
                        /\ st.download = "downloaded" <=> \E s \in MembersOf(sources) : HasWhole(s)
  OBVIOUS
<1> DEFINE states == SourceStates(sources)
           T == {states[i] : i \in DOMAIN states}
           st == aggregateSourceState(sources)
<1>1. /\ states \in Seq(T) /\ DOMAIN states = DOMAIN sources
      /\ \A i \in DOMAIN sources : states[i] = sourceState(sources[i]) /\ SourceSays(sources[i])
      /\ \A i \in DOMAIN states : MediaOK(states[i])
  BY SourceStatesAre
<1> HIDE DEF states
<1>2. Aggregated(states, FALSE, st)
  <2> HIDE DEF T
  <2>1. Aggregated(states, FALSE, aggregateMediaStates(states, FALSE))
    BY <1>1, AggregateIs
  <2> QED BY <2>1 DEF aggregateSourceState, states
<1> HIDE DEF st
<1>3. /\ MediaOK(st)
      /\ st.download # "none" <=> \E i \in DOMAIN sources : states[i].download # "none"
      /\ st.download = "downloaded" <=> \E i \in DOMAIN sources : states[i].download = "downloaded"
      /\ st.watch # "unwatched" <=> \E i \in DOMAIN sources : states[i].watch # "unwatched"
      /\ \A i \in DOMAIN sources : states[i].progress <= st.progress
      /\ st.progress = 0 \/ \E i \in DOMAIN sources : states[i].progress = st.progress
  BY <1>1, <1>2 DEF Aggregated
<1>4. \A i \in DOMAIN sources :
        /\ states[i].download # "none" <=> \E r \in Rows : HeldAs(r, sources[i])
        /\ states[i].download = "downloaded" <=> HasWhole(sources[i])
        /\ \A r \in Rows : HeldAs(r, sources[i]) => downloads[r].progress <= states[i].progress
        /\ states[i].progress = 0
             \/ \E r \in Rows : HeldAs(r, sources[i]) /\ downloads[r].progress = states[i].progress
        /\ states[i].watch # "unwatched" <=> \E r \in Rows : WatchedAs(r, sources[i])
  BY <1>1 DEF SourceSays, HasWhole
<1>5. \A i \in DOMAIN sources : states[i].progress \in 0..Full
  BY <1>1 DEF MediaOK
<1>6. st.progress \in 0..Full /\ Full \in Nat
  BY <1>3, LibraryStateAssumption DEF MediaOK
<1>7. /\ \A i \in DOMAIN sources : sources[i] \in MembersOf(sources)
      /\ \A s \in MembersOf(sources) : \E i \in DOMAIN sources : sources[i] = s
  BY DEF MembersOf
<1>8. st.download # "none" <=> \E s \in MembersOf(sources) : \E r \in Rows : HeldAs(r, s)
  BY <1>3, <1>4, <1>7
<1>9. st.download = "downloaded" <=> \E s \in MembersOf(sources) : HasWhole(s)
  BY <1>3, <1>4, <1>7
<1>10. st.watch # "unwatched" <=> \E s \in MembersOf(sources) : \E r \in Rows : WatchedAs(r, s)
  BY <1>3, <1>4, <1>7
<1>11. ASSUME NEW s \in MembersOf(sources), NEW r \in Rows, HeldAs(r, s)
       PROVE  downloads[r].progress <= st.progress
  <2>1. PICK i \in DOMAIN sources : sources[i] = s
    BY <1>7
  <2>2. downloads[r].progress <= states[i].progress /\ states[i].progress <= st.progress
    BY <1>3, <1>4, <1>11, <2>1
  <2>3. downloads[r].progress \in Int
    BY LibraryStateAssumption DEF LibraryTypeOK
  <2> QED BY <1>5, <1>6, <2>2, <2>3
<1>12. st.progress = 0 \/ \E s \in MembersOf(sources) : \E r \in Rows :
                             HeldAs(r, s) /\ downloads[r].progress = st.progress
  BY <1>3, <1>4, <1>7
<1> QED BY <1>3, <1>8, <1>9, <1>10, <1>11, <1>12 DEF Together, st

(* What aggregates of aggregates show.                                     *)
LEMMA AggregateOf ==
  ASSUME LibraryTypeOK, NEW states, NEW all \in BOOLEAN, NEW st, Aggregated(states, all, st),
         NEW S, \A i \in DOMAIN states : Together(S[i], states[i])
  PROVE  Together(UNION {S[i] : i \in DOMAIN states}, st)
<1> DEFINE U == UNION {S[i] : i \in DOMAIN states}
<1>1. /\ MediaOK(st)
      /\ st.download # "none" <=> \E i \in DOMAIN states : states[i].download # "none"
      /\ st.watch # "unwatched" <=> \E i \in DOMAIN states : states[i].watch # "unwatched"
      /\ \A i \in DOMAIN states : states[i].progress <= st.progress
      /\ st.progress = 0 \/ \E i \in DOMAIN states : states[i].progress = st.progress
  BY DEF Aggregated
<1>2. \A i \in DOMAIN states :
        /\ states[i].download # "none" <=> \E s \in S[i] : \E r \in Rows : HeldAs(r, s)
        /\ states[i].watch # "unwatched" <=> \E s \in S[i] : \E r \in Rows : WatchedAs(r, s)
        /\ \A s \in S[i] : \A r \in Rows : HeldAs(r, s) => downloads[r].progress <= states[i].progress
        /\ states[i].progress = 0
             \/ \E s \in S[i] : \E r \in Rows :
                   HeldAs(r, s) /\ downloads[r].progress = states[i].progress
  BY DEF Together
<1>3. \A i \in DOMAIN states : states[i].progress \in 0..Full
  BY DEF Together, MediaOK
<1>4. st.progress \in 0..Full /\ Full \in Nat
  BY <1>1, LibraryStateAssumption DEF MediaOK
<1>5. /\ \A i \in DOMAIN states : \A s \in S[i] : s \in U
      /\ \A s \in U : \E i \in DOMAIN states : s \in S[i]
  OBVIOUS
<1> HIDE DEF U
<1>6. st.download # "none" <=> \E s \in U : \E r \in Rows : HeldAs(r, s)
  BY <1>1, <1>2, <1>5
<1>7. st.watch # "unwatched" <=> \E s \in U : \E r \in Rows : WatchedAs(r, s)
  BY <1>1, <1>2, <1>5
<1>8. ASSUME NEW s \in U, NEW r \in Rows, HeldAs(r, s) PROVE downloads[r].progress <= st.progress
  <2>1. PICK i \in DOMAIN states : s \in S[i]
    BY <1>5
  <2>2. downloads[r].progress <= states[i].progress /\ states[i].progress <= st.progress
    BY <1>1, <1>2, <1>8, <2>1
  <2>3. downloads[r].progress \in Int
    BY LibraryStateAssumption DEF LibraryTypeOK
  <2> QED BY <1>3, <1>4, <2>2, <2>3
<1>9. st.progress = 0 \/ \E s \in U : \E r \in Rows : HeldAs(r, s) /\ downloads[r].progress = st.progress
  BY <1>1, <1>2, <1>5
<1> QED BY <1>1, <1>6, <1>7, <1>8, <1>9 DEF Together, U

(* The page shows all its sources; what it calls downloaded is there, of a *)
(* season every episode.                                                   *)
PageSays(st) ==
    /\ Together(PageSources, st)
    /\ title.film => (st.download = "downloaded" <=> \E s \in PageSources : HasWhole(s))
    /\ ~title.film =>
         (st.download = "downloaded" <=>
            /\ title.episodes # << >>
            /\ \A e \in DOMAIN title.episodes : \E s \in MembersOf(title.episodes[e]) : HasWhole(s))

LEMMA PageIs == LibraryTypeOK => PageSays(applyCatalogState)
<1> SUFFICES ASSUME LibraryTypeOK PROVE PageSays(applyCatalogState)
  OBVIOUS
<1> DEFINE page == applyCatalogState
           eps == title.episodes
           flat == FlattenSeq(title.episodes)
<1>1. /\ title.film \in BOOLEAN /\ eps \in Seq(Seq(SourceOf)) /\ flat \in Seq(SourceOf)
      /\ \A s : (\E i \in DOMAIN flat : flat[i] = s) <=> s \in PageSources
      /\ \A e \in DOMAIN eps : /\ eps[e] \in Seq(SourceOf)
                               /\ \A i \in DOMAIN eps[e] : eps[e][i] \in PageSources
  BY SourcesAre
<1>2. CASE title.film
  <2>1. page = aggregateSourceState(flat)
    BY <1>2 DEF applyCatalogState
  <2>2. MembersOf(flat) = PageSources
    <3> HIDE DEF flat
    <3> QED BY <1>1 DEF MembersOf
  <2>3. /\ Together(MembersOf(flat), aggregateSourceState(flat))
        /\ aggregateSourceState(flat).download = "downloaded"
             <=> \E s \in MembersOf(flat) : HasWhole(s)
    <3> HIDE DEF flat
    <3> QED BY <1>1, SourcesShow
  <2> HIDE DEF page, flat
  <2> QED BY <1>2, <2>1, <2>2, <2>3 DEF PageSays, page
<1>3. CASE ~title.film
  <2> DEFINE states == [e \in DOMAIN eps |-> aggregateSourceState(eps[e])]
             T == {states[e] : e \in DOMAIN states}
             S == [e \in DOMAIN eps |-> MembersOf(eps[e])]
             ep == aggregateEpisodeState(eps)
  <2>1. page = aggregateMediaStates(<<ep>>, TRUE)
    BY <1>3 DEF applyCatalogState
  <2>2. ep = aggregateMediaStates(states, TRUE)
    BY DEF aggregateEpisodeState
  <2>3. DOMAIN states = DOMAIN eps /\ DOMAIN eps = 1..Len(eps) /\ Len(eps) \in Nat
    BY <1>1
  <2>4. \A e \in DOMAIN eps :
          /\ Together(S[e], states[e])
          /\ states[e].download = "downloaded" <=> \E s \in MembersOf(eps[e]) : HasWhole(s)
    BY <1>1, SourcesShow
  <2>5. states \in Seq(T)
    <3>1. \A e \in 1..Len(eps) : states[e] \in T
      BY <2>3
    <3>2. states = [e \in 1..Len(eps) |-> states[e]]
      BY <2>3
    <3> HIDE DEF states, T
    <3> QED BY <2>3, <3>1, <3>2
  <2>6. UNION {S[e] : e \in DOMAIN eps} = PageSources
    <3>1. \A s : s \in PageSources <=> \E e \in DOMAIN eps : s \in MembersOf(eps[e])
      <4>1. \A e \in DOMAIN eps : \A i \in DOMAIN eps[e] : eps[e][i] \in PageSources
        BY <1>1
      <4>2. \A s \in PageSources : \E e \in DOMAIN eps : \E i \in DOMAIN eps[e] : eps[e][i] = s
        BY DEF PageSources
      <4> QED BY <4>1, <4>2 DEF MembersOf
    <3> QED BY <3>1
  <2> HIDE DEF states, T, S
  <2>7. Aggregated(states, TRUE, ep)
    <3>1. \A e \in DOMAIN states : MediaOK(states[e])
      BY <2>3, <2>4 DEF Together
    <3> QED BY <2>2, <2>5, <3>1, AggregateIs
  <2>8. Together(PageSources, ep)
    <3>1. \A e \in DOMAIN states : Together(S[e], states[e])
      BY <2>3, <2>4
    <3>2. Together(UNION {S[e] : e \in DOMAIN states}, ep)
      BY <2>7, <3>1, AggregateOf
    <3> QED BY <2>3, <2>6, <3>2
  <2>9. ep.download = "downloaded" <=>
          /\ eps # << >>
          /\ \A e \in DOMAIN eps : \E s \in MembersOf(eps[e]) : HasWhole(s)
    <3>1. states = << >> <=> eps = << >>
      <4>1. states = << >> <=> Len(eps) = 0
        <5>1. Len(states) = Len(eps)
          BY <2>3, <2>5
        <5> QED BY <2>5, <5>1
      <4> QED BY <4>1, <1>1
    <3>2. ep.download = "downloaded" <=>
            states # << >> /\ \A e \in DOMAIN states : states[e].download = "downloaded"
      BY <2>7 DEF Aggregated
    <3> QED BY <2>3, <2>4, <3>1, <3>2
  <2> DEFINE one == <<ep>>
  <2>10. one \in Seq({ep}) /\ DOMAIN one = {1} /\ one[1] = ep /\ one # << >>
    OBVIOUS
  <2>11. page = aggregateMediaStates(one, TRUE)
    BY <2>1
  <2> HIDE DEF ep, one, page
  <2>12. Aggregated(one, TRUE, page)
    <3>1. \A i \in DOMAIN one : MediaOK(one[i])
      BY <2>8, <2>10 DEF Together
    <3> QED BY <2>10, <2>11, <3>1, AggregateIs
  <2>13. Together(PageSources, page)
    <3> DEFINE P == [i \in {1} |-> PageSources]
    <3>1. \A i \in DOMAIN one : Together(P[i], one[i])
      BY <2>8, <2>10
    <3>2. UNION {P[i] : i \in DOMAIN one} = PageSources
      BY <2>10
    <3> HIDE DEF P
    <3>3. Together(UNION {P[i] : i \in DOMAIN one}, page)
      BY <2>12, <3>1, AggregateOf
    <3> QED BY <3>2, <3>3
  <2>14. page.download = "downloaded" <=> ep.download = "downloaded"
    BY <2>10, <2>12 DEF Aggregated
  <2> QED BY <1>3, <2>9, <2>13, <2>14 DEF PageSays, page
<1> QED BY <1>1, <1>2, <1>3

(* The sequence of a set has its members, and no others.                   *)
LEMMA ListedIs ==
  ASSUME NEW S, IsFiniteSet(S)
  PROVE  SetToSeq(S) \in Seq(S) /\ MembersOf(SetToSeq(S)) = S
<1> DEFINE n == Cardinality(S)
           f == SetToSeq(S)
<1>1. n \in Nat /\ IsFiniteSet(1..n) /\ Cardinality(1..n) = n
  BY FS_CardinalityType, FS_Interval
<1>2. \E g \in [1..n -> S] : IsInjective(g)
  <2>1. PICK g : g \in Bijection(1..Cardinality(S), S)
    BY FS_CardinalityType DEF ExistsBijection
  <2>2. g \in [1..Cardinality(S) -> S] /\ IsInjective(g)
    BY <2>1 DEF Bijection, Injection, IsInjective
  <2> QED BY <2>2
<1>3. f \in [1..n -> S] /\ IsInjective(f)
  BY <1>2 DEF SetToSeq
<1> HIDE DEF f
<1>4. f \in Injection(1..n, S)
  BY <1>3 DEF Injection, IsInjective
<1>5. f \in Surjection(1..n, S)
  <2> HIDE DEF n
  <2>1. Cardinality(1..n) = Cardinality(S)
    BY <1>1 DEF n
  <2> QED BY <1>1, <1>4, <2>1, FS_Injection
<1> HIDE DEF n
<1>6. f \in Seq(S) /\ DOMAIN f = 1..n /\ \A i \in 1..n : f[i] \in S
  BY <1>1, <1>3
<1>7. \A y \in S : \E i \in 1..n : f[i] = y
  BY <1>5 DEF Surjection
<1>8. MembersOf(f) = S
  BY <1>6, <1>7 DEF MembersOf
<1> QED BY <1>6, <1>8 DEF f

(* What is watched and held of the sources of the lists.                   *)
ReleasesShown == {s.release : s \in PageSources}

LEMMA ListSourcesAre ==
  LibraryTypeOK =>
    /\ ReleaseSources \in Seq(SourceOf)
    /\ MembersOf(ReleaseSources) = {[release |-> x, file |-> -1] : x \in ReleasesShown}
<1> SUFFICES ASSUME LibraryTypeOK
             PROVE  /\ ReleaseSources \in Seq(SourceOf)
                    /\ MembersOf(ReleaseSources)
                         = {[release |-> x, file |-> -1] : x \in ReleasesShown}
  OBVIOUS
<1> DEFINE all == FlattenSeq(title.episodes)
           f == [i \in DOMAIN all |-> [release |-> all[i].release, file |-> -1]]
           S == {f[i] : i \in DOMAIN all}
           R == {[release |-> x, file |-> -1] : x \in ReleasesShown}
<1>1. all \in Seq(SourceOf) /\ \A s : (\E i \in DOMAIN all : all[i] = s) <=> s \in PageSources
  BY SourcesAre
<1>2. ReleaseSources = SetToSeq(S)
  BY DEF ReleaseSources
<1>3. DOMAIN all = 1..Len(all) /\ Len(all) \in Nat /\ \A i \in DOMAIN all : all[i] \in SourceOf
  BY <1>1
<1>4. S = R
  <2> HIDE DEF all
  <2>1. ASSUME NEW i \in DOMAIN all PROVE f[i] \in R
    <3>1. all[i] \in PageSources
      BY <1>1
    <3> QED BY <3>1 DEF ReleasesShown
  <2>2. ASSUME NEW s \in PageSources PROVE \E i \in DOMAIN all : f[i] = [release |-> s.release, file |-> -1]
    <3>1. PICK i \in DOMAIN all : all[i] = s
      BY <1>1
    <3> QED BY <3>1
  <2> HIDE DEF f
  <2>3. \A x \in ReleasesShown : \E s \in PageSources : x = s.release
    BY DEF ReleasesShown
  <2>4. \A x \in ReleasesShown : [release |-> x, file |-> -1] \in S
    BY <2>2, <2>3
  <2> QED BY <2>1, <2>4
<1>5. S \subseteq SourceOf
  <2> HIDE DEF all
  <2> QED BY <1>3 DEF SourceOf
<1>6. IsFiniteSet(S)
  <2>1. IsFiniteSet(DOMAIN all)
    <3> HIDE DEF all
    <3> QED BY <1>3, FS_Interval
  <2>2. f \in Surjection(DOMAIN all, S)
    <3>1. \A y \in S : \E i \in DOMAIN all : f[i] = y
      OBVIOUS
    <3>2. f \in [DOMAIN all -> S]
      OBVIOUS
    <3> HIDE DEF f, S, all
    <3> QED BY <3>1, <3>2 DEF Surjection
  <2> HIDE DEF f, S, all
  <2> QED BY <2>1, <2>2, FS_Surjection
<1>7. SetToSeq(S) \in Seq(S) /\ MembersOf(SetToSeq(S)) = S
  <2> HIDE DEF S
  <2> QED BY <1>6, ListedIs DEF MembersOf
<1> HIDE DEF S, R
<1>8. SetToSeq(S) \in Seq(SourceOf)
  BY <1>5, <1>7
<1> QED BY <1>2, <1>4, <1>7, <1>8 DEF R

(* The lists show whatever is managed, and what was watched.               *)
LEMMA ListShows ==
  LibraryTypeOK =>
    LET st == sourcesState(ReleaseSources)
    IN  /\ st.download # "none" <=>
             \E r \in Rows : Managed(r) /\ RowOf[r].release \in ReleasesShown
        /\ st.watch # "unwatched" <=>
             \E r \in Rows : RowOf[r].release \in ReleasesShown /\ played[r] # "none"
<1> SUFFICES ASSUME LibraryTypeOK
             PROVE  LET st == sourcesState(ReleaseSources)
                    IN  /\ st.download # "none" <=>
                             \E r \in Rows : Managed(r) /\ RowOf[r].release \in ReleasesShown
                        /\ st.watch # "unwatched" <=>
                             \E r \in Rows : RowOf[r].release \in ReleasesShown /\ played[r] # "none"
  OBVIOUS
<1> DEFINE sources == ReleaseSources
           st == sourcesState(sources)
           result == aggregateSourceState(sources)
           rows == {r \in Rows : Managed(r) /\ \E i \in DOMAIN sources :
                                                  sources[i].release = RowOf[r].release}
<1>1. /\ sources \in Seq(SourceOf)
      /\ MembersOf(sources) = {[release |-> x, file |-> -1] : x \in ReleasesShown}
  BY ListSourcesAre
<1> HIDE DEF sources
<1>2. /\ result.download # "none" <=>
            \E s \in MembersOf(sources) : \E r \in Rows : HeldAs(r, s)
      /\ result.watch # "unwatched" <=>
            \E s \in MembersOf(sources) : \E r \in Rows : WatchedAs(r, s)
  BY <1>1, SourcesShow DEF Together
<1>3. st = IF result.download # "none" \/ rows = {} THEN result
           ELSE [result EXCEPT !.download = "partial", !.row = CHOOSE r \in rows : TRUE,
                               !.progress = Max({downloads[r].progress : r \in rows})]
  BY DEF sourcesState
<1>4. st.watch = result.watch
  <2>1. result.watch = sourcesState(sources).watch
    <3>1. result \in [DOMAIN result -> {result[x] : x \in DOMAIN result}]
      BY DEF aggregateSourceState, aggregateMediaStates, emptyMediaState
    <3> HIDE DEF result, rows
    <3> QED BY <1>3 DEF st
  <2> QED BY <2>1
<1>5. st.download = IF result.download # "none" \/ rows = {} THEN result.download ELSE "partial"
  <2>1. "download" \in DOMAIN result
    BY DEF aggregateSourceState, aggregateMediaStates, emptyMediaState
  <2> HIDE DEF result, rows, st
  <2> QED BY <1>3, <2>1
<1> HIDE DEF st, result
<1>6. \A r \in Rows : (\E i \in DOMAIN sources : sources[i].release = RowOf[r].release)
                        <=> RowOf[r].release \in ReleasesShown
  <2>1. \A x : (\E i \in DOMAIN sources : sources[i].release = x)
                  <=> \E s \in MembersOf(sources) : s.release = x
    BY DEF MembersOf
  <2>2. \A x : (\E s \in MembersOf(sources) : s.release = x) <=> x \in ReleasesShown
    <3>1. \A s \in MembersOf(sources) : s.release \in ReleasesShown
      BY <1>1
    <3>2. ASSUME NEW x \in ReleasesShown PROVE \E s \in MembersOf(sources) : s.release = x
      <4>1. [release |-> x, file |-> -1] \in MembersOf(sources)
        BY <1>1
      <4> QED BY <4>1
    <3> QED BY <3>1, <3>2
  <2> QED BY <2>1, <2>2
<1>7. rows = {} <=> ~\E r \in Rows : Managed(r) /\ RowOf[r].release \in ReleasesShown
  BY <1>6
<1>8. result.download # "none" => \E r \in Rows : Managed(r) /\ RowOf[r].release \in ReleasesShown
  BY <1>1, <1>2 DEF HeldAs
<1>9. (\E s \in MembersOf(sources) : \E r \in Rows : WatchedAs(r, s))
         <=> \E r \in Rows : RowOf[r].release \in ReleasesShown /\ played[r] # "none"
  <2>1. \A s \in MembersOf(sources) : s.release \in ReleasesShown /\ s.file < 0
    BY <1>1
  <2>2. ASSUME NEW x \in ReleasesShown PROVE \E s \in MembersOf(sources) : s.release = x
    <3>1. [release |-> x, file |-> -1] \in MembersOf(sources)
      BY <1>1
    <3> QED BY <3>1
  <2> QED BY <2>1, <2>2 DEF WatchedAs
<1> HIDE DEF rows
<1>10. st.download # "none" <=> \E r \in Rows : Managed(r) /\ RowOf[r].release \in ReleasesShown
  BY <1>5, <1>7, <1>8
<1>11. st.watch # "unwatched" <=>
         \E r \in Rows : RowOf[r].release \in ReleasesShown /\ played[r] # "none"
  BY <1>2, <1>4, <1>9
<1> QED BY <1>10, <1>11 DEF st, sources

(* The sum of some numbers.                                                *)
LEMMA TotalIs ==
  ASSUME NEW ns \in Seq(Nat)
  PROVE  \E f : /\ Total(ns) = f[Len(ns)] /\ f[0] = 0
                /\ \A n \in 1..Len(ns) : f[n] = f[n - 1] + ns[n]
                /\ \A n \in 0..Len(ns) : f[n] \in Nat
<1> DEFINE L == Len(ns)
           Is(f) == f = [n \in 0..L |-> IF n = 0 THEN 0 ELSE f[n - 1] + ns[n]]
           sum == CHOOSE f : Is(f)
<1>0. L \in Nat /\ \A n \in 1..L : ns[n] \in Nat
  OBVIOUS
<1>1. \E f : Is(f)
  <2> DEFINE g == [p \in (1..L) \X Nat |-> p[2] + ns[p[1]]]
  <2>1. PICK f : IsRun(f, L, 0, g)
    BY <1>0, SomeRun
  <2>2. /\ f = [n \in 0..L |-> IF n = 0 THEN 0 ELSE g[<<n, f[n - 1]>>]]
        /\ \A n \in 0..L : f[n] = IF n = 0 THEN 0 ELSE g[<<n, f[n - 1]>>]
    BY <2>1 DEF IsRun
  <2>3. ASSUME NEW n \in 1..L, f[n - 1] \in Nat PROVE f[n] = f[n - 1] + ns[n]
    <3>0. n \in 0..L /\ n # 0
      BY <1>0
    <3>1. f[n] = g[<<n, f[n - 1]>>]
      <4> HIDE DEF g
      <4> QED BY <2>2, <3>0
    <3>2. <<n, f[n - 1]>> \in (1..L) \X Nat
      BY <2>3
    <3> QED BY <3>1, <3>2
  <2> DEFINE ok == {n \in 0..L : f[n] \in Nat}
  <2>4. 0 \in ok
    BY <1>0, <2>2
  <2>5. ASSUME NEW n \in 1..L, n - 1 \in ok PROVE n \in ok
    BY <1>0, <2>3, <2>5
  <2>6. \A n \in 0..L : n \in ok
    <3> HIDE DEF ok
    <3> QED BY <1>0, <2>4, <2>5, UpTo
  <2>7. \A n \in 0..L : f[n] = IF n = 0 THEN 0 ELSE f[n - 1] + ns[n]
    <3> SUFFICES ASSUME NEW n \in 0..L PROVE f[n] = IF n = 0 THEN 0 ELSE f[n - 1] + ns[n]
      OBVIOUS
    <3>1. CASE n = 0
      BY <3>1, <2>2
    <3>2. CASE n # 0
      <4>1. n \in 1..L /\ n - 1 \in 0..L
        BY <3>2, <1>0
      <4> QED BY <4>1, <3>2, <2>3, <2>6
    <3> QED BY <3>1, <3>2
  <2>8. f = [n \in 0..L |-> f[n]]
    BY <2>2
  <2> HIDE DEF g, ok, L
  <2>9. Is(f)
    BY <2>7, <2>8
  <2> QED BY <2>9
<1>2. Is(sum)
  BY <1>1
<1>3. Total(ns) = sum[L]
  BY DEF Total
<1>4. \A n \in 0..L : sum[n] = IF n = 0 THEN 0 ELSE sum[n - 1] + ns[n]
  BY <1>2
<1> HIDE DEF sum
<1> DEFINE ok == {n \in 0..L : sum[n] \in Nat}
<1>5. 0 \in ok
  BY <1>0, <1>4
<1>6. ASSUME NEW n \in 1..L, n - 1 \in ok PROVE n \in ok
  <2>1. n \in 0..L /\ sum[n] = sum[n - 1] + ns[n] /\ sum[n - 1] \in Nat /\ ns[n] \in Nat
    BY <1>0, <1>4, <1>6
  <2> QED BY <2>1
<1>7. \A n \in 0..L : n \in ok
  <2> HIDE DEF ok
  <2> QED BY <1>0, <1>5, <1>6, UpTo
<1>8. sum[0] = 0 /\ \A n \in 1..L : sum[n] = sum[n - 1] + ns[n]
  BY <1>0, <1>4
<1> QED BY <1>3, <1>7, <1>8

(* Multiplication distributes over the weights.                            *)
LEMMA Distributes ==
  ASSUME NEW F \in Nat, NEW u \in Nat, NEW v \in Nat
  PROVE  F * (u + v) = F * u + F * v /\ F * u \in Nat
OBVIOUS

(* Nothing weighs more than all of it.                                     *)
LEMMA WholeOf ==
  ASSUME NEW F \in Nat, NEW a \in Nat \ {0}, NEW p \in 0..F
  PROVE  a * p \in Nat /\ F * a \in Nat /\ a * p <= F * a /\ (a * p = F * a <=> p = F)
<1> DEFINE k == F - p
<1>1. k \in Nat /\ F = p + k /\ p \in Nat
  OBVIOUS
<1> HIDE DEF k
<1>2. F * a = a * p + a * k
  BY <1>1
<1>3. a * p \in Nat /\ a * k \in Nat
  BY <1>1
<1>4. k # 0 => a * k > 0
  BY <1>1
<1>5. k = 0 => a * k = 0
  BY <1>1
<1>6. k = 0 <=> p = F
  BY <1>1
<1> QED BY <1>1, <1>2, <1>3, <1>4, <1>5, <1>6

LEMMA SumsAgree ==
  ASSUME NEW x \in Nat, NEW c \in Nat, NEW a \in Nat, NEW b \in Nat, x <= c, a <= b
  PROVE  x + a <= c + b /\ (x + a = c + b <=> x = c /\ a = b)
  OBVIOUS

Products(x, w, p, F) == \A i \in 1..Len(w) : p[i] \in 0..F /\ x[i] = w[i] * p[i]

LEMMA TotalsAgree ==
  ASSUME NEW F \in Nat, NEW w \in Seq(Nat \ {0}), NEW x \in Seq(Nat), NEW p, Len(x) = Len(w),
         Products(x, w, p, F)
  PROVE  Total(x) = F * Total(w) <=> \A i \in 1..Len(w) : p[i] = F
<1> DEFINE L == Len(w)
<1>0. /\ L \in Nat /\ \A n \in 1..L : w[n] \in Nat \ {0} /\ x[n] \in Nat
      /\ \A i \in 1..Len(w) : p[i] \in 0..F /\ x[i] = w[i] * p[i]
  BY DEF Products
<1>1. PICK X : /\ Total(x) = X[L] /\ X[0] = 0 /\ \A n \in 1..L : X[n] = X[n - 1] + x[n]
               /\ \A n \in 0..L : X[n] \in Nat
  BY TotalIs
<1>2. w \in Seq(Nat)
  OBVIOUS
<1>3. PICK W : /\ Total(w) = W[L] /\ W[0] = 0 /\ \A n \in 1..L : W[n] = W[n - 1] + w[n]
               /\ \A n \in 0..L : W[n] \in Nat
  BY <1>2, TotalIs
<1> DEFINE good(n) == /\ X[n] <= F * W[n]
                      /\ X[n] = F * W[n] <=> \A i \in 1..n : p[i] = F
           ok == {n \in 0..L : good(n)}
<1>4. 0 \in ok
  BY <1>0, <1>1, <1>3
<1>5. ASSUME NEW n \in 1..L, n - 1 \in ok PROVE n \in ok
  <2>1. n - 1 \in 0..L /\ n \in 0..L /\ good(n - 1)
    BY <1>0, <1>5
  <2>2. /\ X[n] = X[n - 1] + w[n] * p[n] /\ W[n] = W[n - 1] + w[n]
        /\ X[n - 1] \in Nat /\ W[n - 1] \in Nat
    BY <1>0, <1>1, <1>3, <2>1
  <2>3. /\ w[n] * p[n] \in Nat /\ F * w[n] \in Nat /\ w[n] * p[n] <= F * w[n]
        /\ w[n] * p[n] = F * w[n] <=> p[n] = F
    <3>1. w[n] \in Nat \ {0} /\ p[n] \in 0..F
      BY <1>0
    <3> QED BY <3>1, WholeOf
  <2>4. F * W[n] = F * W[n - 1] + F * w[n] /\ F * W[n - 1] \in Nat
    <3>1. w[n] \in Nat /\ W[n - 1] \in Nat /\ W[n] = W[n - 1] + w[n]
      BY <1>0, <2>2
    <3>2. F * (W[n - 1] + w[n]) = F * W[n - 1] + F * w[n] /\ F * W[n - 1] \in Nat
      BY <3>1, Distributes
    <3> QED BY <3>1, <3>2, Zenon
  <2>5. 1..n = (1..(n - 1)) \cup {n}
    BY <1>0, <1>5
  <2>6. (\A i \in 1..n : p[i] = F) <=> (\A i \in 1..(n - 1) : p[i] = F) /\ p[n] = F
    BY <2>5
  <2> DEFINE a == w[n] * p[n]
             b == F * w[n]
             c == F * W[n - 1]
             d == F * W[n]
             y == X[n - 1]
  <2>7. /\ X[n] = y + a /\ d = c + b /\ y <= c /\ a <= b
        /\ y \in Nat /\ a \in Nat /\ b \in Nat /\ c \in Nat
    BY <2>1, <2>2, <2>3, <2>4
  <2>8. X[n] <= d /\ (X[n] = d <=> y = c /\ a = b)
    <3> HIDE DEF a, b, c, d, y
    <3>1. y + a <= c + b /\ (y + a = c + b <=> y = c /\ a = b)
      BY <2>7, SumsAgree
    <3> QED BY <2>7, <3>1
  <2>9. good(n)
    BY <2>1, <2>3, <2>6, <2>8
  <2> QED BY <2>1, <2>9
<1>6. \A n \in 0..L : n \in ok
  <2> HIDE DEF ok
  <2> QED BY <1>0, <1>4, <1>5, UpTo
<1>7. good(L)
  BY <1>0, <1>6
<1> QED BY <1>1, <1>3, <1>7

(* The files of a pack are sources of the page.                            *)
LEMMA PackFilesAre == LibraryTypeOK => \A pack : PackFiles(pack) \in Seq(SourceOf)
<1> SUFFICES ASSUME LibraryTypeOK, NEW pack PROVE PackFiles(pack) \in Seq(SourceOf)
  OBVIOUS
<1> DEFINE all == FlattenSeq(title.episodes)
           L == Len(all)
           Is(f) == f = [n \in 0..L |->
                           IF n = 0 THEN << >>
                           ELSE IF all[n].release = pack THEN Append(f[n - 1], all[n]) ELSE f[n - 1]]
           files == CHOOSE f : Is(f)
<1>0. L \in Nat /\ \A n \in 1..L : all[n] \in SourceOf
  <2>1. all \in Seq(SourceOf)
    BY SourcesAre
  <2> HIDE DEF all
  <2> QED BY <2>1
<1> HIDE DEF all
<1>1. \E f : Is(f)
  <2> DEFINE g == [p \in (1..L) \X Seq(SourceOf) |->
                     IF all[p[1]].release = pack THEN Append(p[2], all[p[1]]) ELSE p[2]]
  <2>1. PICK f : IsRun(f, L, << >>, g)
    BY <1>0, SomeRun
  <2>2. /\ f = [n \in 0..L |-> IF n = 0 THEN << >> ELSE g[<<n, f[n - 1]>>]]
        /\ \A n \in 0..L : f[n] = IF n = 0 THEN << >> ELSE g[<<n, f[n - 1]>>]
    BY <2>1 DEF IsRun
  <2>3. ASSUME NEW n \in 1..L, f[n - 1] \in Seq(SourceOf)
        PROVE  f[n] = IF all[n].release = pack THEN Append(f[n - 1], all[n]) ELSE f[n - 1]
    <3>0. n \in 0..L /\ n # 0
      BY <1>0
    <3>1. f[n] = g[<<n, f[n - 1]>>]
      <4> HIDE DEF g
      <4> QED BY <2>2, <3>0
    <3>2. <<n, f[n - 1]>> \in (1..L) \X Seq(SourceOf)
      BY <2>3
    <3> QED BY <3>1, <3>2
  <2> DEFINE ok == {n \in 0..L : f[n] \in Seq(SourceOf)}
  <2>4. 0 \in ok
    <3>1. f[0] = << >> /\ 0 \in 0..L
      <4> HIDE DEF g, L
      <4> QED BY <1>0, <2>2
    <3>2. << >> \in Seq(SourceOf)
      OBVIOUS
    <3> QED BY <3>1, <3>2
  <2>5. ASSUME NEW n \in 1..L, n - 1 \in ok PROVE n \in ok
    <3>1. f[n - 1] \in Seq(SourceOf) /\ all[n] \in SourceOf
      BY <1>0, <2>5
    <3>2. f[n] \in Seq(SourceOf)
      <4>1. f[n] = IF all[n].release = pack THEN Append(f[n - 1], all[n]) ELSE f[n - 1]
        BY <3>1, <2>3
      <4>2. Append(f[n - 1], all[n]) \in Seq(SourceOf)
        BY <3>1
      <4> QED BY <3>1, <4>1, <4>2
    <3> QED BY <3>2, <1>0
  <2>6. \A n \in 0..L : n \in ok
    <3> HIDE DEF ok
    <3> QED BY <1>0, <2>4, <2>5, UpTo
  <2>7. \A n \in 0..L : f[n] = IF n = 0 THEN << >>
                               ELSE IF all[n].release = pack THEN Append(f[n - 1], all[n])
                               ELSE f[n - 1]
    <3> SUFFICES ASSUME NEW n \in 0..L
                 PROVE  f[n] = IF n = 0 THEN << >>
                               ELSE IF all[n].release = pack THEN Append(f[n - 1], all[n])
                               ELSE f[n - 1]
      OBVIOUS
    <3>1. CASE n = 0
      BY <3>1, <2>2
    <3>2. CASE n # 0
      <4>1. n \in 1..L /\ n - 1 \in 0..L
        BY <3>2, <1>0
      <4>2. f[n - 1] \in Seq(SourceOf)
        BY <4>1, <2>6
      <4> QED BY <4>1, <4>2, <3>2, <2>3
    <3> QED BY <3>1, <3>2
  <2>8. f = [n \in 0..L |-> f[n]]
    BY <2>2
  <2> HIDE DEF g, ok, L
  <2>9. Is(f)
    BY <2>7, <2>8
  <2> QED BY <2>9
<1>2. Is(files)
  BY <1>1
<1>3. PackFiles(pack) = files[L]
  BY DEF PackFiles, all
<1>4. \A n \in 0..L : files[n] = IF n = 0 THEN << >>
                                 ELSE IF all[n].release = pack THEN Append(files[n - 1], all[n])
                                 ELSE files[n - 1]
  BY <1>2
<1> HIDE DEF files
<1> DEFINE ok == {n \in 0..L : files[n] \in Seq(SourceOf)}
<1>5. 0 \in ok
  <2>1. files[0] = << >> /\ 0 \in 0..L
    BY <1>0, <1>4
  <2>2. << >> \in Seq(SourceOf)
    OBVIOUS
  <2> QED BY <2>1, <2>2
<1>6. ASSUME NEW n \in 1..L, n - 1 \in ok PROVE n \in ok
  <2>1. n \in 0..L /\ n # 0 /\ files[n - 1] \in Seq(SourceOf) /\ all[n] \in SourceOf
    BY <1>0, <1>6
  <2>2. files[n] = IF all[n].release = pack THEN Append(files[n - 1], all[n]) ELSE files[n - 1]
    BY <2>1, <1>4
  <2>3. files[n] \in Seq(SourceOf)
    BY <2>1, <2>2
  <2> QED BY <2>1, <2>3
<1>7. \A n \in 0..L : n \in ok
  <2> HIDE DEF ok
  <2> QED BY <1>0, <1>5, <1>6, UpTo
<1> QED BY <1>0, <1>3, <1>7

LEMMA PacksAgreeIs == LibraryTypeOK => PacksAgree
<1> SUFFICES ASSUME LibraryTypeOK, NEW pack \in DOMAIN FileCount, PackFiles(pack) # << >>
             PROVE  LET state == packSourceState(pack)
                    IN  /\ state.download = "downloaded" <=> state.progress = Full * PackTotal(pack)
                        /\ state.transfer = "error" => state.download = "error"
  BY DEF PacksAgree
<1> DEFINE files == PackFiles(pack)
           states == SourceStates(files)
           T == {states[i] : i \in DOMAIN states}
           agg == aggregateMediaStates(states, TRUE)
           best == {i \in DOMAIN states : states[i].row # "" /\ states[i].progress = agg.progress}
           state == packSourceState(pack)
           w == [i \in DOMAIN files |-> Weight(files[i])]
           p == [i \in DOMAIN files |-> states[i].progress]
           x == [i \in DOMAIN files |-> Weight(files[i]) * states[i].progress]
<1>1. files \in Seq(SourceOf) /\ files # << >>
  BY PackFilesAre
<1>2. state = [agg EXCEPT !.download = packDownload(states),
                          !.row = IF best = {} THEN "" ELSE states[Max(best)].row,
                          !.progress = Total(x)]
  BY DEF packSourceState
<1>3. PackTotal(pack) = Total(w)
  BY DEF PackTotal
<1> HIDE DEF files
<1>4. /\ states \in Seq(T) /\ DOMAIN states = DOMAIN files /\ Len(states) = Len(files)
      /\ \A i \in DOMAIN files : states[i] = sourceState(files[i]) /\ SourceSays(files[i])
      /\ \A i \in DOMAIN states : MediaOK(states[i])
  BY <1>1, SourceStatesAre
<1> HIDE DEF states
<1>5. Len(files) \in Nat /\ DOMAIN files = 1..Len(files) /\ Full \in Nat
  BY <1>1, LibraryStateAssumption
<1>6. states # << >> /\ Len(states) # 0
  BY <1>1, <1>4
<1>7. Aggregated(states, TRUE, agg)
  <2> HIDE DEF T
  <2> QED BY <1>4, AggregateIs
<1>8. {"download", "transfer", "progress"} \subseteq DOMAIN agg
  BY <1>6 DEF aggregateMediaStates
<1> HIDE DEF agg, best, x
<1>9. /\ state.download = packDownload(states) /\ state.progress = Total(x)
      /\ state.transfer = agg.transfer
  <2> HIDE DEF state
  <2> QED BY <1>2, <1>8
<1> HIDE DEF state
<1>10. /\ packDownload(states) = "downloaded"
            <=> \A i \in DOMAIN states : states[i].download = "downloaded"
       /\ (\E i \in DOMAIN states : states[i].download = "error") =>
             packDownload(states) = "error"
  BY DEF packDownload
<1>11. \A i \in DOMAIN files : /\ p[i] \in 0..Full
                               /\ states[i].download = "downloaded" <=> p[i] = Full
                               /\ states[i].transfer = "error" => states[i].download = "error"
  BY <1>4 DEF SourceSays, MediaOK
<1>12. \A i \in DOMAIN files : Weight(files[i]) \in Nat \ {0}
  <2> SUFFICES ASSUME NEW i \in DOMAIN files PROVE Weight(files[i]) \in Nat \ {0}
    OBVIOUS
  <2>1. \A f \in DOMAIN FileWeight : FileWeight[f] \in Nat
    BY LibraryStateAssumption
  <2> QED BY <2>1 DEF Weight
<1>13. Total(x) = Full * Total(w) <=> \A i \in 1..Len(files) : p[i] = Full
  <2>1. \A i \in 1..Len(files) : /\ w[i] \in Nat \ {0} /\ p[i] \in 0..Full /\ p[i] \in Nat
                                 /\ x[i] = w[i] * p[i]
    BY <1>5, <1>11, <1>12 DEF x
  <2>2. \A i \in 1..Len(files) : x[i] \in Nat
    <3> SUFFICES ASSUME NEW i \in 1..Len(files) PROVE x[i] \in Nat
      OBVIOUS
    <3>1. w[i] \in Nat /\ p[i] \in Nat /\ x[i] = w[i] * p[i]
      BY <2>1
    <3> HIDE DEF w, p, x
    <3> QED BY <3>1
  <2>3. /\ w = [i \in 1..Len(files) |-> w[i]] /\ x = [i \in 1..Len(files) |-> x[i]]
    BY <1>5 DEF x
  <2> HIDE DEF w, x, p
  <2>4. w \in Seq(Nat \ {0}) /\ x \in Seq(Nat) /\ Len(w) = Len(files) /\ Len(x) = Len(files)
    BY <1>5, <2>1, <2>2, <2>3
  <2>5. Products(x, w, p, Full) /\ Len(x) = Len(w)
    BY <2>1, <2>4 DEF Products
  <2>6. Total(x) = Full * Total(w) <=> \A i \in 1..Len(w) : p[i] = Full
    BY <1>5, <2>4, <2>5, TotalsAgree
  <2> QED BY <2>4, <2>6
<1> HIDE DEF w, p
<1>14. state.download = "downloaded" <=> state.progress = Full * PackTotal(pack)
  BY <1>3, <1>4, <1>5, <1>9, <1>10, <1>11, <1>13
<1>15. state.transfer = "error" => state.download = "error"
  BY <1>4, <1>7, <1>9, <1>10, <1>11 DEF Aggregated
<1> QED BY <1>14, <1>15 DEF state

(* The inductive invariant: only what is of the title is ever touched.     *)
LibraryInv ==
    /\ LibraryTypeOK
    /\ \A r \in Rows : Managed(r) \/ played[r] # "none" => OfTitle(r)

LEMMA OfTitleIs ==
  LibraryTypeOK => \A r \in Rows : OfTitle(r) <=> RowOf[r].release \in ReleasesShown
<1> SUFFICES ASSUME LibraryTypeOK, NEW r \in Rows
             PROVE  OfTitle(r) <=> RowOf[r].release \in ReleasesShown
  OBVIOUS
<1>1. \A e \in DOMAIN title.episodes : \A i \in DOMAIN title.episodes[e] :
        title.episodes[e][i] \in PageSources
  BY SourcesAre
<1>2. \A s \in PageSources : \E e \in DOMAIN title.episodes : \E i \in DOMAIN title.episodes[e] :
        title.episodes[e][i] = s
  BY DEF PageSources
<1> QED BY <1>1, <1>2 DEF OfTitle, ReleasesShown

LEMMA NothingIsHiddenIs == LibraryInv => NothingIsHidden
<1> SUFFICES ASSUME LibraryInv PROVE NothingIsHidden
  OBVIOUS
<1> DEFINE page == applyCatalogState
           list == sourcesState(ReleaseSources)
<1>0. LibraryTypeOK /\ \A r \in Rows : Managed(r) \/ played[r] # "none" => OfTitle(r)
  BY DEF LibraryInv
<1>1. PageSays(page)
  BY <1>0, PageIs
<1>2. list.download # "none" <=> \E r \in Rows : Managed(r) /\ RowOf[r].release \in ReleasesShown
  BY <1>0, ListShows
<1> HIDE DEF page, list
<1>3. (\E r \in Rows : Managed(r)) <=> list.download # "none"
  BY <1>0, <1>2, OfTitleIs
<1>4. page.download # "none" <=> \E s \in PageSources : \E r \in Rows : HeldAs(r, s)
  BY <1>1 DEF PageSays, Together
<1>5. \A r \in Rows : OnPage(r) /\ Managed(r) <=> \E s \in PageSources : HeldAs(r, s)
  <2> SUFFICES ASSUME NEW r \in Rows
               PROVE  OnPage(r) /\ Managed(r) <=> \E s \in PageSources : HeldAs(r, s)
    OBVIOUS
  <2>1. \A e \in DOMAIN title.episodes : \A i \in DOMAIN title.episodes[e] :
          title.episodes[e][i] \in PageSources
    BY <1>0, SourcesAre
  <2>2. \A s \in PageSources : \E e \in DOMAIN title.episodes :
          \E i \in DOMAIN title.episodes[e] : title.episodes[e][i] = s
    BY DEF PageSources
  <2> QED BY <2>1, <2>2 DEF OnPage, HeldAs
<1>6. (\E r \in Rows : Managed(r) /\ OnPage(r)) <=> page.download # "none"
  BY <1>4, <1>5
<1>7. page.download = "downloaded" =>
         \A e \in DOMAIN title.episodes : title.film \/ \E i \in DOMAIN title.episodes[e] :
             \E r \in RowsOf(title.episodes[e][i].release) :
                 Matches(r, title.episodes[e][i]) /\ downloads[r].progress = Full
  <2> SUFFICES ASSUME page.download = "downloaded", NEW e \in DOMAIN title.episodes, ~title.film
               PROVE  \E i \in DOMAIN title.episodes[e] :
                        \E r \in RowsOf(title.episodes[e][i].release) :
                          Matches(r, title.episodes[e][i]) /\ downloads[r].progress = Full
    OBVIOUS
  <2>1. PICK s \in MembersOf(title.episodes[e]) : HasWhole(s)
    BY <1>1 DEF PageSays
  <2>2. PICK i \in DOMAIN title.episodes[e] : title.episodes[e][i] = s
    BY DEF MembersOf
  <2> QED BY <2>1, <2>2 DEF HasWhole, HeldAs, RowsOf
<1> QED BY <1>3, <1>6, <1>7 DEF NothingIsHidden, page, list

(* What is compared before and after a step, in the terms of the rows.     *)
PageSeen == applyCatalogState.watch # "unwatched"
ListSeen == sourcesState(ReleaseSources).watch # "unwatched"
PageProgress == applyCatalogState.progress
PageWhole == applyCatalogState.download = "downloaded"

RowsSay ==
    /\ PageSeen <=> \E s \in PageSources : \E r \in Rows : WatchedAs(r, s)
    /\ ListSeen <=> \E r \in Rows : RowOf[r].release \in ReleasesShown /\ played[r] # "none"
    /\ PageProgress \in 0..Full
    /\ \A s \in PageSources : \A r \in Rows : HeldAs(r, s) => downloads[r].progress <= PageProgress
    /\ PageProgress = 0 \/ \E s \in PageSources : \E r \in Rows :
                             HeldAs(r, s) /\ downloads[r].progress = PageProgress
    /\ title.film => (PageWhole <=> \E s \in PageSources : HasWhole(s))
    /\ ~title.film =>
         (PageWhole <=>
            /\ title.episodes # << >>
            /\ \A e \in DOMAIN title.episodes : \E s \in MembersOf(title.episodes[e]) : HasWhole(s))

LEMMA RowsSayIs == LibraryTypeOK => RowsSay
<1> SUFFICES ASSUME LibraryTypeOK PROVE RowsSay
  OBVIOUS
<1>1. PageSays(applyCatalogState)
  BY PageIs
<1>2. ListSeen <=> \E r \in Rows : RowOf[r].release \in ReleasesShown /\ played[r] # "none"
  BY ListShows DEF ListSeen
<1>3. Together(PageSources, applyCatalogState)
  BY <1>1 DEF PageSays
<1> QED BY <1>1, <1>2, <1>3
        DEF PageSays, Together, MediaOK, RowsSay, PageSeen, PageProgress, PageWhole

LEMMA RowsSayNext == LibraryTypeOK' => RowsSay'
  BY RowsSayIs, PTL

LEMMA SameSources ==
  ASSUME title' = title
  PROVE  /\ PageSources' = PageSources /\ ReleasesShown' = ReleasesShown
         /\ \A r : OfTitle(r)' <=> OfTitle(r)
  BY DEF PageSources, ReleasesShown, OfTitle

(* What was started does not look new while the playback rows stay.        *)
LEMMA SeenStays ==
  ASSUME LibraryTypeOK, LibraryTypeOK', title' = title, played' = played
  PROVE  (PageSeen' <=> PageSeen) /\ (ListSeen' <=> ListSeen)
<1>1. RowsSay /\ RowsSay'
  BY RowsSayIs, RowsSayNext
<1>2. PageSources' = PageSources /\ ReleasesShown' = ReleasesShown
  BY SameSources
<1>3. PageSeen <=> \E s \in PageSources : \E r \in Rows : WatchedAs(r, s)
  BY <1>1 DEF RowsSay
<1>4. PageSeen' <=> \E s \in PageSources' : \E r \in Rows : WatchedAs(r, s)'
  BY <1>1 DEF RowsSay
<1>5. \A s, r : WatchedAs(r, s)' <=> WatchedAs(r, s)
  BY DEF WatchedAs
<1>6. ListSeen <=> \E r \in Rows : RowOf[r].release \in ReleasesShown /\ played[r] # "none"
  BY <1>1 DEF RowsSay
<1>7. ListSeen' <=> \E r \in Rows : RowOf[r].release \in ReleasesShown' /\ played'[r] # "none"
  BY <1>1 DEF RowsSay
<1> QED BY <1>2, <1>3, <1>4, <1>5, <1>6, <1>7

(* Progress of rows takes neither the page's progress nor its episodes     *)
(* back.                                                                   *)
LEMMA ProgressStays ==
  ASSUME LibraryTypeOK, LibraryTypeOK', title' = title,
         \A r \in Rows : Managed(r) => downloads'[r].progress >= downloads[r].progress
  PROVE  PageProgress' >= PageProgress /\ (PageWhole => PageWhole')
<1>1. RowsSay /\ RowsSay'
  BY RowsSayIs, RowsSayNext
<1>2. PageSources' = PageSources
  BY SameSources
<1>3. \A r \in Rows : downloads[r].progress \in -1..Full /\ downloads'[r].progress \in -1..Full
  BY DEF LibraryTypeOK
<1>4. Full \in Nat
  BY LibraryStateAssumption
<1>5. \A r \in Rows : \A s : HeldAs(r, s) =>
        HeldAs(r, s)' /\ downloads'[r].progress >= downloads[r].progress
  BY <1>3 DEF HeldAs, Managed, Matches
<1>6. \A s : HasWhole(s) => HasWhole(s)'
  BY <1>3, <1>4, <1>5 DEF HasWhole
<1>7. PageProgress' >= PageProgress
  <2>1. PageProgress' \in 0..Full /\ PageProgress \in 0..Full
    BY <1>1 DEF RowsSay
  <2>2. PageProgress = 0 \/ \E s \in PageSources : \E r \in Rows :
                             HeldAs(r, s) /\ downloads[r].progress = PageProgress
    BY <1>1 DEF RowsSay
  <2>3. \A s \in PageSources' : \A r \in Rows :
           HeldAs(r, s)' => downloads'[r].progress <= PageProgress'
    BY <1>1 DEF RowsSay
  <2>4. CASE PageProgress = 0
    BY <2>1, <2>4, <1>4
  <2>5. ASSUME NEW s \in PageSources, NEW r \in Rows,
               HeldAs(r, s), downloads[r].progress = PageProgress
        PROVE  PageProgress' >= PageProgress
    <3>1. downloads'[r].progress >= downloads[r].progress /\ HeldAs(r, s)'
      BY <2>5, <1>5
    <3>2. downloads'[r].progress <= PageProgress'
      BY <3>1, <2>3, <1>2
    <3> QED BY <3>1, <3>2, <2>1, <2>5, <1>3, <1>4
  <2> QED BY <2>2, <2>4, <2>5
<1>8. PageWhole => PageWhole'
  <2>1. CASE title.film
    <3>1. PageWhole <=> \E s \in PageSources : HasWhole(s)
      BY <1>1, <2>1 DEF RowsSay
    <3>2. PageWhole' <=> \E s \in PageSources' : HasWhole(s)'
      BY <1>1, <2>1 DEF RowsSay
    <3> QED BY <3>1, <3>2, <1>2, <1>6
  <2>2. CASE ~title.film
    <3>1. PageWhole <=>
            /\ title.episodes # << >>
            /\ \A e \in DOMAIN title.episodes : \E s \in MembersOf(title.episodes[e]) : HasWhole(s)
      BY <1>1, <2>2 DEF RowsSay
    <3>2. PageWhole' <=>
            /\ title.episodes # << >>
            /\ \A e \in DOMAIN title.episodes : \E s \in MembersOf(title.episodes[e]) : HasWhole(s)'
      BY <1>1, <2>2 DEF RowsSay
    <3> QED BY <3>1, <3>2, <1>6
  <2> QED BY <2>1, <2>2
<1> QED BY <1>7, <1>8

SteadyNow == last.progress \in Nat /\ (steps > 0 => ShownSteadily)

LEMMA SteadyIs ==
  ShownSteadily <=>
    /\ last.step \in {"download", "removal"} =>
         /\ last.page \notin {"", "unwatched"} => PageSeen
         /\ last.list \notin {"", "unwatched"} => ListSeen
    /\ last.step = "download" => PageProgress >= last.progress /\ (last.done => PageWhole)
  BY DEF ShownSteadily, PageSeen, ListSeen, PageProgress, PageWhole

LEMMA SteadyNext ==
  ShownSteadily' <=>
    /\ last'.step \in {"download", "removal"} =>
         /\ last'.page \notin {"", "unwatched"} => PageSeen'
         /\ last'.list \notin {"", "unwatched"} => ListSeen'
    /\ last'.step = "download" => PageProgress' >= last'.progress /\ (last'.done => PageWhole')
  BY DEF ShownSteadily, PageSeen, ListSeen, PageProgress, PageWhole

LEMMA ShowsIs ==
  ASSUME NEW step, Shows(step)
  PROVE  /\ steps < MaxLibrarySteps /\ steps' = steps + 1 /\ title' = title /\ last'.step = step
         /\ last'.page # "unwatched" <=> PageSeen
         /\ last'.list # "unwatched" <=> ListSeen
         /\ last'.progress = PageProgress /\ (last'.done <=> PageWhole)
  BY DEF Shows, PageSeen, ListSeen, PageProgress, PageWhole

LEMMA LibraryInitOK == LibraryInit => LibraryInv /\ SteadyNow
<1> SUFFICES ASSUME LibraryInit PROVE LibraryInv /\ SteadyNow
  OBVIOUS
<1>1. Full \in Nat /\ MaxLibrarySteps \in Nat
  BY LibraryStateAssumption
<1>2. Gone \in [progress: -1..Full, status: Statuses \cup {"active"}]
  BY <1>1 DEF Gone
<1>3. /\ title \in Titles /\ steps = 0
      /\ downloads = [r \in Rows |-> Gone] /\ played = [r \in Rows |-> "none"]
      /\ last.progress = 0
  BY DEF LibraryInit
<1>4. LibraryTypeOK
  BY <1>1, <1>2, <1>3 DEF LibraryTypeOK
<1>5. \A r \in Rows : ~Managed(r) /\ played[r] = "none"
  BY <1>3 DEF Managed, Gone
<1>6. SteadyNow
  BY <1>3 DEF SteadyNow
<1> QED BY <1>4, <1>5, <1>6 DEF LibraryInv

LEMMA LibraryStepOK ==
  LibraryInv /\ SteadyNow /\ [LibraryNext]_libraryVars => LibraryInv' /\ SteadyNow'
<1> SUFFICES ASSUME LibraryInv, SteadyNow, [LibraryNext]_libraryVars
             PROVE  LibraryInv' /\ SteadyNow'
  OBVIOUS
<1>0. /\ LibraryTypeOK /\ \A r \in Rows : Managed(r) \/ played[r] # "none" => OfTitle(r)
      /\ title \in Titles /\ steps \in 0..MaxLibrarySteps
      /\ downloads \in [Rows -> [progress: -1..Full, status: Statuses \cup {"active"}]]
      /\ played \in [Rows -> {"none", "started", "watched"}]
      /\ Full \in Nat /\ MaxLibrarySteps \in Nat
  BY LibraryStateAssumption DEF LibraryInv, LibraryTypeOK
<1>1. CASE UNCHANGED libraryVars
  <2>1. title' = title /\ downloads' = downloads /\ played' = played /\ last' = last /\ steps' = steps
    BY <1>1 DEF libraryVars
  <2>2. LibraryTypeOK'
    BY <1>0, <2>1 DEF LibraryTypeOK
  <2>3. LibraryInv'
    BY <1>0, <2>1, <2>2, SameSources DEF LibraryInv, Managed
  <2>4. (PageSeen' <=> PageSeen) /\ (ListSeen' <=> ListSeen)
    BY <1>0, <2>1, <2>2, SeenStays
  <2>5. PageProgress' >= PageProgress /\ (PageWhole => PageWhole')
    <3>1. \A r \in Rows : downloads'[r].progress >= downloads[r].progress
      BY <1>0, <2>1
    <3> QED BY <1>0, <2>1, <2>2, <3>1, ProgressStays
  <2>6. PageProgress \in Nat /\ PageProgress' \in Nat /\ last.progress \in Nat
    BY <1>0, <2>2, RowsSayIs, RowsSayNext DEF RowsSay, SteadyNow
  <2>7. SteadyNow'
    <3>1. last'.progress \in Nat
      BY <2>1, <2>6
    <3>2. ASSUME steps' > 0 PROVE ShownSteadily'
      <4>1. ShownSteadily
        BY <2>1, <3>2 DEF SteadyNow
      <4>2. last.step = "download" => PageProgress' >= last.progress
        <5>1. last.step = "download" => PageProgress >= last.progress
          BY <4>1, SteadyIs
        <5>2. \A x, y, z \in Nat : x >= y /\ y >= z => x >= z
          OBVIOUS
        <5> QED BY <2>5, <2>6, <5>1, <5>2
      <4> QED BY <2>1, <2>4, <2>5, <4>1, <4>2, SteadyIs, SteadyNext
    <3> QED BY <3>1, <3>2 DEF SteadyNow
  <2> QED BY <2>3, <2>7
<1>2. ASSUME NEW r \in Rows, OfTitle(r), DownloadChanges(r) PROVE LibraryInv' /\ SteadyNow'
  <2>1. PICK p \in 0..Full, status \in Statuses :
          /\ p >= downloads[r].progress
          /\ downloads' = [downloads EXCEPT ![r] = [progress |-> p, status |-> status]]
    BY <1>2 DEF DownloadChanges
  <2>2. Shows("download") /\ played' = played
    BY <1>2 DEF DownloadChanges
  <2>3. /\ steps < MaxLibrarySteps /\ steps' = steps + 1 /\ title' = title /\ last'.step = "download"
        /\ last'.page # "unwatched" <=> PageSeen
        /\ last'.list # "unwatched" <=> ListSeen
        /\ last'.progress = PageProgress /\ (last'.done <=> PageWhole)
    BY <2>2, ShowsIs
  <2>4. LibraryTypeOK'
    BY <1>0, <2>1, <2>2, <2>3 DEF LibraryTypeOK
  <2>5. \A q \in Rows : Managed(q)' \/ played'[q] # "none" => OfTitle(q)'
    BY <1>0, <1>2, <2>1, <2>2, <2>3, SameSources DEF Managed
  <2>6. (PageSeen' <=> PageSeen) /\ (ListSeen' <=> ListSeen)
    BY <1>0, <2>2, <2>3, <2>4, SeenStays
  <2>7. PageProgress' >= PageProgress /\ (PageWhole => PageWhole')
    <3>1. \A q \in Rows : downloads'[q].progress >= downloads[q].progress
      BY <1>0, <2>1
    <3> QED BY <1>0, <2>3, <2>4, <3>1, ProgressStays
  <2>8. ShownSteadily'
    BY <2>3, <2>6, <2>7, SteadyNext
  <2>9. last'.progress \in Nat
    BY <1>0, <2>3, RowsSayIs DEF RowsSay
  <2> QED BY <2>4, <2>5, <2>8, <2>9 DEF LibraryInv, SteadyNow
<1>3. ASSUME NEW r \in Rows, DownloadRemoved(r) PROVE LibraryInv' /\ SteadyNow'
  <2>1. downloads' = [downloads EXCEPT ![r] = Gone] /\ Shows("removal") /\ played' = played
    BY <1>3 DEF DownloadRemoved
  <2>2. /\ steps < MaxLibrarySteps /\ steps' = steps + 1 /\ title' = title /\ last'.step = "removal"
        /\ last'.page # "unwatched" <=> PageSeen
        /\ last'.list # "unwatched" <=> ListSeen
        /\ last'.progress = PageProgress
    BY <2>1, ShowsIs
  <2>3. Gone \in [progress: -1..Full, status: Statuses \cup {"active"}] /\ Gone.progress = -1
    BY <1>0 DEF Gone
  <2>4. LibraryTypeOK'
    BY <1>0, <2>1, <2>2, <2>3 DEF LibraryTypeOK
  <2>5. \A q \in Rows : Managed(q)' \/ played'[q] # "none" => OfTitle(q)'
    BY <1>0, <2>1, <2>2, <2>3, SameSources DEF Managed
  <2>6. (PageSeen' <=> PageSeen) /\ (ListSeen' <=> ListSeen)
    BY <1>0, <2>1, <2>2, <2>4, SeenStays
  <2>7. ShownSteadily'
    BY <2>2, <2>6, SteadyNext
  <2>8. last'.progress \in Nat
    BY <1>0, <2>2, RowsSayIs DEF RowsSay
  <2> QED BY <2>4, <2>5, <2>7, <2>8 DEF LibraryInv, SteadyNow
<1>4. ASSUME NEW r \in Rows, OfTitle(r), PlaybackChanges(r) PROVE LibraryInv' /\ SteadyNow'
  <2>1. PICK w \in {"none", "started", "watched"} : played' = [played EXCEPT ![r] = w]
    BY <1>4 DEF PlaybackChanges
  <2>2. Shows("playback") /\ downloads' = downloads
    BY <1>4 DEF PlaybackChanges
  <2>3. /\ steps < MaxLibrarySteps /\ steps' = steps + 1 /\ title' = title
        /\ last'.step = "playback" /\ last'.progress = PageProgress
    BY <2>2, ShowsIs
  <2>4. LibraryTypeOK'
    BY <1>0, <2>1, <2>2, <2>3 DEF LibraryTypeOK
  <2>5. \A q \in Rows : Managed(q)' \/ played'[q] # "none" => OfTitle(q)'
    BY <1>0, <1>4, <2>1, <2>2, <2>3, SameSources DEF Managed
  <2>6. ShownSteadily'
    BY <2>3, SteadyNext
  <2>7. last'.progress \in Nat
    BY <1>0, <2>3, RowsSayIs DEF RowsSay
  <2> QED BY <2>4, <2>5, <2>6, <2>7 DEF LibraryInv, SteadyNow
<1> QED BY <1>1, <1>2, <1>3, <1>4 DEF LibraryNext

(* In every behaviour of the library of a title: its types hold; whatever  *)
(* is managed of the title shows, and what the page calls downloaded is    *)
(* there; a pack agrees with its files; and no download that comes,        *)
(* progresses, fails or goes makes what was started look new, nor does one *)
(* that progresses take the page's progress or its "downloaded" back.      *)
THEOREM LibraryTheorem ==
  LibraryInit /\ [][LibraryNext]_libraryVars => []LibraryStateSafe
<1>1. LibraryInv /\ SteadyNow => LibraryStateSafe
  BY NothingIsHiddenIs, PacksAgreeIs DEF LibraryInv, SteadyNow, LibraryStateSafe
<1> QED BY <1>1, LibraryInitOK, LibraryStepOK, PTL
================================================================================
