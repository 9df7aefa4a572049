-------------------------------- MODULE Families -------------------------------
(***************************************************************************)
(* The cache of Category family tiles (internal/application/families.go):  *)
(* one background computation at a time, shared by the callers that wait   *)
(* for it, restarted when the catalog changed while it ran, and a stale    *)
(* cache served while it runs.                                             *)
(*                                                                         *)
(* The catalog is a version; tiles are the version they were built from,   *)
(* and None when there are none.  A synchronization saves its releases and *)
(* calls RefreshFamilies afterwards, in a step of its own.                 *)
(***************************************************************************)
EXTENDS Integers, FiniteSets

CONSTANTS
    FamilyCallers,  \* requests for the Categories page
    MaxCatalog,     \* bound: synchronizations that change the catalog
    MaxBuildErrors  \* bound: computations that fail

ASSUME FamiliesAssumption == MaxCatalog \in Nat /\ MaxBuildErrors \in Nat

NoTiles == -1

VARIABLES
    catalog,       \* version of the catalog in the repository
    unannounced,   \* a synchronization has not called RefreshFamilies yet
    announced,     \* the version the last RefreshFamilies was called for
    families,      \* familyCache: items, and whether at and quarter are fresh
    familyGen,     \* Service.familyGen
    familyFlight,  \* the flight: at, the generation and version it works on
    caller,        \* caller -> its place and what it was given
    famStopping,   \* the service's stopping channel is closed
    buildErrors    \* computations that failed

familiesVars == <<catalog, unannounced, announced, families, familyGen,
                  familyFlight, caller, famStopping, buildErrors>>

Versions == 0..MaxCatalog

NoFlight == [at |-> "none", gen |-> 0, built |-> NoTiles]

Idle == [at |-> "idle", items |-> NoTiles, since |-> NoTiles]

FamiliesInit ==
    /\ catalog = 0 /\ unannounced = FALSE /\ announced = 0
    /\ families = [items |-> NoTiles, fresh |-> FALSE]
    /\ familyGen = 0 /\ familyFlight = NoFlight
    /\ caller = [c \in FamilyCallers |-> Idle]
    /\ famStopping = FALSE /\ buildErrors = 0

(* startFamilyFlightLocked: the running flight, a new one, or none when    *)
(* the service stops.                                                      *)
Started ==
    IF familyFlight.at = "none" /\ ~famStopping
    THEN [NoFlight EXCEPT !.at = "begin"] ELSE familyFlight

(* A synchronization commits its releases...                               *)
CatalogChanges ==
    /\ ~unannounced /\ catalog < MaxCatalog
    /\ catalog' = catalog + 1 /\ unannounced' = TRUE
    /\ UNCHANGED <<announced, families, familyGen, familyFlight, caller,
                   famStopping, buildErrors>>

\* Mutant: the cache is marked stale without a new generation.
RefreshFamiliesQuietly ==
    /\ unannounced /\ unannounced' = FALSE /\ announced' = catalog
    /\ families' = [families EXCEPT !.fresh = FALSE]
    /\ familyFlight' = Started
    /\ UNCHANGED <<catalog, familyGen, caller, famStopping, buildErrors>>

(* ... and then marks the tiles stale and has them computed again.         *)
RefreshFamilies ==
    /\ unannounced /\ unannounced' = FALSE /\ announced' = catalog
    /\ families' = [families EXCEPT !.fresh = FALSE]
    /\ familyGen' = familyGen + 1
    /\ familyFlight' = Started
    /\ UNCHANGED <<catalog, caller, famStopping, buildErrors>>

(* WarmFamilies, when the server starts to listen.                         *)
WarmFamilies ==
    /\ ~families.fresh /\ familyFlight' = Started /\ familyFlight' # familyFlight
    /\ UNCHANGED <<catalog, unannounced, announced, families, familyGen, caller,
                   famStopping, buildErrors>>

(* CatalogFamilies: a fresh cache, or a stale one while the flight runs,   *)
(* or a wait for the flight, or an error when there can be none.           *)
CatalogFamilies(c) ==
    /\ caller[c].at = "idle"
    /\ familyFlight' = IF families.fresh THEN familyFlight ELSE Started
    /\ caller' = [caller EXCEPT ![c] =
          [at |-> IF families.items # NoTiles THEN "served"
                  ELSE IF familyFlight'.at = "none" THEN "failed" ELSE "waiting",
           items |-> families.items, since |-> announced]]
    /\ UNCHANGED <<catalog, unannounced, announced, families, familyGen,
                   famStopping, buildErrors>>

(* The caller's own context ends while it waits.                           *)
CallerLeaves(c) ==
    /\ caller[c].at = "waiting"
    /\ caller' = [caller EXCEPT ![c] = Idle]
    /\ UNCHANGED <<catalog, unannounced, announced, families, familyGen,
                   familyFlight, famStopping, buildErrors>>

CallerReturns(c) ==
    /\ caller[c].at \in {"served", "given", "failed"}
    /\ caller' = [caller EXCEPT ![c] = Idle]
    /\ UNCHANGED <<catalog, unannounced, announced, families, familyGen,
                   familyFlight, famStopping, buildErrors>>

(* runFamilyFlight, one turn: the generation is read...                    *)
FlightBegins ==
    /\ familyFlight.at = "begin"
    /\ familyFlight' = [at |-> "build", gen |-> familyGen, built |-> NoTiles]
    /\ UNCHANGED <<catalog, unannounced, announced, families, familyGen, caller,
                   famStopping, buildErrors>>

(* ... buildFamilies reads the catalog on a context that ends with the     *)
(* service ...                                                             *)
FlightBuilds ==
    /\ familyFlight.at = "build"
    /\ \/ /\ ~famStopping
          /\ familyFlight' = [familyFlight EXCEPT !.at = "store", !.built = catalog]
          /\ UNCHANGED buildErrors
       \/ /\ famStopping \/ buildErrors < MaxBuildErrors
          /\ buildErrors' = IF famStopping THEN buildErrors ELSE buildErrors + 1
          /\ familyFlight' = [familyFlight EXCEPT !.at = "fail"]
    /\ UNCHANGED <<catalog, unannounced, announced, families, familyGen, caller,
                   famStopping>>

WaitersGet(status, items) ==
    [c \in FamilyCallers |->
        IF caller[c].at = "waiting"
        THEN [caller[c] EXCEPT !.at = status, !.items = items] ELSE caller[c]]

\* Mutant: a result overtaken by a change ends the flight like any other.
FlightStoresOnce ==
    /\ familyFlight.at = "store"
    /\ families' = [items |-> familyFlight.built, fresh |-> familyGen = familyFlight.gen]
    /\ familyFlight' = NoFlight
    /\ caller' = WaitersGet("given", familyFlight.built)
    /\ UNCHANGED <<catalog, unannounced, announced, familyGen, famStopping, buildErrors>>

(* ... and the result is stored: as stale, with another turn, when the     *)
(* generation moved; for good, waking the waiters, otherwise.              *)
FlightStores ==
    /\ familyFlight.at = "store"
    /\ LET changed == familyGen # familyFlight.gen
       IN /\ families' = [items |-> familyFlight.built, fresh |-> ~changed]
          /\ familyFlight' = IF changed THEN [NoFlight EXCEPT !.at = "begin"]
                             ELSE NoFlight
          /\ caller' = IF changed THEN caller
                       ELSE WaitersGet("given", familyFlight.built)
    /\ UNCHANGED <<catalog, unannounced, announced, familyGen, famStopping,
                   buildErrors>>

(* A failed turn ends the flight, whatever the generation; the cache stays.*)
FlightFails ==
    /\ familyFlight.at = "fail"
    /\ familyFlight' = NoFlight
    /\ caller' = WaitersGet("failed", NoTiles)
    /\ UNCHANGED <<catalog, unannounced, announced, families, familyGen,
                   famStopping, buildErrors>>

(* familyCacheTTL has passed, or a new art quarter began.                  *)
FamiliesAge ==
    /\ families.fresh
    /\ families' = [families EXCEPT !.fresh = FALSE]
    /\ UNCHANGED <<catalog, unannounced, announced, familyGen, familyFlight,
                   caller, famStopping, buildErrors>>

FamiliesStop ==
    /\ ~famStopping /\ famStopping' = TRUE
    /\ UNCHANGED <<catalog, unannounced, announced, families, familyGen,
                   familyFlight, caller, buildErrors>>

FlightStep == FlightBegins \/ FlightBuilds \/ FlightStores \/ FlightFails

FamiliesNext ==
    \/ CatalogChanges \/ RefreshFamilies \/ WarmFamilies
    \/ \E c \in FamilyCallers :
          CatalogFamilies(c) \/ CallerLeaves(c) \/ CallerReturns(c)
    \/ FlightStep \/ FamiliesAge \/ FamiliesStop

(* A flight is bounded (familyBuildTimeout) and always comes to its end;   *)
(* a synchronization that saved releases goes on to RefreshFamilies.       *)
FamiliesFairness == WF_familiesVars(FlightStep) /\ WF_familiesVars(RefreshFamilies)

FamiliesSpec == FamiliesInit /\ [][FamiliesNext]_familiesVars /\ FamiliesFairness

CallerState == [at: {"idle", "waiting", "served", "given", "failed"},
                items: Versions \cup {NoTiles}, since: Versions \cup {NoTiles}]

FamiliesTypeOK ==
    /\ catalog \in Versions /\ announced \in Versions /\ familyGen \in Nat
    /\ families \in [items: Versions \cup {NoTiles}, fresh: BOOLEAN]
    /\ familyFlight \in [at: {"none", "begin", "build", "store", "fail"},
                         gen: Nat, built: Versions \cup {NoTiles}]
    /\ unannounced \in BOOLEAN /\ famStopping \in BOOLEAN
    /\ buildErrors \in 0..MaxBuildErrors
    /\ caller \in [FamilyCallers -> CallerState]

(* Tiles that count as fresh show every change that was announced, and no  *)
(* caller that had to wait is given tiles older than the last announcement *)
(* before it asked: although a flight started before the change may still  *)
(* be on its way with what it read then.                                   *)
FreshIsCurrent ==
    /\ families.fresh => families.items >= announced
    /\ \A c \in FamilyCallers :
          caller[c].at = "given" => caller[c].items >= caller[c].since

(* An announced change reaches the tiles without anybody asking for them:  *)
(* unless a computation failed or the service stops.                       *)
ChangesReachTiles ==
    \A v \in Versions :
       (announced = v /\ families.items # NoTiles)
          ~> (families.items >= v \/ buildErrors > 0 \/ famStopping)

(* Tiles: the types, and none that counts as fresh is out of date.         *)
FamiliesSafe == FamiliesTypeOK /\ FreshIsCurrent
================================================================================
