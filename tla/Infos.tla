--------------------------------- MODULE Infos ---------------------------------
(***************************************************************************)
(* The caches of provider details: title info (titleinfo.go), season lists *)
(* and seasons (seasoninfo.go), with the flight group that shares one      *)
(* fetch among the requests for a key (singleflight.go).                   *)
(*                                                                         *)
(* The two caches follow the same rules, so one row stands for any of      *)
(* them.  What the provider holds is a version; a row is fresh until its   *)
(* time has passed, and negative when it is fresh but not available (one   *)
(* that is neither is like no row at all).                                 *)
(***************************************************************************)
EXTENDS Naturals, FiniteSets

CONSTANTS
    InfoCallers,   \* requests for the details of the title
    MaxUpstream,   \* bound: changes of what the provider holds
    MaxExpires,    \* bound: forced refreshes of the title
    MaxFailures    \* bound: fetches that fail

ASSUME InfosAssumption ==
    MaxUpstream \in Nat /\ MaxExpires \in Nat /\ MaxFailures \in Nat

VARIABLES
    upstream,    \* version of what the provider holds
    row,         \* the cache row, see Rows
    fetch,       \* the flight: at, the cached row it falls back on, result
    reader,      \* caller -> place, and the row it read from the cache
    floor,       \* upstream when the title was last refreshed by force
    crossed,     \* something that read the cache before that still runs
    counts       \* bounds: [expires, failures]

infosVars == <<upstream, row, fetch, reader, floor, crossed, counts>>

NoRow == [available |-> FALSE, version |-> 0, fresh |-> FALSE]

Rows == [available: BOOLEAN, version: 0..MaxUpstream, fresh: BOOLEAN]

NoFetch == [at |-> "none", cached |-> NoRow, usable |-> FALSE]

Away == [at |-> "idle", cached |-> NoRow]

InfosInit ==
    /\ upstream = 0 /\ row = NoRow /\ fetch = NoFetch
    /\ reader = [c \in InfoCallers |-> Away]
    /\ floor = 0 /\ crossed = FALSE /\ counts = [expires |-> 0, failures |-> 0]

(* TitleInfo and seasonPayload read the row: a fresh one is the answer     *)
(* (a negative one degrades), otherwise the caller heads for the flight.   *)
ReadCache(c) ==
    /\ reader[c].at = "idle"
    /\ reader' = [reader EXCEPT ![c] =
          [at |-> IF row.fresh THEN (IF row.available THEN "loaded" ELSE "idle")
                  ELSE "decided", cached |-> row]]
    /\ reader' # reader
    /\ UNCHANGED <<upstream, row, fetch, floor, crossed, counts>>

(* flightGroup.do: join the running flight or start one, which then falls  *)
(* back on the row that its first caller read.                             *)
JoinFlight(c) ==
    /\ reader[c].at = "decided"
    /\ fetch' = IF fetch.at = "none"
                THEN [NoFetch EXCEPT !.at = "fetching", !.cached = reader[c].cached]
                ELSE fetch
    /\ reader' = [reader EXCEPT ![c] = [at |-> "waiting", cached |-> NoRow]]
    /\ UNCHANGED <<upstream, row, floor, crossed, counts>>

(* A waiter leaves when its own context ends; the fetch goes on.           *)
WaiterLeaves(c) ==
    /\ reader[c].at = "waiting"
    /\ reader' = [reader EXCEPT ![c] = Away]
    /\ UNCHANGED <<upstream, row, fetch, floor, crossed, counts>>

Saves(r, usable) ==
    /\ row' = r
    /\ fetch' = [fetch EXCEPT !.at = "saved", !.usable = usable]

(* fetchTitleInfo: success replaces the row ...                            *)
FetchSucceeds ==
    /\ fetch.at = "fetching"
    /\ Saves([available |-> TRUE, version |-> upstream, fresh |-> TRUE], TRUE)
    /\ UNCHANGED <<upstream, reader, floor, crossed, counts>>

\* Mutant: a failure is cached as a negative row even over a stale one.
FetchFailsForgetting ==
    /\ fetch.at = "fetching" /\ counts.failures < MaxFailures
    /\ counts' = [counts EXCEPT !.failures = @ + 1]
    /\ Saves([NoRow EXCEPT !.fresh = TRUE], FALSE)
    /\ UNCHANGED <<upstream, reader, floor, crossed>>

(* ... a failure extends the available row it knows of, or leaves a        *)
(* negative row, for titleInfoBackoff ...                                  *)
FetchFails ==
    /\ fetch.at = "fetching" /\ counts.failures < MaxFailures
    /\ counts' = [counts EXCEPT !.failures = @ + 1]
    /\ IF fetch.cached.available
       THEN Saves([fetch.cached EXCEPT !.fresh = TRUE], TRUE)
       ELSE Saves([NoRow EXCEPT !.fresh = TRUE], FALSE)
    /\ UNCHANGED <<upstream, reader, floor, crossed>>

(* ... when the fetch ran out of its thirty seconds the row is written     *)
(* with the context that has just expired, which fails (and a cancellation *)
(* is not written at all) ...                                              *)
FetchTimesOut ==
    /\ fetch.at = "fetching" /\ counts.failures < MaxFailures
    /\ counts' = [counts EXCEPT !.failures = @ + 1]
    /\ fetch' = [fetch EXCEPT !.at = "saved", !.usable = fetch.cached.available]
    /\ UNCHANGED <<upstream, row, reader, floor, crossed>>

(* ... and the flight is over: its waiters are answered.                   *)
FlightEnds ==
    /\ fetch.at = "saved"
    /\ fetch' = NoFetch
    /\ reader' = [c \in InfoCallers |->
                    IF reader[c].at # "waiting" THEN reader[c]
                    ELSE IF fetch.usable THEN [Away EXCEPT !.at = "loaded"]
                    ELSE Away]
    /\ UNCHANGED <<upstream, row, floor, crossed, counts>>

(* SeasonEpisode: a loaded season with a lazy episode asks the provider    *)
(* for its text, and storeEpisode writes the row back with it.             *)
(* titleInfoMu, which it holds, does not cover the saves of a flight.      *)
LoadedReturns(c) ==
    /\ reader[c].at = "loaded"
    /\ reader' = [reader EXCEPT ![c] = Away]
    /\ UNCHANGED <<upstream, row, fetch, floor, crossed, counts>>

StoreReads(c) ==
    /\ reader[c].at = "loaded" /\ \A d \in InfoCallers : reader[d].at # "storing"
    /\ reader' = [reader EXCEPT ![c] =
                    IF row.available THEN [at |-> "storing", cached |-> row] ELSE Away]
    /\ UNCHANGED <<upstream, row, fetch, floor, crossed, counts>>

StoreWrites(c) ==
    /\ reader[c].at = "storing"
    /\ row' = reader[c].cached
    /\ reader' = [reader EXCEPT ![c] = Away]
    /\ UNCHANGED <<upstream, fetch, floor, crossed, counts>>

\* Mutant: the forced refresh leaves the rows to their expiry.
ExpireTitleInfoLate ==
    /\ counts.expires < MaxExpires
    /\ counts' = [counts EXCEPT !.expires = @ + 1]
    /\ floor' = upstream
    /\ crossed' = (crossed \/ fetch.at # "none"
                     \/ \E c \in InfoCallers : reader[c].at \in {"decided", "storing"})
    /\ UNCHANGED <<upstream, row, fetch, reader>>

(* expireTitleInfo, in a forced refresh of the title: the rows are deleted.*)
ExpireTitleInfo ==
    /\ counts.expires < MaxExpires
    /\ counts' = [counts EXCEPT !.expires = @ + 1]
    /\ row' = NoRow /\ floor' = upstream
    /\ crossed' = (crossed \/ fetch.at # "none"
                     \/ \E c \in InfoCallers : reader[c].at \in {"decided", "storing"})
    /\ UNCHANGED <<upstream, fetch, reader>>

RowAges ==
    /\ row.fresh /\ row' = [row EXCEPT !.fresh = FALSE]
    /\ UNCHANGED <<upstream, fetch, reader, floor, crossed, counts>>

UpstreamChanges ==
    /\ upstream < MaxUpstream /\ upstream' = upstream + 1
    /\ UNCHANGED <<row, fetch, reader, floor, crossed, counts>>

FetchStep == FetchSucceeds \/ FetchFails \/ FetchTimesOut \/ FlightEnds

InfosNext ==
    \/ \E c \in InfoCallers :
          \/ ReadCache(c) \/ JoinFlight(c) \/ WaiterLeaves(c)
          \/ LoadedReturns(c) \/ StoreReads(c) \/ StoreWrites(c)
    \/ FetchStep \/ ExpireTitleInfo \/ RowAges \/ UpstreamChanges

InfosTypeOK ==
    /\ upstream \in 0..MaxUpstream /\ floor \in 0..MaxUpstream
    /\ row \in Rows /\ crossed \in BOOLEAN
    /\ fetch \in [at: {"none", "fetching", "saved"}, cached: Rows, usable: BOOLEAN]
    /\ reader \in [InfoCallers ->
          [at: {"idle", "decided", "waiting", "loaded", "storing"}, cached: Rows]]

(* After a forced refresh the cache never shows again what the provider    *)
(* held before it: unless a fetch, or a request that had already read the  *)
(* old row, was under way and wrote it back.                               *)
RefreshTakes == row.available /\ row.version < floor => crossed

(* Stale-if-error: a failed fetch never turns details into no details.  It *)
(* may only do so when the request that started it had looked at the cache *)
(* before the details were saved (it then knows of no row to keep).        *)
FailureKeepsDetails ==
    [][fetch.at = "fetching" /\ fetch'.at = "saved" /\ row.available
          => row'.available \/ ~fetch.cached.available]_infosVars

(* The cache of details neither goes back behind a forced refresh nor      *)
(* loses details to a failure.                                             *)
InfosKept == [](InfosTypeOK /\ RefreshTakes) /\ FailureKeepsDetails
================================================================================
