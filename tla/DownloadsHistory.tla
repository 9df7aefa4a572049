--------------------------- MODULE DownloadsHistory ----------------------------
(***************************************************************************)
(* Downloads with history variables, which record what the properties      *)
(* compare a state with and never constrain a step.                        *)
(***************************************************************************)
EXTENDS Downloads

VARIABLES shield,      \* files streamed since before a request's last check
          excused      \* whether bytes escaped the admissions

history == <<shield, excused>>

Streamed == {f \in rows : leases[f] > 0}

(* The request has just looked at the leases or at the table.              *)
Checks(p) == req[p].at = "idle" \/ (req[p].at = "survey" /\ req'[p].at = "weigh")

ShieldStep ==
  shield' = [p \in Requests |->
               IF req'[p].at = "idle" THEN {}
               ELSE (IF Checks(p) THEN Streamed ELSE shield[p]) \cap Streamed']

(* A claim is given back between another admission's survey and its        *)
(* decision, so that the decision sees neither the row nor the claim.      *)
Slips == \E q \in Requests : \E p \in Requests \ {q} :
           /\ held[q] > 0 /\ held'[q] = 0
           /\ req[p].at = "weigh" /\ admitting = p

(* A torrent comes into the table by a request that holds no claim.        *)
Adopts == \E p \in Requests : /\ RoutesOf(rows') \ RoutesOf(rows) # {}
                              /\ req'[p] # req[p] /\ held[p] = 0

(* The excuse lasts until every request has returned and the table fits.   *)
ExcuseStep ==
  excused' = ((excused \/ Slips \/ Adopts)
              /\ (OwnedBytes' > Cap \/ \E p \in Requests : req'[p].at # "idle"))

HInit == /\ Init
         /\ shield = [p \in Requests |-> {}]
         /\ excused = FALSE

HNext == Next /\ ShieldStep /\ ExcuseStep

HSpec == HInit /\ [][HNext]_<<vars, history>>

(* A goroutine that can make its next call makes it, and Go's mutexes do   *)
(* not starve a waiter.                                                    *)
HFairSpec == HSpec /\ \A p \in Requests : SF_vars(Proceed(p))

--------------------------------------------------------------------------------

(* A torrent is never deleted under a stream that held its lease when the  *)
(* removal checked: Manage(remove) at its start, an eviction at its last   *)
(* survey, Manage(remove-file) when it found no other row.                 *)
StreamsKeepTheirTorrent ==
  \A p \in Requests : req[p].at = "evict" => shield[p] \cap FilesOf(Doomed(p)) = {}

(* Concurrent admissions never add up to more than the Allocation, except  *)
(* through the two gaps Slips and Adopts name.                             *)
AdmissionsFit == Cap > 0 => OwnedBytes <= Cap \/ excused
================================================================================
