------------------------------ MODULE MCServices ------------------------------
(***************************************************************************)
(* Parts of the server process that share little state, one at a time: its *)
(* host and update coordinator, its event streams, its cache of family     *)
(* tiles, and the leases of its streams.  The part in focus runs, the      *)
(* others stay as they started, so that one run checks them all without    *)
(* multiplying their states.  Three overlapping streams of one download    *)
(* are enough for one that acquires, one that releases and one whose write *)
(* is under way.                                                           *)
(***************************************************************************)
EXTENDS Host, Events, Families, Leases

CONSTANT Foci       \* the parts this instance runs

VARIABLE focus      \* the part that this behaviour is about

servicesVars == <<focus, hostVars, eventsVars, familiesVars, vars>>

(* Everything but the part in focus stays.                                 *)
Only(part) ==
    /\ focus = part /\ UNCHANGED focus
    /\ part # "host" => UNCHANGED hostVars
    /\ part # "events" => UNCHANGED eventsVars
    /\ part # "families" => UNCHANGED familiesVars
    /\ part # "leases" => UNCHANGED vars

(* A part that is not in focus has one initial state only, in which its    *)
(* fairness asks for nothing: no server started, nobody connected.         *)
ServicesInit ==
    /\ focus \in Foci
    /\ HostInit /\ EventsInit /\ FamiliesInit /\ Init
    /\ focus = "host" \/ host.kind = CHOOSE k \in HostKinds : TRUE
    /\ focus = "events" \/ lastEvent = 0

ServicesNext ==
    \/ Only("host") /\ HostNext
    \/ Only("events") /\ EventsNext
    \/ Only("families") /\ FamiliesNext
    \/ Only("leases") /\ Next

(* The fairness of each part, while it is in focus: of every goroutine of  *)
(* the host, of its clients' handlers, of the flight that rebuilds the     *)
(* tiles; the leases' is none while no stream has been asked for.          *)
ServicesFairness ==
    /\ \A a \in Apps : WF_servicesVars(Only("host") /\ OperationStep(a))
    /\ WF_servicesVars(Only("host") /\ HostStep)
    /\ \A c \in EventClients : WF_servicesVars(Only("events") /\ Handler(c))
    /\ WF_servicesVars(Only("families") /\ FlightStep)
    /\ WF_servicesVars(Only("families") /\ RefreshFamilies)
    /\ Fairness

ServicesSpec ==
    /\ ServicesInit /\ [][ServicesNext]_servicesVars
    /\ ServicesFairness
===============================================================================
