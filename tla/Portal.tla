--------------------------------- MODULE Portal --------------------------------
(***************************************************************************)
(* The portal hub (internal/application/portal): the refresh cycle that    *)
(* Run drives, the donor's expiry timer, the gated account operations of   *)
(* HTTP handlers, and the events that tell clients of a change.            *)
(*                                                                         *)
(* mu is never held across a call to the portal: a cycle copies the state, *)
(* changes the copy answer by answer and commits it whole.  A step of this *)
(* module is one critical section or one answer.  The portal itself is     *)
(* external: any call may succeed, be refused (credentials), find the      *)
(* portal unavailable, or fail otherwise.  Promotions are present or       *)
(* absent; links and the update notice, which nothing else depends on, are *)
(* left out of the state; time is a clock of a few ticks.                  *)
(***************************************************************************)
EXTENDS Naturals

CONSTANTS
    Keys,           \* supporter keys the settings may hold
    MaxClock,       \* bound: ticks of the clock
    MaxKeyChanges   \* bound: changes of the supporter key

ASSUME PortalAssumption ==
    Keys # {} /\ MaxClock \in Nat /\ MaxKeyChanges \in Nat

VARIABLES
    apiKey,      \* the key in the live settings
    keyChanges,  \* how often it changed
    clock,       \* h.now()
    hub,         \* Hub.state, see HubState
    lastKey,     \* Hub.lastKey
    generation,  \* Hub.generation
    cycle,       \* Run: at, candidate next, generation g, key asked for
    expiry,      \* Run's expiry timer: 0 when none, else its target
    operation,   \* the account operation in flight, see OperationAt
    hubCtxDone,  \* the composition cancelled the hub's context
    emits,       \* emitter -> its portal.state event, see EmitState
    told,        \* the last event published shows the current state
    overlapped,  \* the emitter of that event was not alone
    donorKey     \* the key whose status the hub shows

portalVars == <<apiKey, keyChanges, clock, hub, lastKey, generation,
                cycle, expiry, operation, hubCtxDone, emits, told, overlapped,
                donorKey>>

Times == 0..MaxClock

HubState == [accountsEnabled: BOOLEAN, adsEnabled: BOOLEAN,
             promotionLive: BOOLEAN, donor: BOOLEAN, donorUntil: Times,
             promotions: BOOLEAN]

EmptyHub == [accountsEnabled |-> FALSE, adsEnabled |-> FALSE,
             promotionLive |-> FALSE, donor |-> FALSE, donorUntil |-> 0, promotions |-> FALSE]

(* An event on its way: it holds a snapshot, taken as the state changed,   *)
(* that is still current, or one that is stale by now.                     *)
EmitState == {"none", "fresh", "stale"}

Emitters == {"run", "operation"}

CycleAt == {"idle", "settings", "links", "status", "promotions", "probe", "deliver",
            "commit", "notice", "select", "ended"}

NoDonor(s) == [s EXCEPT !.donor = FALSE, !.donorUntil = 0]

NoPromotions(s) == [s EXCEPT !.promotions = FALSE, !.promotionLive = FALSE]

PortalInit ==
    /\ apiKey = (CHOOSE k \in Keys : TRUE) /\ lastKey = apiKey /\ donorKey = apiKey
    /\ keyChanges = 0 /\ clock = 0 /\ generation = 0
    /\ hub = EmptyHub
    /\ cycle = [at |-> "idle", next |-> EmptyHub, g |-> 0, key |-> apiKey,
                hourly |-> FALSE]
    /\ expiry = 0 /\ operation = "none" /\ hubCtxDone = FALSE
    /\ emits = [e \in Emitters |-> "none"] /\ told = TRUE /\ overlapped = FALSE

(*********************************** events ********************************)

(* What clients are told of: Hub.Snapshot.                                 *)
Shown(s) == <<s.accountsEnabled, s.adsEnabled /\ s.promotionLive, s.donor>>

(* Replacing the hub's state makes snapshots already taken stale.          *)
SetHub(s, emitter, announce) ==
    /\ hub' = s
    /\ emits' = [e \in Emitters |->
                   IF e = emitter THEN (IF announce THEN "fresh" ELSE "none")
                   ELSE IF emits[e] = "fresh" /\ Shown(s) # Shown(hub) THEN "stale"
                   ELSE emits[e]]
    /\ told' = (told /\ Shown(s) = Shown(hub))
    /\ overlapped' = IF announce THEN \E e \in Emitters \ {emitter} : emits[e] # "none"
                     ELSE overlapped

(* The sink: the service's publish, in the order the emitters reach it.    *)
emit(e) ==
    /\ emits[e] # "none"
    /\ told' = (emits[e] = "fresh")
    /\ emits' = [emits EXCEPT ![e] = "none"]
    /\ overlapped' = (overlapped /\ (~told' \/ \E f \in Emitters : emits'[f] # "none"))
    /\ UNCHANGED <<apiKey, keyChanges, clock, hub, lastKey, generation,
                   cycle, expiry, operation, hubCtxDone, donorKey>>

(******************************** the cycle ********************************)

(* refresh begins: noteSettings, currentGeneration, current.               *)
BeginRefresh(hourly) ==
    /\ lastKey' = apiKey
    /\ generation' = IF apiKey = lastKey THEN generation ELSE generation + 1
    /\ cycle' = [cycle EXCEPT !.at = "settings", !.next = hub, !.g = generation',
                              !.key = donorKey, !.hourly = hourly]

(* refresh returns; after the hourly one Run goes on to the notice.        *)
Returned ==
    [cycle EXCEPT !.at = IF cycle.hourly THEN "notice" ELSE "select",
                  !.next = EmptyHub, !.g = 0, !.key = donorKey', !.hourly = FALSE]

(* gate: an answer that comes after cancellation, or under another         *)
(* generation, ends the cycle with nothing committed.                      *)
Stale == hubCtxDone \/ generation # cycle.g

GateFails(at) ==
    /\ cycle.at = at /\ Stale
    /\ donorKey' = donorKey
    /\ cycle' = Returned

Answer(at, next, then) ==
    /\ cycle.at = at /\ ~Stale
    /\ cycle' = [cycle EXCEPT !.next = next, !.at = then]

(* Client.do and statusError: how a call may fail.                         *)
Failures == {"credentials", "unavailable", "other"}

(* A failure of the public settings removes everything but the links.      *)
SettingsFail ==
    Answer("settings",
           NoDonor(NoPromotions([cycle.next EXCEPT !.accountsEnabled = FALSE,
                                                   !.adsEnabled = FALSE])),
           "commit")

SettingsAnswer(accounts, ads) ==
    Answer("settings", [cycle.next EXCEPT !.accountsEnabled = accounts,
                                          !.adsEnabled = ads], "links")

(* The links, or their failure, replace the links and nothing else.  The   *)
(* account status is asked for next, or the donor is gone.                 *)
LinksAnswer ==
    IF cycle.next.accountsEnabled
    THEN /\ cycle.at = "links" /\ ~Stale
         /\ cycle' = [cycle EXCEPT !.at = "status", !.key = apiKey]
    ELSE Answer("links", NoDonor(cycle.next), "promotions")

\* Mutant: an expiry that has passed already is taken as it is.
StatusAnswerUnchecked(donor, until) ==
    Answer("status",
           IF donor THEN [cycle.next EXCEPT !.donor = TRUE, !.donorUntil = until]
           ELSE NoDonor(cycle.next),
           "promotions")

(* The status of the supporter key: until is 0 when none is given.         *)
StatusAnswer(donor, until) ==
    Answer("status",
           IF donor /\ (until = 0 \/ clock < until)
           THEN [cycle.next EXCEPT !.donor = TRUE, !.donorUntil = until]
           ELSE NoDonor(cycle.next),
           "promotions")

\* Mutant: a failed lookup leaves the donor state as it was.
StatusFailsKeeping(error) ==
    /\ cycle.at = "status" /\ ~Stale
    /\ cycle' = [cycle EXCEPT !.key = donorKey, !.at = "promotions"]

(* A refused key is no donor's; an outage hides the accounts too.          *)
StatusFails(error) ==
    Answer("status",
           NoDonor([cycle.next EXCEPT !.accountsEnabled =
                      @ /\ error = "credentials"]),
           "promotions")

\* Mutant: a donor keeps the creatives that were delivered before.
PromotionsHiddenKept ==
    /\ cycle.at = "promotions" /\ ~(cycle.next.adsEnabled /\ ~cycle.next.donor)
    /\ cycle' = [cycle EXCEPT !.at = "commit"]

(* Ads off, or a donor: the slot is hidden and nothing is delivered.       *)
PromotionsHidden ==
    /\ cycle.at = "promotions" /\ ~(cycle.next.adsEnabled /\ ~cycle.next.donor)
    /\ cycle' = [cycle EXCEPT !.next = NoPromotions(@), !.at = "commit"]

(* A live slot is delivered to directly, a hidden one is probed first.     *)
PromotionsChosen ==
    /\ cycle.at = "promotions" /\ cycle.next.adsEnabled /\ ~cycle.next.donor
    /\ cycle' = [cycle EXCEPT !.at = IF cycle.next.promotionLive
                                     THEN "deliver" ELSE "probe"]

ProbeAnswer(available) ==
    IF available THEN Answer("probe", cycle.next, "deliver")
    ELSE Answer("probe", [cycle.next EXCEPT !.promotions = FALSE], "commit")

(* An upstream without creatives (404) still makes the slot live.          *)
DeliverAnswer(ok, creatives) ==
    Answer("deliver",
           IF ok THEN [cycle.next EXCEPT !.promotions = creatives,
                                         !.promotionLive = TRUE]
           ELSE NoPromotions(cycle.next),
           "commit")

Answers ==
    \/ SettingsFail \/ \E a, b \in BOOLEAN : SettingsAnswer(a, b)
    \/ LinksAnswer
    \/ \E d \in BOOLEAN, u \in Times : StatusAnswer(d, u)
    \/ \E error \in Failures : StatusFails(error)
    \/ PromotionsHidden \/ PromotionsChosen
    \/ \E ok \in BOOLEAN : ProbeAnswer(ok)
    \/ \E ok, creatives \in BOOLEAN : DeliverAnswer(ok, creatives)
    \/ \E at \in {"settings", "links", "status", "probe", "deliver"} : GateFails(at)

CycleStep ==
    /\ Answers
    /\ UNCHANGED <<apiKey, keyChanges, clock, hub, lastKey, generation,
                   expiry, operation, hubCtxDone, emits, told, overlapped,
                   donorKey>>

\* Mutant: a promotion slot that appears or goes is not seen as a change.
SnapshotChangedForgets(before, after) ==
    \/ before.accountsEnabled # after.accountsEnabled
    \/ before.adsEnabled # after.adsEnabled
    \/ before.donor # after.donor \/ before.donorUntil # after.donorUntil

snapshotChanged(before, after) ==
    \/ before.accountsEnabled # after.accountsEnabled
    \/ before.adsEnabled # after.adsEnabled
    \/ before.promotionLive # after.promotionLive
    \/ before.donor # after.donor \/ before.donorUntil # after.donorUntil

(* commit: the candidate replaces the state, whatever happened to the      *)
(* state since it was copied.                                              *)
commit ==
    /\ cycle.at = "commit"
    /\ SetHub(cycle.next, "run", snapshotChanged(hub, cycle.next))
    /\ donorKey' = cycle.key
    /\ cycle' = Returned
    /\ UNCHANGED <<apiKey, keyChanges, clock, lastKey, generation,
                   expiry, operation, hubCtxDone>>

(* The notice that the hourly cycle fetches next.                          *)
RefreshNotice ==
    /\ cycle.at = "notice" /\ emits["run"] = "none"
    /\ cycle' = [cycle EXCEPT !.at = "select"]
    /\ UNCHANGED <<apiKey, keyChanges, clock, hub, lastKey, generation, expiry,
                   operation, hubCtxDone, emits, told, overlapped, donorKey>>

(********************************** the loop *******************************)

(* donorDelay at the head of the loop: a donor whose time is still ahead   *)
(* has a timer for it; otherwise the timer is stopped, one that is due and *)
(* not yet received included.                                              *)
ArmExpiry ==
    expiry' = IF hub.donor /\ hub.donorUntil > clock THEN hub.donorUntil ELSE 0

(* select, with the loop's head folded into the step that leads to it.     *)
Loop ==
    /\ cycle.at = "select" /\ emits["run"] = "none" /\ ~hubCtxDone
    /\ \/ (* refreshC: hourly *)
          /\ BeginRefresh(TRUE) /\ UNCHANGED <<expiry, hub, emits, told, overlapped>>
       \/ (* poll.C, with another key in the settings *)
          /\ apiKey # lastKey /\ BeginRefresh(FALSE)
          /\ UNCHANGED <<expiry, hub, emits, told, overlapped>>
       \/ (* the head of the loop, and poll.C with nothing to do *)
          /\ ArmExpiry /\ expiry' # expiry
          /\ UNCHANGED <<lastKey, generation, cycle, hub, emits, told, overlapped>>
       \/ (* expiryC: expireDonor *)
          /\ expiry # 0 /\ clock >= expiry
          /\ expiry' = 0
          /\ IF hub.donor /\ hub.donorUntil # 0 /\ clock >= hub.donorUntil
             THEN SetHub(NoDonor(hub), "run", TRUE)
             ELSE UNCHANGED <<hub, emits, told, overlapped>>
          /\ UNCHANGED <<lastKey, generation, cycle>>
    /\ UNCHANGED <<apiKey, keyChanges, clock, operation, hubCtxDone,
                   donorKey>>

(* Run starts with its first refresh, once the server listens.             *)
RunStarts ==
    /\ cycle.at = "idle" /\ ~hubCtxDone
    /\ BeginRefresh(FALSE)
    /\ UNCHANGED <<apiKey, keyChanges, clock, hub, expiry, operation, hubCtxDone,
                   emits, told, overlapped, donorKey>>

RunEnds ==
    /\ cycle.at = "select" /\ emits["run"] = "none" /\ hubCtxDone
    /\ cycle' = [cycle EXCEPT !.at = "ended"]
    /\ UNCHANGED <<apiKey, keyChanges, clock, hub, lastKey, generation,
                   expiry, operation, hubCtxDone, emits, told, overlapped, donorKey>>

(**************************** account operations ***************************)

OperationAt == {"none", "calling"}

(* AccountStatus, Login, Register and Me: refused while the gate is shut.  *)
OperationStarts ==
    /\ operation = "none" /\ emits["operation"] = "none" /\ hub.accountsEnabled
    /\ operation' = "calling"
    /\ UNCHANGED <<apiKey, keyChanges, clock, hub, lastKey, generation,
                   cycle, expiry, hubCtxDone, emits, told, overlapped, donorKey>>

(* observeAccountOutcome: only an outage changes anything.                 *)
OperationAnswers(error) ==
    /\ operation = "calling"
    /\ operation' = "none"
    /\ IF error = "unavailable"
       THEN SetHub(NoDonor([hub EXCEPT !.accountsEnabled = FALSE]), "operation",
                   hub.accountsEnabled \/ hub.donor)
       ELSE UNCHANGED <<hub, emits, told, overlapped>>
    /\ UNCHANGED <<apiKey, keyChanges, clock, lastKey, generation, cycle,
                   expiry, hubCtxDone, donorKey>>

(********************************* environment *****************************)

PortalEnvironment ==
    /\ \/ /\ keyChanges < MaxKeyChanges /\ keyChanges' = keyChanges + 1
          /\ apiKey' \in Keys \ {apiKey} /\ UNCHANGED <<clock, hubCtxDone>>
       \/ /\ clock < MaxClock /\ clock' = clock + 1
          /\ UNCHANGED <<apiKey, keyChanges, hubCtxDone>>
       \/ /\ ~hubCtxDone /\ hubCtxDone' = TRUE
          /\ UNCHANGED <<apiKey, keyChanges, clock>>
    /\ UNCHANGED <<hub, lastKey, generation, cycle, expiry, operation,
                   emits, told, overlapped, donorKey>>

RunStep == CycleStep \/ commit \/ RefreshNotice \/ Loop \/ RunEnds

(* What the goroutine of Run cannot put off: the hourly refresh comes even *)
(* when the poll and the expiry timer are taken before it.                 *)
RunProceeds ==
    \/ CycleStep \/ commit \/ RefreshNotice \/ RunEnds
    \/ Loop /\ cycle'.at = "settings"

EndCall == \E error \in Failures \cup {"none"} : OperationAnswers(error)

PortalNext ==
    \/ RunStarts \/ RunStep \/ \E e \in Emitters : emit(e)
    \/ OperationStarts
    \/ EndCall
    \/ PortalEnvironment

(* Run and its timers go on, and every call ends within its deadline       *)
(* (requestDeadline, five seconds).                                        *)
PortalFairness ==
    /\ WF_portalVars(RunProceeds)
    /\ \A e \in Emitters : WF_portalVars(emit(e))
    /\ WF_portalVars(EndCall)

PortalTypeOK ==
    /\ {apiKey, lastKey, donorKey, cycle.key} \subseteq Keys
    /\ keyChanges \in 0..MaxKeyChanges /\ clock \in Times /\ expiry \in Times
    /\ hub \in HubState /\ cycle.next \in HubState /\ cycle.at \in CycleAt
    /\ generation \in 0..MaxKeyChanges /\ cycle.g \in 0..MaxKeyChanges
    /\ {hubCtxDone, told, overlapped, cycle.hourly} \subseteq BOOLEAN
    /\ operation \in OperationAt /\ emits \in [Emitters -> EmitState]

(* A donor is shown no promotions, and creatives are cached only for a     *)
(* slot that is live: whatever answers a cycle got, and whatever account   *)
(* operations and the expiry timer did to the state it was copied from.    *)
DonorSeesNoPromotions ==
    /\ hub.donor => ~hub.promotionLive /\ ~hub.promotions
    /\ hub.promotions => hub.adsEnabled /\ hub.promotionLive

(* Once every portal.state event is out, the last one shows what the hub   *)
(* now holds: unless two emitters were at work together, whose snapshots   *)
(* may be published in the wrong order.                                    *)
ToldOfChanges ==
    (\A e \in Emitters : emits[e] = "none") => told \/ overlapped

(* A changed supporter key takes effect: from some time on the donor state *)
(* shown is that of the key in the settings (or the hub was stopped), even *)
(* when a cycle asked with the old key while the key changed.              *)
KeyTakesEffect == <>[](hub.donor => donorKey = apiKey \/ hubCtxDone)

(* A donor's time ends: status that has expired is taken down, by the      *)
(* timer or, when the timer was stopped too early, by a later refresh.     *)
DonorEnds ==
    (hub.donor /\ hub.donorUntil # 0 /\ hub.donorUntil <= clock)
       ~> (~hub.donor \/ hub.donorUntil = 0 \/ hub.donorUntil > clock \/ hubCtxDone)

(* What the portal shows at every moment.                                  *)
PortalSafe == PortalTypeOK /\ DonorSeesNoPromotions /\ ToldOfChanges

(* What the portal comes to show: a changed key, and the end of a donor's  *)
(* time.                                                                   *)
PortalProgress == KeyTakesEffect /\ DonorEnds
================================================================================
