------------------------------ MODULE Retention --------------------------------
(***************************************************************************)
(* The eviction loop under the user's settings: RunRetention and the       *)
(* starvation path of ensureAllocationRoom, which share retentionSurvey,   *)
(* retentionDeficit and evictNext (internal/application/retention.go and   *)
(* service.go).                                                            *)
(*                                                                         *)
(* A pass surveys, weighs, removes one torrent, forgets its rows and       *)
(* surveys again.  A retention job and an admission run at the same time,  *)
(* and the household goes on streaming, downloading, liking and changing   *)
(* the settings between the calls of a pass.  The rows of a torrent come   *)
(* and go together here and an admission makes no claim: module Downloads  *)
(* has both apart.                                                         *)
(***************************************************************************)
EXTENDS EvictionRules, FiniteSets

CONSTANTS Routes,      \* the torrents, by EngineID
          Titles,      \* the canonical titles of the catalog
          Releases,    \* the releases that have a title
          ReleasesOf,  \* the releases of a torrent's rows
          TitleOf,     \* the title of a release
          Updated,     \* the UpdatedAt of a torrent's rows at the start
          Size,        \* bytes of a torrent
          Disk,        \* bytes of the volume of the download root
          Incoming,    \* bytes of the download that is to be admitted
          Jobs,        \* passes of the retention job
          Admissions,  \* passes of ensureAllocationRoom
          Choices,     \* the settings the user may save
          Nobody,      \* no torrent
          MaxEvents    \* bound on what happens outside the passes

Passes == Jobs \cup Admissions

Toggles == {"incomplete", "leased", "favorites", "neverWatched"}

Settings == [cap: Nat, reserve: Nat, rules: Seq(STRING), protect: SUBSET Toggles]

ASSUME RoutesAssumption == /\ Routes \subseteq Nat /\ IsFiniteSet(Routes)
                           /\ Nobody \notin Routes
                           /\ ReleasesOf \in [Routes -> SUBSET Releases]
                           /\ TitleOf \in [Releases -> Titles]
                           /\ Updated \in [Routes -> (SUBSET Nat) \ {{}}]
ASSUME BytesAssumption == /\ Size \in [Routes -> Nat]
                          /\ Disk \in Nat /\ Incoming \in Nat /\ MaxEvents \in Nat
ASSUME PassesAssumption == Jobs \cap Admissions = {}
ASSUME ChoicesAssumption == Choices # {} /\ Choices \subseteq Settings

VARIABLES rows,        \* the torrents that have rows
          updated,     \* the UpdatedAt of the rows of each torrent
          torrents,    \* the torrents the engine holds
          complete,    \* the torrents whose Progress is 1
          leased,      \* the torrents that are being streamed
          favorites,   \* the household's favourite titles
          playback,    \* the playback row of each release, at 0 for none
          other,       \* bytes on the volume that are not the service's
          settings,    \* what the settings store holds
          pass,        \* what each pass is doing
          events,      \* how much happened outside the passes
          stirred,     \* history: something did while a pass was under way
          shifted,     \* history: forgotten rows shifted what a pass had surveyed
          shield       \* history: torrents protected since a pass surveyed

world == <<rows, updated, torrents, complete, leased, favorites, playback, other, settings>>

vars == <<world, pass, events, stirred, shifted, shield>>

Playback == [at: Nat, watched: BOOLEAN]

Stages == {"idle", "survey", "weigh", "evict", "forget"}

Outcomes == {"none", "completed", "failed", "admitted", "refused"}

Pass == [at: Stages, settings: Settings, seen: SUBSET Routes, whole: SUBSET Routes,
         ages: [Routes -> (SUBSET Nat) \ {{}}],
         flags: SUBSET Routes, liked: SUBSET Titles, played: [Titles -> Playback],
         victim: Routes \cup {Nobody}, outcome: Outcomes]

TypeOK == /\ rows \subseteq Routes
          /\ updated \in [Routes -> (SUBSET Nat) \ {{}}]
          /\ torrents \subseteq Routes
          /\ complete \subseteq torrents
          /\ leased \subseteq Routes
          /\ favorites \subseteq Titles
          /\ playback \in [Releases -> Playback]
          /\ other \in Nat
          /\ settings \in Settings
          /\ pass \in [Passes -> Pass]
          /\ events \in 0 .. MaxEvents
          /\ stirred \in BOOLEAN /\ shifted \in BOOLEAN
          /\ shield \in [Passes -> SUBSET Routes]

--------------------------------------------------------------------------------

Bytes(S) == Cardinality(UNION {{r} \X (1 .. Size[r]) : r \in S})

Never == [at |-> 0, watched |-> FALSE]

Blank == [t \in Titles |-> Never]

TitlesOf(r) == {TitleOf[x] : x \in ReleasesOf[r]}

(* The latest playback of title t among the releases in S.                 *)
LatestOf(t, S) ==
  LET played == {playback[x] : x \in {y \in S : TitleOf[y] = t}} \cup {Never}
  IN  CHOOSE l \in played : \A k \in played : k.at <= l.at

(* retentionHousehold: only releases of rows have a title there, and the   *)
(* playback of any other release is skipped.                               *)
LatestByTitle == [t \in Titles |-> LatestOf(t, UNION {ReleasesOf[r] : r \in rows})]

(* routeFacts: the household state of a torrent's titles.                  *)
routeFacts(p, r) ==
  LET played == {t \in TitlesOf(r) : pass[p].played[t].at > 0}
  IN  [engineID   |-> r,
       updated    |-> pass[p].ages[r],
       lastPlayed |-> IF played = {} THEN 0
                      ELSE Latest({pass[p].played[t].at : t \in played}),
       watched    |-> \E t \in played : pass[p].played[t].watched,
       favorite   |-> TitlesOf(r) \cap pass[p].liked # {},
       bytes      |-> Size[r]]

(* Mutant: the favourites' toggle is not looked at.                        *)
retentionProtectedLoosely(p, r) ==
  LET protect == pass[p].settings.protect
  IN  \/ "incomplete" \in protect /\ ~(r \in complete /\ r \in pass[p].whole)
      \/ "leased" \in protect /\ (r \in leased \/ r \in pass[p].flags)
      \/ "neverWatched" \in protect /\ ~routeFacts(p, r).watched

(* The torrent as the engine and the row see it is complete; the count of  *)
(* leases is live, the leased column as old as the survey.                 *)
retentionProtected(p, r) ==
  LET protect == pass[p].settings.protect
  IN  \/ "incomplete" \in protect /\ ~(r \in complete /\ r \in pass[p].whole)
      \/ "leased" \in protect /\ (r \in leased \/ r \in pass[p].flags)
      \/ "favorites" \in protect /\ routeFacts(p, r).favorite
      \/ "neverWatched" \in protect /\ ~routeFacts(p, r).watched

(* plan.routes: the surveyed torrents the engine describes.  mute are the  *)
(* ones whose Status call fails.                                           *)
Described(p, mute) == (pass[p].seen \cap torrents) \ mute

Plan(p, mute) == {routeFacts(p, r) : r \in Described(p, mute)}

(* plan.storedBytes, with the download that is to come.                    *)
storedBytes(p, mute) == Bytes(Described(p, mute))
                        + IF p \in Admissions THEN Incoming ELSE 0

(* The free space of the volume is less than n bytes.                      *)
FreeBelow(n) == Bytes(torrents) + other + n > Disk

(* retentionDeficit: the Allocation first, the Reserve while it holds and  *)
(* the free space is known.                                                *)
OverCap(p, mute) == /\ pass[p].settings.cap > 0
                    /\ storedBytes(p, mute) > pass[p].settings.cap

UnderReserve(p, freeErr) == /\ pass[p].settings.reserve > 0 /\ ~freeErr
                            /\ FreeBelow(pass[p].settings.reserve)

Tripped(p, mute, freeErr) == OverCap(p, mute) \/ UnderReserve(p, freeErr)

(* evictNext's candidates, and the one the rules put first.                *)
Candidates(p, mute) == {a \in Plan(p, mute) : ~retentionProtected(p, a.engineID)}

Victims(p, mute) ==
  {a.engineID : a \in EvictedFirst(NormalizeEvictionRules(pass[p].settings.rules),
                                   Candidates(p, mute))}

(* refuseUncertainOwners.                                                  *)
Uncertain(p, mute) == p \in Admissions /\ Described(p, mute) # pass[p].seen

Unset == [cap |-> 0, reserve |-> 0, rules |-> << >>, protect |-> {}]

Resting == [at |-> "idle", settings |-> Unset, seen |-> {}, whole |-> {}, flags |-> {},
            ages |-> Updated, liked |-> {}, played |-> Blank, victim |-> Nobody, outcome |-> "none"]

End(p, outcome) == pass' = [pass EXCEPT ![p] = [Resting EXCEPT !.outcome = outcome]]

(* A library in which at most one torrent is being streamed, while it      *)
(* still downloads, by a household that watched its titles before.         *)
Init == /\ rows = Routes /\ torrents = Routes /\ updated = Updated
        /\ leased \in {{}} \cup {{r} : r \in Routes}
        /\ complete = Routes \ leased
        /\ favorites = {}
        /\ playback = [x \in Releases |-> IF \E r \in leased : x \in ReleasesOf[r]
                                          THEN [at |-> 1, watched |-> TRUE] ELSE Never]
        /\ other = 0
        /\ settings \in Choices
        /\ pass = [p \in Passes |-> Resting]
        /\ events = 0
        /\ stirred = FALSE /\ shifted = FALSE
        /\ shield = [p \in Passes |-> {}]

--------------------------------------------------------------------------------

(* History.  While every pass rests nothing is stirred.                    *)
Record(stirs, shifts) == LET busy == \E p \in Passes : pass'[p].at # "idle"
                         IN  /\ stirred' = ((stirred \/ stirs) /\ busy)
                             /\ shifted' = ((shifted \/ shifts) /\ busy)

Stir(yes) == Record(yes, FALSE)

(* Forgetting the rows of a torrent takes the playback of its releases out *)
(* of what is known of another one, while a pass q works on the old facts. *)
Shifts == /\ \E q \in Passes : pass[q].at \in {"weigh", "evict"}
          /\ \E r \in rows', t \in Titles :
               t \in TitlesOf(r) /\ LatestByTitle'[t] # LatestByTitle[t]

(* ADR-0004's toggles, of the torrent as it is now.                        *)
Kept(s, r) ==
  \/ "incomplete" \in s.protect /\ r \notin complete
  \/ "leased" \in s.protect /\ r \in leased
  \/ "favorites" \in s.protect /\ TitlesOf(r) \cap favorites # {}
  \/ "neverWatched" \in s.protect /\ \A t \in TitlesOf(r) : ~LatestByTitle[t].watched

ShieldStep ==
  shield' = [p \in Passes |->
    CASE pass'[p].at = "weigh" /\ pass[p].at = "survey"
           -> {r \in rows : Kept(pass[p].settings, r)}
      [] pass'[p].at = "weigh" /\ pass[p].at = "weigh"
           -> {r \in shield[p] : Kept(pass[p].settings, r)'}
      [] pass'[p].at = "evict" -> shield[p]
      [] OTHER -> {}]

Move == UNCHANGED events /\ ShieldStep

(* RunRetention past its look at the jobs, or an admission that holds      *)
(* admissionMu: the settings and rules of the whole pass are read now.     *)
(* Without an Allocation an admission is done.                             *)
Begin(p) ==
  /\ pass[p].at = "idle"
  /\ p \in Admissions => settings.cap > 0 /\ \A q \in Admissions : pass[q].at = "idle"
  /\ pass' = [pass EXCEPT ![p].at = "survey", ![p].settings = settings,
                          ![p].outcome = "none"]
  /\ UNCHANGED world
  /\ Stir(FALSE) /\ Move

(* retentionSurvey: ListDownloads and retentionHousehold.                  *)
Survey(p) ==
  /\ pass[p].at = "survey"
  /\ pass' = [pass EXCEPT ![p].at = "weigh", ![p].seen = rows,
                          ![p].whole = complete, ![p].flags = leased,
                          ![p].ages = updated,
                          ![p].liked = favorites, ![p].played = LatestByTitle]
  /\ UNCHANGED world
  /\ Stir(FALSE) /\ Move

(* Status per torrent and the free space are in: the pass fits, ...        *)
Fits(p, mute, freeErr) ==
  /\ pass[p].at = "weigh" /\ ~Uncertain(p, mute) /\ ~Tripped(p, mute, freeErr)
  /\ End(p, IF p \in Jobs THEN "completed" ELSE "admitted")
  /\ UNCHANGED world
  /\ Stir(FALSE) /\ Move

(* ... or evicts, ...                                                      *)
Choose(p, mute, freeErr) ==
  /\ pass[p].at = "weigh" /\ ~Uncertain(p, mute) /\ Tripped(p, mute, freeErr)
  /\ \E r \in Victims(p, mute) :
       pass' = [pass EXCEPT ![p] = [Resting EXCEPT !.at = "evict", !.victim = r,
                                                   !.settings = pass[p].settings]]
  /\ UNCHANGED world
  /\ Stir(mute # {}) /\ Move

(* Mutant: a breach of the Reserve that nothing can fix refuses, too.      *)
StuckOutcomeStrict(p, mute) == IF p \in Jobs THEN "completed" ELSE "refused"

(* With nothing left to evict the job ends; an admission is refused for    *)
(* the Allocation's sake only, a breach of the Reserve lets it proceed.    *)
StuckOutcome(p, mute) ==
  IF p \in Jobs THEN "completed"
  ELSE IF OverCap(p, mute) THEN "refused" ELSE "admitted"

(* Mutant: the pass goes round again.                                      *)
StuckAgain(p, mute, freeErr) ==
  /\ pass[p].at = "weigh" /\ ~Uncertain(p, mute) /\ Tripped(p, mute, freeErr)
  /\ Candidates(p, mute) = {}
  /\ pass' = [pass EXCEPT ![p].at = "survey"]
  /\ UNCHANGED world
  /\ Stir(FALSE) /\ Move

(* ... or has nothing to evict.                                            *)
Stuck(p, mute, freeErr) ==
  /\ pass[p].at = "weigh" /\ ~Uncertain(p, mute) /\ Tripped(p, mute, freeErr)
  /\ Candidates(p, mute) = {}
  /\ End(p, StuckOutcome(p, mute))
  /\ UNCHANGED world
  /\ Stir(FALSE) /\ Move

(* Mutant: the files stay.                                                 *)
EngineRemoveKeepsFiles(p) ==
  /\ pass[p].at = "evict"
  /\ torrents' = torrents \ {pass[p].victim}
  /\ pass' = [pass EXCEPT ![p].at = "forget"]
  /\ UNCHANGED <<complete, rows, updated, leased, favorites, playback, other, settings>>
  /\ Stir(FALSE) /\ Move

(* removeTorrent: the engine deletes the torrent and its files ...         *)
EngineRemove(p) ==
  /\ pass[p].at = "evict"
  /\ torrents' = torrents \ {pass[p].victim}
  /\ complete' = complete \ {pass[p].victim}
  /\ pass' = [pass EXCEPT ![p].at = "forget"]
  /\ UNCHANGED <<rows, updated, leased, favorites, playback, other, settings>>
  /\ Stir(FALSE) /\ Move

(* ... and forgetEngineRows its row; then the pass surveys again.          *)
ForgetRows(p) ==
  /\ pass[p].at = "forget"
  /\ rows' = rows \ {pass[p].victim}
  /\ pass' = [pass EXCEPT ![p].at = "survey", ![p].victim = Nobody]
  /\ UNCHANGED <<updated, torrents, complete, leased, favorites, playback, other, settings>>
  /\ Record(FALSE, Shifts) /\ Move

(* A call fails: the job fails or waits, the admission returns the error.  *)
(* An admission also fails while some torrent cannot be described.         *)
Fail(p, mute) ==
  /\ pass[p].at # "idle"
  /\ \/ events < MaxEvents
     \/ pass[p].at = "weigh" /\ Uncertain(p, mute)
  /\ End(p, "failed")
  /\ UNCHANGED world
  /\ Stir(TRUE) /\ Move

(* One Status call may fail, as may the probe of the free space.           *)
Mutes == IF events < MaxEvents THEN {{}} \cup {{r} : r \in Routes} ELSE {{}}

FreeErrs == IF events < MaxEvents THEN BOOLEAN ELSE {FALSE}

Advance(p) ==
  \/ Survey(p) \/ EngineRemove(p) \/ ForgetRows(p)
  \/ \E mute \in Mutes, freeErr \in FreeErrs :
       Fits(p, mute, freeErr) \/ Choose(p, mute, freeErr) \/ Stuck(p, mute, freeErr)
  \/ \E mute \in Mutes : Fail(p, mute)

--------------------------------------------------------------------------------

(* The household and the volume, between the calls of a pass.              *)
Happens == /\ events < MaxEvents /\ events' = events + 1
           /\ UNCHANGED pass
           /\ Stir(TRUE) /\ ShieldStep

(* Time goes on with every event.                                          *)
Now == MaxEvents + 2 + events

(* SetLease also writes the row's UpdatedAt.                               *)
SetLease(r) ==
  /\ \E u \in updated[r] : updated' = [updated EXCEPT ![r] = (@ \ {u}) \cup {Now}]
  /\ UNCHANGED <<rows, torrents, complete, favorites, playback, other, settings>>
  /\ Happens

Acquire(r) == r \in rows \ leased /\ leased' = leased \cup {r} /\ SetLease(r)

Release(r) == r \in leased /\ leased' = leased \ {r} /\ SetLease(r)

(* Prepare brings a torrent back; it is complete some time later.          *)
Prepare(r) == /\ r \notin rows \cup torrents
              /\ rows' = rows \cup {r} /\ torrents' = torrents \cup {r}
              /\ updated' = [updated EXCEPT ![r] = {Now}]
              /\ UNCHANGED <<complete, leased, favorites, playback, other, settings>>
              /\ Happens

Complete(r) == /\ r \in torrents \ complete /\ complete' = complete \cup {r}
               /\ UNCHANGED <<rows, updated, torrents, leased, favorites, playback, other, settings>>
               /\ Happens

(* SetTitleFavorite.                                                       *)
SetTitleFavorite(t) ==
  /\ favorites' = IF t \in favorites THEN favorites \ {t} ELSE favorites \cup {t}
  /\ UNCHANGED <<rows, updated, torrents, complete, leased, playback, other, settings>>
  /\ Happens

(* UpdatePlayback and SetWatched, of a release that has a row or, for      *)
(* SetWatched, has been played; its playback outlives its rows.            *)
UpdatePlayback(x, watched) ==
  /\ playback[x].at > 0 \/ \E r \in rows : x \in ReleasesOf[r]
  /\ playback' = [playback EXCEPT ![x] = [at |-> Now, watched |-> watched]]
  /\ UNCHANGED <<rows, updated, torrents, complete, leased, favorites, other, settings>>
  /\ Happens

SaveSettings(s) == /\ settings' = s /\ s # settings
                   /\ UNCHANGED <<rows, updated, torrents, complete, leased, favorites, playback, other>>
                   /\ Happens

(* Somebody else fills the volume, or clears it.                           *)
OtherFiles == /\ other' = IF other = 0 THEN Disk ELSE 0
              /\ UNCHANGED <<rows, updated, torrents, complete, leased, favorites, playback, settings>>
              /\ Happens

Event == \/ \E r \in Routes : Acquire(r) \/ Release(r) \/ Prepare(r) \/ Complete(r)
         \/ \E t \in Titles : SetTitleFavorite(t)
         \/ \E x \in Releases, watched \in BOOLEAN : UpdatePlayback(x, watched)
         \/ \E s \in Choices : SaveSettings(s)
         \/ OtherFiles

Next == (\E p \in Passes : Begin(p) \/ Advance(p)) \/ Event

(* A pass that runs makes its next call.                                   *)
Spec == Init /\ [][Next]_vars /\ \A p \in Passes : WF_vars(Advance(p))

--------------------------------------------------------------------------------

(* What pass p would still need now.                                       *)
Needed(p) ==
  LET s == pass[p].settings
  IN  \/ s.cap > 0 /\ Bytes(rows \cap torrents)
                      + (IF p \in Admissions THEN Incoming ELSE 0) > s.cap
      \/ s.reserve > 0 /\ FreeBelow(s.reserve)

(* "It evicts one torrent at a time, re-evaluating after each until        *)
(* storage fits again": a job and an admission that evict at the same time *)
(* agree on the victim, so a torrent is deleted only while storage really  *)
(* is over the limit of the pass that deletes it, unless something else    *)
(* happened during the pass, or one pass forgot the rows of a torrent      *)
(* whose playback the other had counted for another torrent's title: from  *)
(* there on the two may choose different victims.                          *)
NoNeedlessEviction ==
  [][\A r \in torrents \ torrents' :
       \E p \in Passes : /\ pass[p].at = "evict" /\ pass[p].victim = r
                         /\ stirred \/ shifted \/ Needed(p)]_vars

(* Whatever list of rules the user composed, the rules order the torrents  *)
(* of a plan strictly and totally: sort.Slice gets a valid less function   *)
(* and the victim does not depend on the order of the rows.                *)
OrderIsTotal ==
  \A p \in Passes : pass[p].at = "weigh" =>
    StrictTotalOrder(NormalizeEvictionRules(pass[p].settings.rules), Plan(p, {}))

(* A toggle protects from the survey on: a torrent that the settings of    *)
(* the pass protect when it surveys, and until it has chosen, is not its   *)
(* victim, whatever else the household and the other pass do meanwhile.    *)
ProtectionHolds ==
  \A p \in Passes : pass[p].at = "evict" => pass[p].victim \notin shield[p]

(* "Only when nothing evictable remains does the download fail with a      *)
(* visible Allocation problem", and "a reserve breach nothing evictable    *)
(* can fix is not the incoming download's fault": a refused download did   *)
(* not fit beside what was left, and what was left is protected.           *)
RefusedOnlyForCap ==
  [][\A p \in Admissions :
       pass'[p].outcome = "refused" /\ pass[p].outcome # "refused" /\ ~stirred =>
         /\ Bytes(rows \cap torrents) + Incoming > pass[p].settings.cap
         /\ \A r \in rows \cap torrents : retentionProtected(p, r)]_vars

(* Every pass ends: it evicts fewer torrents than there are and never      *)
(* waits for one that cannot be evicted.                                   *)
PassesEnd == \A p \in Passes : (pass[p].at # "idle") ~> (pass[p].at = "idle")

(* The rules order the torrents, and what is protected stays.              *)
RetentionSafe == TypeOK /\ OrderIsTotal /\ ProtectionHolds

(* No torrent is deleted, and no download refused, without need.           *)
RetentionSteps == NoNeedlessEviction /\ RefusedOnlyForCap
================================================================================
