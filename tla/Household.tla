------------------------------- MODULE Household -------------------------------
(***************************************************************************)
(* What the household has watched (internal/application: UpdatePlayback,   *)
(* SetWatched, HouseholdState): players report their positions, viewers    *)
(* mark episodes as watched, and the home screen lists titles.             *)
(*                                                                         *)
(* A source is a managed download; its playback row outlives it.  A        *)
(* handler reads the row and saves it in two statements.  Times are those  *)
(* of the column updated_at, in seconds, so that rows may tie.  The lists  *)
(* hold titles; what else an item shows, preferences and the catalog's     *)
(* grouping are left out.  Every release has a title and is found.         *)
(***************************************************************************)
EXTENDS Integers, Sequences, FiniteSets, SequencesExt

CONSTANTS
    Sources,        \* downloads that are, or were, managed
    TitleOfSource,  \* source -> title of its release
    Handlers,       \* requests that report or mark
    Positions,      \* what players report: <<position, duration>>, 0 when unknown
    Threshold,      \* Settings.WatchedThresholdPercent
    Caps,           \* how many titles the lists take, see Lists
    MaxReports,     \* bound: reports, marks, removals and favourites
    MaxSeconds      \* bound: seconds that pass

ASSUME HouseholdAssumption ==
    /\ Positions \subseteq Nat \X Nat /\ Threshold \in 1..100
    /\ DOMAIN TitleOfSource = Sources /\ IsFiniteSet(Sources)
    /\ Caps \in [recent: Nat, watched: Nat, continue: Nat]
    /\ {MaxReports, MaxSeconds} \subseteq Nat

VARIABLES
    playback,   \* source -> its row in playback_state, see NoPlayback
    managed,    \* source -> the time of its row in downloads, -1 when it has none
    liked,      \* the household's favourite titles
    call,       \* handler -> what it does, see NoCall
    seconds,    \* the clock
    reports,    \* how many reports, marks, removals and favourites there were
    marked      \* history: source -> a viewer's mark that nothing has undone

householdVars == <<playback, managed, liked, call, seconds, reports, marked>>

NoPlayback == [saved |-> FALSE, pos |-> 0, dur |-> 0, watched |-> FALSE, at |-> 0]

NoCall == [at |-> "idle", source |-> "none", row |-> NoPlayback, pos |-> 0, dur |-> 0,
           mark |-> FALSE, stale |-> FALSE]

HouseholdTitles == {TitleOfSource[s] : s \in Sources}

HouseholdInit ==
    /\ playback = [s \in Sources |-> NoPlayback]
    /\ managed = [s \in Sources |-> 0] /\ liked = {}
    /\ call = [h \in Handlers |-> NoCall] /\ seconds = 0 /\ reports = 0
    /\ marked = [s \in Sources |-> FALSE]

Counted == reports < MaxReports /\ reports' = reports + 1

(********************************** reports ********************************)

(* UpdatePlayback reads the row; a position past the end is the end.       *)
UpdatePlaybackReads(h, s, pos, dur) ==
    /\ call[h].at = "idle" /\ managed[s] >= 0 /\ Counted
    /\ call' = [call EXCEPT ![h] =
         [NoCall EXCEPT !.at = "report", !.source = s, !.row = playback[s], !.dur = dur,
                        !.pos = IF dur > 0 /\ pos > dur THEN dur ELSE pos]]
    /\ UNCHANGED <<playback, managed, liked, seconds, marked>>

(* Near the end the source is watched, and well short of it it is not any  *)
(* more.                                                                   *)
Near(pos, dur) == dur > 0 /\ pos * 100 >= dur * Threshold

\* Mutant: whatever is not near the end is a partial watch again.
WellShortAnywhere(pos, dur) == pos > 0 /\ dur > 0

WellShort(pos, dur) == pos > 0 /\ dur > 0 /\ pos * 200 < dur * Threshold

Watched(row, pos, dur) == Near(pos, dur) \/ (row.watched /\ ~WellShort(pos, dur))

SavePlayback(h, s, row) ==
    /\ playback' = [playback EXCEPT ![s] = row]
    /\ call' = [d \in Handlers |->
                  IF d = h THEN NoCall
                  ELSE [call[d] EXCEPT !.stale = @ \/ (call[d].at # "idle"
                                                       /\ call[d].source = s)]]

UpdatePlaybackSaves(h) ==
    /\ call[h].at = "report"
    /\ LET s == call[h].source
           now == Watched(call[h].row, call[h].pos, call[h].dur)
       IN  /\ SavePlayback(h, s, [saved |-> TRUE, pos |-> call[h].pos, dur |-> call[h].dur,
                                  watched |-> now, at |-> seconds])
           /\ marked' = [marked EXCEPT ![s] =
                @ /\ ~call[h].stale
                  /\ (\/ call[h].pos = 0 \/ call[h].dur = 0
                      \/ call[h].pos * 200 >= call[h].dur * Threshold)]
    /\ UNCHANGED <<managed, liked, seconds, reports>>

(* SetWatched: a source without a row must be managed.                     *)
SetWatchedReads(h, s, mark) ==
    /\ call[h].at = "idle" /\ (playback[s].saved \/ managed[s] >= 0) /\ Counted
    /\ call' = [call EXCEPT ![h] = [NoCall EXCEPT !.at = "mark", !.source = s,
                                                  !.row = playback[s], !.mark = mark]]
    /\ UNCHANGED <<playback, managed, liked, seconds, marked>>

SetWatchedSaves(h) ==
    /\ call[h].at = "mark"
    /\ LET s == call[h].source
           row == call[h].row
       IN  /\ SavePlayback(h, s,
                [saved |-> TRUE, dur |-> row.dur, watched |-> call[h].mark,
                 at |-> seconds,
                 pos |-> IF ~call[h].mark THEN 0
                         ELSE IF row.dur > 0 THEN row.dur ELSE row.pos])
           /\ marked' = [marked EXCEPT ![s] = call[h].mark]
    /\ UNCHANGED <<managed, liked, seconds, reports>>

(* Downloads come and go, and so do favourites.                            *)
ManageSource(s) ==
    /\ Counted
    /\ managed' = [managed EXCEPT ![s] = IF @ >= 0 THEN -1 ELSE seconds]
    /\ UNCHANGED <<playback, liked, call, seconds, marked>>

SetTitleFavorite(t) ==
    /\ Counted /\ liked' = IF t \in liked THEN liked \ {t} ELSE liked \cup {t}
    /\ UNCHANGED <<playback, managed, call, seconds, marked>>

SecondPasses ==
    /\ seconds < MaxSeconds /\ seconds' = seconds + 1
    /\ UNCHANGED <<playback, managed, liked, call, reports, marked>>

HouseholdNext ==
    \/ \E h \in Handlers, s \in Sources :
          \/ \E x \in Positions : UpdatePlaybackReads(h, s, x[1], x[2])
          \/ \E mark \in BOOLEAN : SetWatchedReads(h, s, mark)
    \/ \E h \in Handlers : UpdatePlaybackSaves(h) \/ SetWatchedSaves(h)
    \/ \E s \in Sources : ManageSource(s)
    \/ \E t \in HouseholdTitles : SetTitleFavorite(t)
    \/ SecondPasses

(********************************* the lists *******************************)

(* ListPlayback: the latest first, in some order where they tie.           *)
Listings ==
    {order \in SetToSeqs({s \in Sources : playback[s].saved}) :
        \A i, j \in DOMAIN order : i < j => playback[order[i]].at >= playback[order[j]].at}

Lists == [recent |-> << >>, watched |-> << >>, continue |-> << >>]

Taken(list, cap, t) ==
    IF Len(list) < cap /\ t \notin ToSet(list) THEN Append(list, t) ELSE list

(* One row of the loop of HouseholdState.  Rows that no list can still     *)
(* take are passed over before their item is built.                        *)
Row(lists, s) ==
    LET p == playback[s]
        t == TitleOfSource[s]
        passed == /\ Len(lists.recent) >= Caps.recent
                  /\ ~p.watched \/ Len(lists.watched) >= Caps.watched
                  /\ p.watched \/ p.pos = 0 \/ Len(lists.continue) >= Caps.continue
    IN  IF passed THEN lists
        ELSE [recent   |-> Taken(lists.recent, Caps.recent, t),
              watched  |-> IF p.watched THEN Taken(lists.watched, Caps.watched, t)
                           ELSE lists.watched,
              continue |-> IF ~p.watched /\ p.pos > 0
                           THEN Taken(lists.continue, Caps.continue, t) ELSE lists.continue]

HouseholdState(order) ==
    LET after[n \in 0..Len(order)] == IF n = 0 THEN Lists ELSE Row(after[n - 1], order[n])
    IN  after[Len(order)]

(* betterHouseholdDownload, of downloads that are complete.                *)
BestDownload(t) ==
    {s \in Sources : /\ TitleOfSource[s] = t /\ managed[s] >= 0
                     /\ \A r \in Sources : TitleOfSource[r] = t => managed[r] <= managed[s]}

(* The row of a title that was played last, if any.                        *)
LatestRow(order, t) ==
    {order[i] : i \in {j \in DOMAIN order :
        /\ TitleOfSource[order[j]] = t
        /\ \A k \in 1..j - 1 : TitleOfSource[order[k]] # t}}

\* Mutant: what was played last is shown, managed or not.
FavouriteSourceLast(order, t) ==
    IF LatestRow(order, t) = {} THEN BestDownload(t) ELSE LatestRow(order, t)

(* The source that a favourite's item plays, if any: what was played last, *)
(* unless it is gone and there is another.                                 *)
FavouriteSource(order, t) ==
    LET gone == \A s \in LatestRow(order, t) : managed[s] = -1
    IN  IF gone /\ BestDownload(t) # {} THEN BestDownload(t) ELSE LatestRow(order, t)

(******************************** properties *******************************)

PlaybackRow == [saved: BOOLEAN, pos: Nat, dur: Nat, watched: BOOLEAN, at: 0..MaxSeconds]

(* The types of the variables: no row is from the future.                  *)
HouseholdTypeOK ==
    /\ playback \in [Sources -> PlaybackRow] /\ managed \in [Sources -> -1..seconds]
    /\ \A s \in Sources : playback[s].at <= seconds
    /\ liked \subseteq HouseholdTitles /\ marked \in [Sources -> BOOLEAN]
    /\ seconds \in 0..MaxSeconds /\ reports \in 0..MaxReports
    /\ call \in [Handlers -> [at: {"idle", "report", "mark"}, source: Sources \cup {"none"},
                              row: PlaybackRow, pos: Nat, dur: Nat, mark: BOOLEAN,
                              stale: BOOLEAN]]

(* The first titles of some rows of an order, each once.                   *)
FirstTitles(order, rows, cap) ==
    LET firsts == {i \in DOMAIN order :
            /\ order[i] \in rows
            /\ \A j \in 1..i - 1 : order[j] \in rows =>
                  TitleOfSource[order[j]] # TitleOfSource[order[i]]}
    IN  {TitleOfSource[order[i]] :
            i \in {k \in firsts : Cardinality({j \in firsts : j <= k}) <= cap}}

(* The home screen loses nothing to its shortcuts: whatever rows are       *)
(* passed over when lists fill up at different times, each list has the    *)
(* latest titles that belong in it, and no title twice.                    *)
ListsAreComplete ==
    \A order \in Listings :
        LET lists == HouseholdState(order)
            watched == {s \in Sources : playback[s].watched}
            started == {s \in Sources \ watched : playback[s].pos > 0}
        IN  /\ ToSet(lists.recent) = FirstTitles(order, Sources, Caps.recent)
            /\ ToSet(lists.watched) = FirstTitles(order, watched, Caps.watched)
            /\ ToSet(lists.continue) = FirstTitles(order, started, Caps.continue)
            /\ \A l \in DOMAIN lists : IsInjective(lists[l])

(* A favourite that has a download plays one, whichever of its sources was *)
(* played, removed or added last.                                          *)
FavouritesPlay ==
    \A order \in Listings, t \in liked :
        BestDownload(t) # {} =>
            /\ FavouriteSource(order, t) # {}
            /\ \A s \in FavouriteSource(order, t) : managed[s] >= 0

(* A viewer's mark stays until another one, or until somebody plays the    *)
(* source again and is well short of its end: "small scrubs near the end   *)
(* and zero-position saves keep it".  (A report that read the row before   *)
(* the mark was saved undoes it.)                                          *)
MarksStay == \A s \in Sources : marked[s] => playback[s].watched

HouseholdSafe == HouseholdTypeOK /\ ListsAreComplete /\ FavouritesPlay /\ MarksStay
================================================================================
