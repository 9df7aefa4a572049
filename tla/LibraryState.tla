----------------------------- MODULE LibraryState ------------------------------
(***************************************************************************)
(* What the catalog says of a title's downloads and of what was watched    *)
(* (internal/application, catalog.go: sourceState, packSourceState,        *)
(* sourcesState, applyCatalogState, aggregateMediaStates): downloads come, *)
(* progress, fail and go, episodes are watched, and a list and a detail    *)
(* page sum them up.                                                       *)
(*                                                                         *)
(* A source is a release, or a file of a release when its files are known. *)
(* Progress is counted in steps, Full is all of a file.  A title is a film *)
(* or one season, whose packs hold one file per episode.  Positions and    *)
(* durations are left out.                                                 *)
(***************************************************************************)
EXTENDS Integers, Sequences, FiniteSets, FiniteSetsExt, SequencesExt

CONSTANTS
    Rows,           \* downloads, and the sources of playback rows
    RowOf,          \* row -> [release, file, created]
    FileCount,      \* release -> how many files it has
    FileWeight,     \* file -> its size
    Titles,         \* the titles that may be looked at: [film, episodes], where
                    \* episodes is a sequence of sequences of sources
    Full,           \* the steps of a download
    Statuses,       \* the states that downloads report
    MaxLibrarySteps \* bound: steps

(* A source: a file of a release, or the release when file is -1.          *)
SourceOf == [release: DOMAIN FileCount, file: Nat \cup {-1}]

ASSUME LibraryStateAssumption ==
    /\ IsFiniteSet(Rows) /\ {Full, MaxLibrarySteps} \subseteq Nat \ {0}
    /\ RowOf \in [Rows -> [release: DOMAIN FileCount, file: Nat, created: Nat]]
    /\ FileCount \in [DOMAIN FileCount -> Nat] /\ FileWeight \in [DOMAIN FileWeight -> Nat]
    /\ Statuses \subseteq {"active", "paused", "queued", "error"}
    /\ \A t \in Titles : t.film \in BOOLEAN /\ t.episodes \in Seq(Seq(SourceOf))

VARIABLES
    title,      \* the title that is looked at
    downloads,  \* row -> [progress, status], progress is -1 when there is no such row
    played,     \* row -> "none", "started" or "watched"
    steps,      \* how many steps there were
    last        \* history: what the last step was about, and what was shown before it

libraryVars == <<title, downloads, played, last, steps>>

Gone == [progress |-> -1, status |-> "active"]

LibraryInit ==
    /\ title \in Titles /\ steps = 0
    /\ downloads = [r \in Rows |-> Gone] /\ played = [r \in Rows |-> "none"]
    /\ last = [step |-> "none", page |-> "", list |-> "", progress |-> 0, done |-> FALSE]

(******************************* media states ******************************)

emptyMediaState == [download |-> "none", transfer |-> "idle", watch |-> "unwatched",
                    row |-> "", progress |-> 0]

Managed(r) == downloads[r].progress >= 0

(* catalogState indexes the rows by release.                               *)
RowsOf(release) == {r \in Rows : RowOf[r].release = release}

(* A release of several files is no download of its own.                   *)
Matches(r, source) ==
    IF source.file >= 0 THEN RowOf[r].file = source.file ELSE FileCount[source.release] <= 1

(* The furthest of a source's downloads, the latest when they tie.         *)
Selected(source) ==
    LET rows == {r \in RowsOf(source.release) : Managed(r) /\ Matches(r, source)}
    IN  {r \in rows : \A q \in rows :
            \/ downloads[q].progress < downloads[r].progress
            \/ /\ downloads[q].progress = downloads[r].progress
               /\ RowOf[q].created <= RowOf[r].created}

DownloadState(d) ==
    CASE d.progress = Full     -> <<"downloaded", "complete">>
      [] d.progress < Full     ->
           CASE d.status = "error"  -> <<"error", "error">>
             [] d.status = "paused" -> <<"downloading", "paused">>
             [] d.status = "queued" -> <<"queued", "queued">>
             [] d.status = "active" -> <<"downloading", "active">>

Watch(w) == CASE w = "watched" -> "watched" [] w = "started" -> "inProgress"
              [] w = "none" -> "unwatched"

(* What was watched of a source: by its download, or else by any other of  *)
(* its release that is the same file.                                      *)
Watches(source) ==
    {played[r] : r \in {q \in RowsOf(source.release) :
                          source.file < 0 \/ RowOf[q].file = source.file}}

MostWatched(ws) == IF "watched" \in ws THEN "watched"
                   ELSE IF "started" \in ws THEN "started" ELSE "none"

\* Mutant: a source has been watched if its present download has.
WatchOfSelected(source) ==
    LET own == {played[r] : r \in Selected(source)} \ {"none"}
    IN  MostWatched(own)

WatchOf(source) ==
    LET own == {played[r] : r \in Selected(source)} \ {"none"}
    IN  MostWatched(IF own # {} THEN own ELSE Watches(source))

sourceState(source) ==
    LET unowned == [emptyMediaState EXCEPT !.watch = Watch(WatchOf(source))]
        owned(r) == [unowned EXCEPT !.download = DownloadState(downloads[r])[1],
                                    !.transfer = DownloadState(downloads[r])[2],
                                    !.row = r, !.progress = downloads[r].progress]
    IN  IF Selected(source) = {} THEN unowned ELSE owned(CHOOSE r \in Selected(source) : TRUE)

(****************************** aggregation ********************************)

Priorities == <<"idle", "complete", "paused", "queued", "active", "error">>

mergeTransferState(ts) ==
    Priorities[Max({i \in DOMAIN Priorities : Priorities[i] \in ts \cup {"idle"}})]

(* How many of the states satisfy a test.                                  *)
Count(states, test(_)) == Cardinality({i \in DOMAIN states : test(states[i])})

(* The first of those with the most progress, if any has some.             *)
Furthest(states) ==
    LET top == Max({0} \cup {states[i].progress : i \in DOMAIN states})
        first == Min({i \in DOMAIN states : states[i].progress = top})
    IN  IF top = 0 THEN [row |-> "", progress |-> 0]
        ELSE [row |-> states[first].row, progress |-> top]

aggregateMediaStates(states, requireAll) ==
    LET downloaded == Count(states, LAMBDA s : s.download = "downloaded")
        managed == Count(states, LAMBDA s : s.download # "none")
        watched == Count(states, LAMBDA s : s.watch = "watched")
        started == Count(states, LAMBDA s : s.watch # "unwatched")
        enough(n) == IF requireAll THEN n = Len(states) ELSE n > 0
    IN  IF states = << >> THEN emptyMediaState
        ELSE [transfer |-> mergeTransferState({states[i].transfer : i \in DOMAIN states}),
              download |-> IF enough(downloaded) THEN "downloaded"
                           ELSE IF managed = 0 THEN "none"
                           ELSE IF requireAll THEN "partial" ELSE "downloading",
              watch |-> IF enough(watched) THEN "watched"
                        ELSE IF started = 0 THEN "unwatched"
                        ELSE IF requireAll THEN "partial" ELSE "inProgress",
              row |-> Furthest(states).row, progress |-> Furthest(states).progress]

SourceStates(sources) == [i \in DOMAIN sources |-> sourceState(sources[i])]

aggregateSourceState(sources) == aggregateMediaStates(SourceStates(sources), FALSE)

aggregateEpisodeState(episodes) ==
    aggregateMediaStates([e \in DOMAIN episodes |-> aggregateSourceState(episodes[e])], TRUE)

(* The sources of the episodes that are files of one pack.                 *)
PackFiles(pack) ==
    LET all == FlattenSeq(title.episodes)
        upto[n \in 0..Len(all)] ==
            IF n = 0 THEN << >>
            ELSE IF all[n].release = pack THEN Append(upto[n - 1], all[n]) ELSE upto[n - 1]
    IN  upto[Len(all)]

\* Mutant: what is downloaded of a pack is reported before what failed.
packDownloadEagerly(states) ==
    LET has(d) == \E i \in DOMAIN states : states[i].download = d
    IN  IF has("downloaded") THEN "downloaded"
        ELSE IF has("error") THEN "error"
        ELSE IF has("downloading") THEN "downloading"
        ELSE IF has("queued") THEN "queued" ELSE "none"

packDownload(states) ==
    LET has(d) == \E i \in DOMAIN states : states[i].download = d
    IN  IF \A i \in DOMAIN states : states[i].download = "downloaded" THEN "downloaded"
        ELSE IF has("error") THEN "error"
        ELSE IF has("downloading") THEN "downloading"
        ELSE IF has("queued") THEN "queued"
        ELSE IF has("downloaded") \/ has("partial") THEN "partial" ELSE "none"

(* A pack's progress is weighed by the sizes of its files; here it is left *)
(* undivided, out of PackTotal.                                            *)
Weight(source) ==
    IF source.file \in DOMAIN FileWeight /\ FileWeight[source.file] > 0
    THEN FileWeight[source.file] ELSE 1

Total(ns) ==
    LET upto[n \in 0..Len(ns)] == IF n = 0 THEN 0 ELSE upto[n - 1] + ns[n]
    IN  upto[Len(ns)]

PackTotal(pack) ==
    LET files == PackFiles(pack) IN Total([i \in DOMAIN files |-> Weight(files[i])])

packSourceState(pack) ==
    LET files == PackFiles(pack)
        states == SourceStates(files)
        all == aggregateMediaStates(states, TRUE)
        best == {i \in DOMAIN states : states[i].row # "" /\ states[i].progress = all.progress}
    IN  IF files = << >> THEN emptyMediaState
        ELSE [all EXCEPT
                !.download = packDownload(states),
                !.row = IF best = {} THEN "" ELSE states[Max(best)].row,
                !.progress = Total([i \in DOMAIN files |-> Weight(files[i]) * states[i].progress])]

(* The lists: releases are not taken apart, but whatever is managed of     *)
(* them shows.                                                             *)
ReleaseSources ==
    LET all == FlattenSeq(title.episodes)
    IN  SetToSeq({[release |-> all[i].release, file |-> -1] : i \in DOMAIN all})

sourcesState(sources) ==
    LET result == aggregateSourceState(sources)
        rows == {r \in Rows : Managed(r) /\ \E i \in DOMAIN sources :
                                              sources[i].release = RowOf[r].release}
    IN  IF result.download # "none" \/ rows = {} THEN result
        ELSE [result EXCEPT !.download = "partial", !.row = CHOOSE r \in rows : TRUE,
                            !.progress = Max({downloads[r].progress : r \in rows})]

(* The detail page of the title.                                           *)
applyCatalogState ==
    IF title.film THEN aggregateSourceState(FlattenSeq(title.episodes))
    ELSE aggregateMediaStates(<<aggregateEpisodeState(title.episodes)>>, TRUE)

(********************************** steps **********************************)

Shows(step) ==
    LET page == applyCatalogState
        list == sourcesState(ReleaseSources)
    IN  /\ steps < MaxLibrarySteps /\ steps' = steps + 1 /\ UNCHANGED title
        /\ last' = [step |-> step, page |-> page.watch, list |-> list.watch,
                    progress |-> page.progress, done |-> page.download = "downloaded"]

(* A download is added, progresses, changes its state or is removed.       *)
DownloadChanges(r) ==
    /\ \E p \in 0..Full, status \in Statuses :
          /\ p >= downloads[r].progress
          /\ downloads' = [downloads EXCEPT ![r] = [progress |-> p, status |-> status]]
    /\ Shows("download") /\ UNCHANGED played

DownloadRemoved(r) ==
    /\ downloads[r] # Gone /\ downloads' = [downloads EXCEPT ![r] = Gone]
    /\ Shows("removal") /\ UNCHANGED played

(* Somebody watches what is managed, or marks what was watched.            *)
PlaybackChanges(r) ==
    /\ downloads[r] # Gone \/ played[r] # "none"
    /\ \E w \in {"none", "started", "watched"} : played' = [played EXCEPT ![r] = w]
    /\ Shows("playback") /\ UNCHANGED downloads

OfTitle(r) ==
    \E e \in DOMAIN title.episodes : \E i \in DOMAIN title.episodes[e] :
        title.episodes[e][i].release = RowOf[r].release

LibraryNext ==
    \E r \in {q \in Rows : OfTitle(q)} :
        DownloadChanges(r) \/ DownloadRemoved(r) \/ PlaybackChanges(r)

(******************************** properties *******************************)

(* The types of the variables.                                             *)
LibraryTypeOK ==
    /\ title \in Titles /\ steps \in 0..MaxLibrarySteps
    /\ downloads \in [Rows -> [progress: -1..Full, status: Statuses \cup {"active"}]]
    /\ played \in [Rows -> {"none", "started", "watched"}]

(* A download of one of the sources on the page.                           *)
OnPage(r) ==
    \E e \in DOMAIN title.episodes : \E i \in DOMAIN title.episodes[e] :
        /\ title.episodes[e][i].release = RowOf[r].release
        /\ Matches(r, title.episodes[e][i])

(* Whatever is managed of a title shows, in the lists and, if it is of     *)
(* what is on the page, there; and what the page calls downloaded is there *)
(* to be played: every episode has a finished download of one of its       *)
(* sources.                                                                *)
NothingIsHidden ==
    /\ (\E r \in Rows : Managed(r)) <=> sourcesState(ReleaseSources).download # "none"
    /\ (\E r \in Rows : Managed(r) /\ OnPage(r)) <=> applyCatalogState.download # "none"
    /\ applyCatalogState.download = "downloaded" =>
         \A e \in DOMAIN title.episodes : title.film \/ \E i \in DOMAIN title.episodes[e] :
             \E r \in RowsOf(title.episodes[e][i].release) :
                 Matches(r, title.episodes[e][i]) /\ downloads[r].progress = Full

(* A pack agrees with its files: it is downloaded when all its progress is *)
(* made, and a failed file is not hidden behind the others.                *)
PacksAgree ==
    \A pack \in DOMAIN FileCount : PackFiles(pack) # << >> =>
        LET state == packSourceState(pack)
        IN  /\ state.download = "downloaded" <=> state.progress = Full * PackTotal(pack)
            /\ state.transfer = "error" => state.download = "error"

(* What was started does not look new again because a download of it       *)
(* progressed, was replaced by a better one or was removed; and progress   *)
(* never takes a title's progress back.                                    *)
ShownSteadily ==
    LET page == applyCatalogState
    IN  /\ last.step \in {"download", "removal"} =>
             /\ last.page \notin {"", "unwatched"} => page.watch # "unwatched"
             /\ last.list \notin {"", "unwatched"} =>
                  sourcesState(ReleaseSources).watch # "unwatched"
        /\ last.step = "download" =>
             page.progress >= last.progress /\ (last.done => page.download = "downloaded")

LibraryStateSafe ==
    LibraryTypeOK /\ (steps > 0 => NothingIsHidden /\ PacksAgree /\ ShownSteadily)
================================================================================
