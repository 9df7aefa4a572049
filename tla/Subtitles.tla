------------------------------- MODULE Subtitles -------------------------------
(***************************************************************************)
(* Subtitles of one download (internal/application: SearchSubtitles,       *)
(* PrepareSubtitle, probeSubtitles, pruneSubtitleCache; sqlite:            *)
(* subtitle_assets).  Players look for tracks and ask for one; it is read  *)
(* from the media file or fetched, its conversion is written to the cache, *)
(* the cache is pruned and a row remembers the asset.                      *)
(*                                                                         *)
(* A file of the cache is named by what is in it, <<track, content>>, or   *)
(* is the temporary file of an extraction, <<"temp", player>>.  All have   *)
(* the size 1.  The content of an embedded track is the version of the     *)
(* media file it was read from.  Times are in seconds, as in the column    *)
(* created_at; the modification time of the media file is finer in the     *)
(* code.  The conversion itself, the names and the languages are left out, *)
(* and so is a VTT prepared before cues were positioned.                   *)
(***************************************************************************)
EXTENDS Naturals, Sequences, FiniteSets, SequencesExt

CONSTANTS
    Players,
    Tracks,             \* subtitles of one download, in one format
    Embedded,           \* those inside the media file
    Contained,          \* those in files of the torrent; a provider has the others
    CacheLimit,         \* Settings.SubtitleCacheMaxBytes
    MaxPrepares,        \* bound: requests
    MaxVersions,        \* bound: changes of the media file
    MaxAge              \* bound: seconds

ASSUME SubtitlesAssumption ==
    /\ Embedded \subseteq Tracks /\ Contained \subseteq Tracks \ Embedded
    /\ Tracks \cap {"none", "search", "temp"} = {}
    /\ CacheLimit \in Nat \ {0}
    /\ {MaxPrepares, MaxVersions, MaxAge} \subseteq Nat

VARIABLES
    media,      \* the media file: its version, its time, whether it is complete
    assets,     \* track -> its row in subtitle_assets, see NoAsset
    cache,      \* the files of the cache, oldest first
    probed,     \* probeCache: <<version, the version that was read for it>>
    prep,       \* player -> its PrepareSubtitle, see NoPrep
    age,        \* the clock
    prepares,   \* how many requests there were
    answer      \* history: the last answer, see NoAnswer

subtitlesVars == <<media, assets, cache, probed, prep, age, prepares, answer>>

(* created is the row's; at and clean are history: when the content was    *)
(* saved, and whether the media file stayed as it was until then.          *)
NoAsset == [saved |-> FALSE, content |-> 0, created |-> 0, at |-> 0, clean |-> TRUE]

NoPrep == [at |-> "idle", track |-> "none", mod |-> 0, key |-> 0, content |-> 0,
           files |-> << >>, total |-> 0, clean |-> TRUE]

NoAnswer == [track |-> "none", content |-> 0, now |-> 0, mod |-> 0, at |-> 0, clean |-> TRUE]

SubtitlesInit ==
    /\ media = [version |-> 0, mod |-> 0, complete |-> TRUE]
    /\ assets = [t \in Tracks |-> NoAsset] /\ cache = << >> /\ probed = {}
    /\ prep = [p \in Players |-> NoPrep] /\ age = 0 /\ prepares = 0 /\ answer = NoAnswer

(* PrepareSubtitle is past its lock while it is at one of these.           *)
Locked(p) == prep[p].at \notin {"idle", "lock"}

Without(files, file) ==
    IF file \in ToSet(files)
    THEN RemoveAt(files, CHOOSE i \in DOMAIN files : files[i] = file)
    ELSE files

(* A return: the lock is released and a temporary file removed.            *)
Return(p, files) ==
    /\ prep' = [prep EXCEPT ![p] = NoPrep]
    /\ cache' = Without(files, <<"temp", p>>)

Replies(p, content, at, clean) ==
    answer' = [track |-> prep[p].track, content |-> content, now |-> media.version,
               mod |-> media.mod, at |-> at, clean |-> clean /\ prep[p].clean]

(* SearchSubtitles probes a file that is complete; it takes no lock and    *)
(* changes nothing else.                                                   *)
SearchSubtitles(p) ==
    /\ prep[p].at = "idle" /\ prepares < MaxPrepares /\ prepares' = prepares + 1
    /\ media.complete
    /\ prep' = [prep EXCEPT ![p] = [NoPrep EXCEPT !.at = "stat", !.track = "search"]]
    /\ UNCHANGED <<media, assets, cache, probed, age, answer>>

(* The request: a track of the media file needs the whole of it.           *)
PrepareBegins(p, t) ==
    /\ prep[p].at = "idle" /\ prepares < MaxPrepares /\ prepares' = prepares + 1
    /\ t \in Embedded => media.complete
    /\ prep' = [prep EXCEPT ![p] = [NoPrep EXCEPT !.at = "lock", !.track = t,
                                      !.mod = IF t \in Embedded THEN media.mod ELSE 0]]
    /\ UNCHANGED <<media, assets, cache, probed, age, answer>>

\* Mutant: the requests of one subtitle do not wait for each other.
PrepareLocksNothing(p) ==
    /\ prep[p].at = "lock" /\ prep' = [prep EXCEPT ![p].at = "look"]
    /\ UNCHANGED <<media, assets, cache, probed, age, prepares, answer>>

(* One preparation per subtitle at a time.                                 *)
PrepareLocks(p) ==
    /\ prep[p].at = "lock"
    /\ \A q \in Players : Locked(q) => prep[q].track # prep[p].track
    /\ prep' = [prep EXCEPT ![p].at = "look"]
    /\ UNCHANGED <<media, assets, cache, probed, age, prepares, answer>>

\* Mutant: whatever is cached will do.
FreshAnyway(t, mod) == assets[t].saved

(* The row is not older than the media file, give or take a second.        *)
Fresh(t, mod) == assets[t].saved /\ assets[t].created + 1 >= mod

(* A fresh row whose file is there is the answer.                          *)
PrepareLooks(p) ==
    LET t == prep[p].track
        found == Fresh(t, prep[p].mod) /\ <<t, assets[t].content>> \in ToSet(cache)
    IN  /\ prep[p].at = "look"
        /\ \/ /\ found /\ Return(p, cache)
              /\ Replies(p, assets[t].content, assets[t].at, assets[t].clean)
           \/ /\ ~found /\ UNCHANGED <<cache, answer>>
              /\ prep' = [prep EXCEPT ![p].at = IF t \in Embedded THEN "stat" ELSE "fetch"]
        /\ UNCHANGED <<media, assets, probed, age, prepares>>

(* probeSubtitles: the answer of an earlier probe of this version, or      *)
(* another read of the file, remembered for the version that it looked at. *)
Probed(p) ==
    prep' = [prep EXCEPT ![p] = IF prep[p].track = "search" THEN NoPrep
                                ELSE [prep[p] EXCEPT !.at = "open"]]

ProbeLooks(p) ==
    LET known == \E k \in probed : k[1] = media.version
    IN  /\ prep[p].at = "stat"
        /\ \/ known /\ Probed(p)
           \/ ~known /\ prep' = [prep EXCEPT ![p].at = "probe", ![p].key = media.version]
        /\ UNCHANGED <<media, assets, cache, probed, age, prepares, answer>>

ProbeReads(p) ==
    /\ prep[p].at = "probe" /\ Probed(p)
    /\ probed' = probed \cup {<<prep[p].key, media.version>>}
    /\ UNCHANGED <<media, assets, cache, age, prepares, answer>>

(* ExtractSubtitle writes to a temporary file in the cache.                *)
ExtractBegins(p) ==
    /\ prep[p].at = "open"
    /\ cache' = Append(cache, <<"temp", p>>)
    /\ prep' = [prep EXCEPT ![p].at = "extract", ![p].content = media.version]
    /\ UNCHANGED <<media, assets, probed, age, prepares, answer>>

(* The temporary file must still be there to be read.                      *)
ExtractEnds(p) ==
    /\ prep[p].at = "extract" /\ <<"temp", p>> \in ToSet(cache)
    /\ prep' = [prep EXCEPT ![p].at = "write"]
    /\ UNCHANGED <<media, assets, cache, probed, age, prepares, answer>>

(* A file of the torrent, once ReadableRangePath has all of it.            *)
ReadsContained(p) ==
    /\ prep[p].at = "fetch" /\ prep[p].track \in Contained
    /\ prep' = [prep EXCEPT ![p].at = "write"]
    /\ UNCHANGED <<media, assets, cache, probed, age, prepares, answer>>

(* A provider's subtitle.                                                  *)
DownloadsTrack(p) ==
    /\ prep[p].at = "fetch" /\ prep[p].track \notin Contained
    /\ prep' = [prep EXCEPT ![p].at = "write"]
    /\ UNCHANGED <<media, assets, cache, probed, age, prepares, answer>>

(* Any of the steps may fail.                                              *)
PrepareFails(p) ==
    /\ prep[p].at \in {"probe", "open", "extract", "fetch", "write", "save"}
    /\ Return(p, cache)
    /\ UNCHANGED <<media, assets, probed, age, prepares, answer>>

Writes(p) ==
    LET file == <<prep[p].track, prep[p].content>>
    IN  /\ prep[p].at = "write" /\ cache' = Append(Without(cache, file), file)
        /\ prep' = [prep EXCEPT ![p].at = "list"]
        /\ UNCHANGED <<media, assets, probed, age, prepares, answer>>

(* pruneSubtitleCache lists the files, temporary ones too, and then        *)
(* removes the oldest until the rest fits; a file that is gone already     *)
(* does not count as removed, and the one just written is kept.            *)
PruneLists(p) ==
    /\ prep[p].at = "list"
    /\ prep' = [prep EXCEPT ![p].at = "prune", ![p].files = cache, ![p].total = Len(cache)]
    /\ UNCHANGED <<media, assets, cache, probed, age, prepares, answer>>

PruneRemoves(p) ==
    /\ prep[p].at = "prune"
    /\ LET over == prep[p].files # << >> /\ prep[p].total > CacheLimit
           file == Head(prep[p].files)
           removed == file # <<prep[p].track, prep[p].content>> /\ file \in ToSet(cache)
       IN  \/ /\ ~over /\ UNCHANGED cache
              /\ prep' = [prep EXCEPT ![p].at = "save", ![p].files = << >>, ![p].total = 0]
           \/ /\ over
              /\ cache' = IF removed THEN Without(cache, file) ELSE cache
              /\ prep' = [prep EXCEPT ![p].files = Tail(@),
                                      ![p].total = IF removed THEN @ - 1 ELSE @]
    /\ UNCHANGED <<media, assets, probed, age, prepares, answer>>

(* SaveSubtitleAsset: a row that is there keeps its created_at.            *)
SaveSubtitleAsset(p) ==
    LET t == prep[p].track
    IN  /\ prep[p].at = "save" /\ Return(p, cache)
        /\ assets' = [assets EXCEPT ![t] =
             [saved |-> TRUE, content |-> prep[p].content,
              at |-> age, clean |-> prep[p].clean,
              created |-> IF @.saved THEN @.created ELSE age]]
        /\ Replies(p, prep[p].content, age, prep[p].clean)
        /\ UNCHANGED <<media, probed, age, prepares>>

(* A piece is lost, and later it is there again: the file changes.         *)
MediaChanges ==
    /\ media.version < MaxVersions
    /\ media' = [version |-> media.version + 1, mod |-> age, complete |-> ~media.complete]
    /\ prep' = [p \in Players |-> IF prep[p].at = "idle" THEN NoPrep
                                  ELSE [prep[p] EXCEPT !.clean = FALSE]]
    /\ UNCHANGED <<assets, cache, probed, age, prepares, answer>>

Ages ==
    /\ age < MaxAge /\ age' = age + 1
    /\ UNCHANGED <<media, assets, cache, probed, prep, prepares, answer>>

SubtitlesNext ==
    \/ \E p \in Players, t \in Tracks : PrepareBegins(p, t)
    \/ \E p \in Players :
          \/ SearchSubtitles(p) \/ PrepareLocks(p) \/ PrepareLooks(p)
          \/ ProbeLooks(p) \/ ProbeReads(p) \/ ExtractBegins(p) \/ ExtractEnds(p)
          \/ ReadsContained(p) \/ DownloadsTrack(p) \/ PrepareFails(p) \/ Writes(p)
          \/ PruneLists(p) \/ PruneRemoves(p) \/ SaveSubtitleAsset(p)
    \/ MediaChanges
    \/ Ages

(******************************** properties *******************************)

(* "An asset extracted before the media last changed" is regenerated:      *)
(* an answer holds what the file holds now, unless the file changed while  *)
(* the asset was made or asked for, or within a second of its making.      *)
AnswersAreCurrent ==
    answer.track \in Embedded /\ answer.clean /\ answer.at + 1 < answer.mod =>
        answer.content = answer.now

(* The row was first saved before the media file last changed, and kept    *)
(* that time when its asset was made anew: it is out of date for good.     *)
RowOutdated(t, mod) ==
    assets[t].created # assets[t].at /\ assets[t].created + 1 < mod

(* The asset of player p's track is there and was made, give or take a     *)
(* second, after the media file last changed.                              *)
MadeSince(p) ==
    LET a == assets[prep[p].track]
    IN  a.saved /\ a.at + 1 >= prep[p].mod /\ <<prep[p].track, a.content>> \in ToSet(cache)

ReadsMedia(p) ==
    prep[p].at \in {"stat", "probe", "open", "extract"} /\ prep[p].track \in Tracks

(* A second player never reads the whole file for a track whose subtitle   *)
(* the first has made since the file last changed, but for the gap of a    *)
(* row that is out of date for good.                                       *)
ReadsAreNeeded ==
    \A p \in Players :
        ReadsMedia(p) /\ MadeSince(p) => RowOutdated(prep[p].track, prep[p].mod)

(* "A repeated click or a second player would otherwise start another      *)
(* full-file ffmpeg read on a busy disk and then find the cache filled by  *)
(* the first": whoever reads the file finds no asset made since it last    *)
(* changed.                                                                *)
SecondPlayerFindsIt == \A p \in Players : ReadsMedia(p) => ~MadeSince(p)

(* The types of the variables.  The cache names no file twice.             *)
SubtitlesTypeOK ==
    LET file == (Tracks \X (0..MaxVersions)) \cup ({"temp"} \X Players)
    IN  /\ media \in [version: 0..MaxVersions, mod: 0..MaxAge, complete: BOOLEAN]
        /\ assets \in [Tracks -> [saved: BOOLEAN, content: 0..MaxVersions, created: 0..age,
                                  at: 0..age, clean: BOOLEAN]]
        /\ ToSet(cache) \subseteq file /\ IsInjective(cache)
        /\ probed \subseteq (0..MaxVersions) \X (0..MaxVersions)
        /\ \A p \in Players :
              /\ prep[p].at \in {"idle", "lock", "look", "stat", "probe", "open", "extract",
                                 "fetch", "write", "list", "prune", "save"}
              /\ prep[p].track \in Tracks \cup {"none", "search"}
              /\ ToSet(prep[p].files) \subseteq file /\ prep[p].total \in Nat
        /\ age \in 0..MaxAge /\ prepares \in 0..MaxPrepares

(* However preparations overlap, fail and remove each other's files, the   *)
(* cache is within its limit as soon as nobody prepares.                   *)
CacheIsBounded ==
    (\A p \in Players : ~Locked(p)) => Len(cache) <= CacheLimit

(* What is remembered of a file's tracks was read from that version of it, *)
(* even when the file changes between the look at it and the read.         *)
ProbesAreCurrent == \A k \in probed : k[1] = media.version => k[2] = media.version

SubtitlesSafe ==
    /\ SubtitlesTypeOK /\ AnswersAreCurrent /\ ReadsAreNeeded
    /\ CacheIsBounded /\ ProbesAreCurrent
================================================================================
