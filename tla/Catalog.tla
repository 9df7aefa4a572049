--------------------------------- MODULE Catalog -------------------------------
(***************************************************************************)
(* The catalog of releases and the titles they are grouped under           *)
(* (internal/adapters/sqlite: UpsertReleases, reconcile.go; internal/      *)
(* domain: ResolveFamilyTitleIDs), with the favourites that hang on titles.*)
(*                                                                         *)
(* A release is known by what the trackers report of it: the sort title    *)
(* and year parsed from its name and, perhaps, an IMDb id.  The releases   *)
(* with one sort title are a family.  A title id is the hash of an IMDb id *)
(* or, for want of one, of the sort title and the year; here it is what is *)
(* hashed.  UpsertReleases is one transaction: a failure leaves nothing,   *)
(* and is no step here.  A process opens the database first, which may be  *)
(* one from before there were titles, and may stop at any step of that.    *)
(* There is one media kind; other columns, metadata and job keys (module   *)
(* Jobs) are left out.                                                     *)
(***************************************************************************)
EXTENDS Naturals, Sequences, FiniteSets, SequencesExt

CONSTANTS
    Kind,           \* "movie" or "series"
    Releases,       \* releases of the trackers
    SortTitles,     \* normalized titles
    Years,          \* years, 0 when a name has none
    IMDbIDs,        \* IMDb ids that trackers report
    Reports,        \* what trackers report of a release, see Report
    OldCatalogs,    \* what databases from before there were titles hold
    MaxBatch,       \* bound: releases in one call of UpsertReleases
    MaxFavourites   \* bound: favourites set

NoIMDb == "none"

Report == [sort: SortTitles, year: Years, imdb: IMDbIDs \cup {NoIMDb}]

ASSUME CatalogAssumption ==
    /\ Kind \in {"movie", "series"} /\ Years \subseteq Nat /\ IsFiniteSet(Releases)
    /\ NoIMDb \notin IMDbIDs /\ "unknown" \notin SortTitles
    /\ {MaxBatch, MaxFavourites} \subseteq Nat /\ Reports \subseteq Report
    /\ \A cat \in OldCatalogs : DOMAIN cat \subseteq Releases
                               /\ \A r \in DOMAIN cat : cat[r] \in Report

VARIABLES
    catalog,     \* release -> its row in releases, see Report
    titleOf,     \* release -> title_id of its row in catalog_releases
    favourites,  \* the titles in the table favorites
    favourited,  \* how many favourites have been set, or were there
    thinned,     \* sort titles that lost a release since they were reconciled
    opening      \* the process: what Open does next, or "open", "refused", "closed"

catalogVars == <<catalog, titleOf, favourites, favourited, thinned, opening>>

Unknown == [sort |-> "unknown", year |-> 0, imdb |-> NoIMDb]

(* CatalogTitleID: the IMDb id wins over the parsed name.                  *)
CatalogTitleID(ev) ==
    IF ev.imdb # NoIMDb THEN <<"imdb", ev.imdb>> ELSE <<"name", ev.sort, ev.year>>

TitleIDs == ({"imdb"} \X IMDbIDs) \cup ({"name"} \X SortTitles \X Years)

NoTitle == <<"none">>

(* A favourite of a database from before there were titles.                *)
ReleaseID(r) == <<"release", r>>

(******************************* the resolution ****************************)

(* The first pass over a family: each IMDb id is an anchor, with the years *)
(* of its releases.                                                        *)
Anchored(anchors, ev) ==
    IF ev.imdb = NoIMDb THEN anchors
    ELSE LET known == {i \in DOMAIN anchors : anchors[i].imdb = ev.imdb}
             years == IF ev.year > 0 THEN {ev.year} ELSE {}
         IN  IF known = {} THEN Append(anchors, [imdb |-> ev.imdb, years |-> years])
             ELSE [i \in DOMAIN anchors |->
                     IF i \in known
                     THEN [anchors[i] EXCEPT !.years = @ \cup years]
                     ELSE anchors[i]]

AnchorsOf(evidence) ==
    LET upto[n \in 0..Len(evidence)] ==
            IF n = 0 THEN << >> ELSE Anchored(upto[n - 1], evidence[n])
    IN  upto[Len(evidence)]

(* The anchors that a release without IMDb id may belong to.               *)
Fits(anchors, ev) ==
    {i \in DOMAIN anchors : \/ Kind = "series" \/ ev.year = 0
                            \/ anchors[i].years = {} \/ ev.year \in anchors[i].years}

\* Mutant: the first anchor that fits is taken, ambiguous or not.
JoinFirst(anchors, ev) ==
    IF Fits(anchors, ev) = {} THEN NoIMDb ELSE anchors[Min(Fits(anchors, ev))].imdb

(* The second pass: a release without IMDb id joins the only anchor; a     *)
(* movie with a year joins the only anchor that may be of that year.       *)
Join(anchors, ev) ==
    IF Cardinality(Fits(anchors, ev)) = 1
    THEN anchors[CHOOSE i \in Fits(anchors, ev) : TRUE].imdb ELSE NoIMDb

(* ResolveFamilyTitleIDs: the title of each release of the evidence.       *)
ResolveFamilyTitleIDs(evidence) ==
    LET anchors == AnchorsOf(evidence)
        joined(ev) == IF ev.imdb # NoIMDb THEN ev ELSE [ev EXCEPT !.imdb = Join(anchors, ev)]
    IN  [i \in DOMAIN evidence |-> CatalogTitleID(joined(evidence[i]))]

(****************************** reconciliation *****************************)

Family(cat, sort) == {r \in Releases : cat[r] # Unknown /\ cat[r].sort = sort}

(* The rows of a family, in the order that the database returns them, and  *)
(* what the resolution makes of them.                                      *)
ResolvedTitles(cat, order) ==
    LET ids == ResolveFamilyTitleIDs([i \in DOMAIN order |-> cat[order[i]]])
    IN  [r \in ToSet(order) |-> ids[CHOOSE i \in DOMAIN order : order[i] = r]]

\* Mutant: the dependents move although the old group has releases left.
MovedFavouritesEagerly(favs, movers, before, after) ==
    LET target(t) == {after[r] : r \in {m \in movers : before[m] = t}}
    IN  {IF Cardinality(target(t)) = 1 THEN CHOOSE u \in target(t) : TRUE ELSE t : t \in favs}

\* Mutant: the group's releases are counted, not the titles they went to.
MovedFavouritesOfOne(favs, movers, before, after) ==
    LET group(t) == {m \in movers : before[m] = t}
        extinct(t) == \A r \in Releases : after[r] # t
    IN  {IF Cardinality(group(t)) = 1 /\ extinct(t) THEN after[CHOOSE r \in group(t) : TRUE]
         ELSE t : t \in favs}

(* moveExtinctGroupDependents: a title that lost its last release follows  *)
(* its releases, if they all went to one title.                            *)
MovedFavourites(favs, movers, before, after) ==
    LET target(t) == {after[r] : r \in {m \in movers : before[m] = t}}
        extinct(t) == \A r \in Releases : after[r] # t
    IN  {IF Cardinality(target(t)) = 1 /\ extinct(t) THEN CHOOSE u \in target(t) : TRUE
         ELSE t : t \in favs}

(* reconcileFamiliesTx for one family: every release of it gets the title  *)
(* that the family's evidence gives it.                                    *)
ReconcileFamily(cat, s, order) ==
    LET resolved == ResolvedTitles(cat, order)
        movers == {r \in DOMAIN resolved : resolved[r] # s.titles[r]}
        after == [r \in Releases |-> IF r \in movers THEN resolved[r] ELSE s.titles[r]]
    IN  [titles |-> after, favs |-> MovedFavourites(s.favs, movers, s.titles, after)]

(* The families in some order (of a Go map), each in the order of its rows.*)
Reconciled(cat, titles, favs, sorts) ==
    LET upto[n \in 0..Len(sorts)] ==
            IF n = 0 THEN [titles |-> titles, favs |-> favs]
            ELSE ReconcileFamily(cat, upto[n - 1], SetToSeq(Family(cat, sorts[n])))
    IN  upto[Len(sorts)]

(******************************** operations *******************************)

(* The row of a release after the upsert: an IMDb id that is not reported  *)
(* any more stays.                                                         *)
Upserted(old, x) == [x EXCEPT !.imdb = IF @ = NoIMDb THEN old.imdb ELSE @]

\* Mutant: only the families that the releases join are reconciled.
TouchedJoining(batch) == {batch[r].sort : r \in DOMAIN batch}

(* The families that the releases join, and the ones they leave.           *)
Touched(batch) ==
    {batch[r].sort : r \in DOMAIN batch}
      \cup {catalog[r].sort : r \in {b \in DOMAIN batch : catalog[b] # Unknown}}

(* UpsertReleases: rows, then projections from what was reported (not from *)
(* what is stored), then the reconciliation of every family touched.       *)
Upsert(batch) ==
    LET cat == [r \in Releases |-> IF r \in DOMAIN batch THEN Upserted(catalog[r], batch[r])
                                   ELSE catalog[r]]
        projected == [r \in Releases |-> IF r \in DOMAIN batch THEN CatalogTitleID(batch[r])
                                         ELSE titleOf[r]]
    IN  /\ catalog' = cat
        /\ \E sorts \in SetToSeqs(Touched(batch)) :
             LET done == Reconciled(cat, projected, favourites, sorts)
             IN  titleOf' = done.titles /\ favourites' = done.favs
        /\ thinned' = thinned \ Touched(batch)

UpsertReleases(batch) == opening = "open" /\ Upsert(batch) /\ UNCHANGED <<favourited, opening>>

Batches == {S \in SUBSET Releases : S # {} /\ Cardinality(S) <= MaxBatch}

(* SetFavorite, of a title that the catalog shows.                         *)
SetFavorite(t, favourite) ==
    /\ opening = "open"
    /\ IF favourite
       THEN /\ \E r \in Releases : titleOf[r] = t
            /\ favourited < MaxFavourites /\ favourited' = favourited + 1
            /\ favourites' = favourites \cup {t}
       ELSE /\ t \in favourites /\ favourites' = favourites \ {t}
            /\ UNCHANGED favourited
    /\ UNCHANGED <<catalog, titleOf, thinned, opening>>

(* RemoveRelease: a release that is gone upstream, and its projection with *)
(* it.  Nothing is reconciled.                                             *)
RemoveRelease(r) ==
    /\ opening = "open" /\ catalog[r] # Unknown
    /\ catalog' = [catalog EXCEPT ![r] = Unknown]
    /\ titleOf' = [titleOf EXCEPT ![r] = NoTitle]
    /\ thinned' = thinned \cup {catalog[r].sort}
    /\ UNCHANGED <<favourites, favourited, opening>>

(********************************* opening *********************************)

(* Open, backfillCatalog: releases without a title get theirs, ...         *)
BackfillReleases ==
    LET old == {r \in Releases : catalog[r] # Unknown /\ titleOf[r] = NoTitle}
    IN  /\ opening = "closed" /\ opening' = "favourites"
        /\ IF old = {} THEN UNCHANGED <<catalog, titleOf, favourites, thinned>>
           ELSE Upsert([r \in old |-> catalog[r]])
        /\ UNCHANGED favourited

\* Mutant: a favourite goes to the title that its own release would have.
BackfillFavouritesAlone ==
    /\ opening = "favourites" /\ opening' = "reconcile"
    /\ favourites' = {IF t \in TitleIDs THEN t ELSE CatalogTitleID(catalog[t[2]]) : t \in favourites}
    /\ UNCHANGED <<catalog, titleOf, favourited, thinned>>

(* ... and favourites of releases become favourites of their titles, in    *)
(* one statement, which two of one title violate the primary key with.     *)
BackfillFavourites ==
    LET title(t) == IF t \in TitleIDs THEN t ELSE titleOf[t[2]]
    IN  /\ opening = "favourites"
        /\ IF \E t, u \in favourites : t # u /\ title(t) = title(u)
           THEN opening' = "refused" /\ UNCHANGED favourites
           ELSE opening' = "reconcile" /\ favourites' = {title(t) : t \in favourites}
        /\ UNCHANGED <<catalog, titleOf, favourited, thinned>>

(* ReconcileAllCatalogProjections ends it.                                 *)
ReconcileAllCatalogProjections ==
    /\ opening = "reconcile" /\ opening' = "open"
    /\ \E sorts \in SetToSeqs({catalog[r].sort : r \in {s \in Releases : catalog[s] # Unknown}}) :
         LET done == Reconciled(catalog, titleOf, favourites, sorts)
         IN  titleOf' = done.titles /\ favourites' = done.favs
    /\ thinned' = {}
    /\ UNCHANGED <<catalog, favourited>>

(* The process ends, wherever it has got to.                               *)
CloseCatalog ==
    /\ opening # "closed" /\ opening' = "closed"
    /\ UNCHANGED <<catalog, titleOf, favourites, favourited, thinned>>

(* A new database, or one from before there were titles.                   *)
CatalogInit ==
    /\ \E cat \in OldCatalogs \cup {<< >>} :
          /\ catalog = [r \in Releases |-> IF r \in DOMAIN cat THEN cat[r] ELSE Unknown]
          /\ \E liked \in SUBSET DOMAIN cat :
                favourites = {ReleaseID(r) : r \in liked} /\ favourited = Cardinality(liked)
    /\ titleOf = [r \in Releases |-> NoTitle] /\ thinned = {} /\ opening = "closed"

CatalogNext ==
    \/ \E S \in Batches : \E batch \in [S -> Reports] : UpsertReleases(batch)
    \/ \E t \in TitleIDs, favourite \in BOOLEAN : SetFavorite(t, favourite)
    \/ \E r \in Releases : RemoveRelease(r)
    \/ BackfillReleases \/ BackfillFavourites
    \/ ReconcileAllCatalogProjections \/ CloseCatalog

(* The types of the variables.                                             *)
CatalogTypeOK ==
    /\ catalog \in [Releases -> Report \cup {Unknown}]
    /\ titleOf \in [Releases -> TitleIDs \cup {NoTitle}]
    /\ favourites \subseteq TitleIDs \cup {ReleaseID(r) : r \in Releases}
    /\ favourited \in Nat /\ thinned \subseteq SortTitles
    /\ opening \in {"closed", "favourites", "reconcile", "open", "refused"}

(* What is in the catalog is what the evidence says: however releases came *)
(* in, were renamed or got their IMDb ids, each is under the title that    *)
(* its whole family now gives it, and has one whatever database was opened *)
(* and wherever an earlier process stopped.  A family that a release was   *)
(* removed from is put right with the next release of it or at the next    *)
(* start.                                                                  *)
TitlesAreResolved ==
    opening = "open" => \A sort \in SortTitles \ thinned :
        LET resolved == ResolvedTitles(catalog, SetToSeq(Family(catalog, sort)))
        IN  \A r \in DOMAIN resolved : titleOf[r] = resolved[r]

(* No favourite of an old database is lost on the way to its title, and a  *)
(* database is refused only for two of one title: what a process did of    *)
(* the backfill before it stopped does not stand in the way of the next.   *)
OldFavouritesMove ==
    /\ [](opening = "open" => favourites \subseteq TitleIDs)
    /\ [](opening = "refused" =>
             \E r, q \in Releases : r # q /\ {ReleaseID(r), ReleaseID(q)} \subseteq favourites
                                            /\ titleOf[r] = titleOf[q])
    /\ [][\A r \in Releases : ReleaseID(r) \in favourites \ favourites' =>
            LET family == SetToSeq(Family(catalog, catalog[r].sort))
            IN  ResolvedTitles(catalog, family)[r] \in favourites']_catalogVars

(* "Pure, deterministic, order-independent": the order of a family's rows  *)
(* makes no difference.                                                    *)
OrderIndependent ==
    opening = "open" => \A sort \in SortTitles :
        LET resolved == ResolvedTitles(catalog, SetToSeq(Family(catalog, sort)))
        IN  \A order \in SetToSeqs(Family(catalog, sort)) :
                ResolvedTitles(catalog, order) = resolved

(* The names that a title's releases have before and after a step.         *)
NamesOf(t) == {catalog[r].sort : r \in {q \in Releases : titleOf[q] = t}}
                \cup {catalog'[r].sort : r \in {q \in Releases : titleOf'[q] = t}}

(* "The old group is still alive": whatever is merged or split around it,  *)
(* a title that keeps a release keeps its favourite, until it is taken     *)
(* back.  (Not so for releases of several names under one IMDb id: while   *)
(* the first of their families is reconciled, a release of another one may *)
(* still be under the name that was reported for it.)                      *)
FavouritesStay ==
    [][\A t \in favourites \ favourites' :
         \/ \A r \in Releases : titleOf'[r] # t
         \/ UNCHANGED catalog
         \/ Cardinality(NamesOf(t)) > 1]_catalogVars

(* It follows the releases of a title that are merged into another one, if *)
(* nothing else is new about them.                                         *)
Merged(t) == LET group == {r \in Releases : titleOf[r] = t}
             IN  {titleOf'[r] : r \in group}

FavouritesFollow ==
    [][\A t \in favourites \cap favourites' :
         Merged(t) # {t} /\ Cardinality(Merged(t)) = 1 =>
            \E r \in Releases : /\ titleOf[r] = t
                                /\ catalog'[r] # catalog[r] \/ catalog[r].sort \in thinned]_catalogVars

(* Titles are what the evidence says, and favourites stay with them.       *)
CatalogSafe ==
    /\ [](CatalogTypeOK /\ TitlesAreResolved /\ OrderIndependent)
    /\ OldFavouritesMove /\ FavouritesStay /\ FavouritesFollow
================================================================================
