-------------------------------- MODULE MCViewers ------------------------------
(***************************************************************************)
(* What viewers see besides the catalog, one part at a time: the portal    *)
(* with the fairness of its refresh loop, of its emitters and of its       *)
(* calls, the lists of the household, the subtitles, and what the catalog  *)
(* says of a title.  The part in focus runs, the others stay as they are.  *)
(* The subtitles are in focus twice: every kind of track in all but one of *)
(* the MaxPrepares requests, and one embedded track in all of them.        *)
(***************************************************************************)
EXTENDS Portal, Household, Subtitles, LibraryState

CONSTANT Foci       \* the parts this instance runs

VARIABLE focus      \* the part that this behaviour is about

viewerVars == <<focus, portalVars, householdVars, subtitlesVars, libraryVars>>

(* Two episodes of one title and one film.                                 *)
SomeTitles == [s \in Sources |-> IF s = "film" THEN "b" ELSE "a"]

(* The start, well short of the end, not so, and past the end of a file;   *)
(* and a file whose length the player does not know.                       *)
SomePositions == {<<0, 4>>, <<1, 4>>, <<2, 4>>, <<5, 4>>, <<1, 0>>}

(* Every list is full at once.                                             *)
SomeCaps == [recent |-> 1, watched |-> 1, continue |-> 1]

(* Two files of a pack and one that is not on the page, of another season, *)
(* a release that replaces one of them, and a film of two releases, one    *)
(* downloaded twice.                                                       *)
ARow(r, f, at) == [release |-> r, file |-> f, created |-> at]
SomeRows ==
    [p0 |-> ARow("pack", 0, 0), p1 |-> ARow("pack", 1, 0), p2 |-> ARow("pack", 2, 0),
     s0 |-> ARow("single", 0, 1),
     f0 |-> ARow("film", 0, 0), f1 |-> ARow("film", 0, 1), g0 |-> ARow("other", 0, 0)]
SomeCounts == [pack |-> 3, single |-> 1, film |-> 1, other |-> 1]
SomeWeights == (0 :> 1) @@ (1 :> 2)

Source(r, f) == [release |-> r, file |-> f]
SomePages == {
    [film |-> FALSE, episodes |->
        << <<Source("pack", 0), Source("single", -1)>>, <<Source("pack", 1)>> >>],
    [film |-> TRUE, episodes |-> << <<Source("film", -1), Source("other", -1)>> >>]}

Only(part) ==
    /\ focus = part /\ UNCHANGED focus
    /\ part # "portal" => UNCHANGED portalVars
    /\ part # "household" => UNCHANGED householdVars
    /\ part \notin {"subtitles", "track"} => UNCHANGED subtitlesVars
    /\ part # "library" => UNCHANGED libraryVars

ViewerInit ==
    /\ focus \in Foci
    /\ PortalInit /\ HouseholdInit /\ SubtitlesInit /\ LibraryInit
    /\ focus = "library" \/ ~title.film

OfOneTrack == \A p \in Players : prep'[p].track \in Embedded \cup {"none", "search"}

ViewerNext ==
    \/ Only("portal") /\ PortalNext
    \/ Only("household") /\ HouseholdNext
    \/ Only("subtitles") /\ SubtitlesNext /\ prepares' < MaxPrepares
    \/ Only("track") /\ SubtitlesNext /\ OfOneTrack
    \/ Only("library") /\ LibraryNext

ViewerSpec ==
    /\ ViewerInit /\ [][ViewerNext]_viewerVars
    /\ WF_viewerVars(Only("portal") /\ RunProceeds)
    /\ \A e \in Emitters : WF_viewerVars(Only("portal") /\ emit(e))
    /\ WF_viewerVars(Only("portal") /\ EndCall)
================================================================================
