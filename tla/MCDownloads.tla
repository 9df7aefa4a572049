----------------------------- MODULE MCDownloads -------------------------------
(* Instances of Downloads: a pack of two episodes, whose files share one   *)
(* torrent; two films, which compete for the Allocation.  Trackers report  *)
(* half of a torrent's size.                                               *)
EXTENDS Downloads, TLC

CONSTANTS pack, film1, film2, e1, e2, f1, f2

PackFiles == {e1, e2}
PackRouteOf == [f \in PackFiles |-> pack]
PackSize == [f \in PackFiles |-> 1]
PackDeclared == [r \in {pack} |-> 1]
PackSymmetry == Permutations(Requests) \cup Permutations(PackFiles)

FilmFiles == {f1, f2}
FilmRouteOf == [f \in FilmFiles |-> IF f = f1 THEN film1 ELSE film2]
FilmSize == [f \in FilmFiles |-> 2]
FilmDeclared == [r \in {film1, film2} |-> 1]
FilmSymmetry == Permutations(Requests)
================================================================================
