----------------------------- MODULE MCRetention -------------------------------
(* A retention job and an admission over three torrents of two titles.     *)
(* Two torrents tie on every rule but the EngineID.                        *)
EXTENDS Retention

MCTitles == {"film", "series"}
MCReleases == {"film", "s01", "s02"}
MCReleasesOf == [r \in Routes |-> CASE r = 1 -> {"film"} [] r = 2 -> {"s01"} [] OTHER -> {"s02"}]
MCTitleOf == [x \in MCReleases |-> IF x = "film" THEN "film" ELSE "series"]
MCUpdated == [r \in Routes |-> IF r = 1 THEN {2, 3} ELSE {1, 2}]
MCSize == [r \in Routes |-> IF r = 1 THEN 2 ELSE 1]

Default == [cap |-> 3, reserve |-> 0, rules |-> <<"">>,
            protect |-> {"incomplete", "leased"}]
Careful == [cap |-> 2, reserve |-> 1, rules |-> <<"watched-first", "largest">>,
            protect |-> {"incomplete", "favorites"}]
ReserveOnly == [cap |-> 9, reserve |-> 2, rules |-> <<"least-recently-played">>,
                protect |-> {"leased", "neverWatched"}]
MCChoices == {Default, Careful, ReserveOnly}
================================================================================
