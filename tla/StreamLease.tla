------------------------------ MODULE StreamLease ------------------------------
(***************************************************************************)
(* What a stream lease promises, as GLOSSARY.md words it: "the protection  *)
(* a Managed download holds against Eviction and removal while at least    *)
(* one playback stream is reading it.  It lasts until the last stream ends *)
(* and does not survive a server restart."                                 *)
(*                                                                         *)
(* holders is the set of streams that are reading the download, protected  *)
(* what Manage and evictNext are told when they ask whether the download   *)
(* may be removed.  Module Leases implements this specification with an    *)
(* in-memory count and a persisted flag.                                   *)
(***************************************************************************)
CONSTANT Streams
VARIABLES holders, protected

TypeOK == /\ holders \subseteq Streams
          /\ protected \in BOOLEAN

Init == /\ holders = {}
        /\ protected = FALSE

(* A stream starts reading; from here on the download is protected.        *)
Join(s) == /\ s \notin holders
           /\ protected
           /\ holders' = holders \cup {s}
           /\ UNCHANGED protected

(* A stream ends.  The protection may outlast it, never the other way.     *)
Leave(s) == /\ s \in holders
            /\ holders' = holders \ {s}
            /\ (holders' # {}) => protected'
            /\ protected' \in BOOLEAN

(* Protection is raised before a stream reads, and lowered only when no    *)
(* stream does.                                                            *)
Raise == /\ ~protected
         /\ protected' = TRUE
         /\ UNCHANGED holders

Lower == /\ protected
         /\ holders = {}
         /\ protected' = FALSE
         /\ UNCHANGED holders

(* A restart ends every stream.                                            *)
Restart == /\ holders' = {}
           /\ protected' \in BOOLEAN

Next == \/ \E s \in Streams : Join(s) \/ Leave(s)
        \/ Raise
        \/ Lower
        \/ Restart

vars == <<holders, protected>>

Spec == Init /\ [][Next]_vars
================================================================================
