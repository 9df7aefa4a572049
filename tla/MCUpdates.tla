----------------------------- MODULE MCUpdates -----------------------------
(***************************************************************************)
(* The update transaction on every platform: three versions, the second of *)
(* which never confirms itself, two operations, two crashes and one fault. *)
(***************************************************************************)
EXTENDS Updates
=============================================================================
