---------------------------- MODULE Installation ----------------------------
(***************************************************************************)
(* What self-update promises of an installation, whatever the platform:    *)
(* there is always one version to rely on; a newer one is put on trial     *)
(* over it, and the trial ends with its confirmation or with the return    *)
(* of the version it replaced.                                             *)
(***************************************************************************)
EXTENDS Naturals

CONSTANT MaxVersion

VARIABLES installed, trial   \* trial is 0 when no version is on trial

Init == installed = 1 /\ trial = 0

Try ==
    /\ trial = 0
    /\ trial' \in (installed + 1)..MaxVersion
    /\ installed' = installed

Confirm ==
    /\ trial # 0
    /\ installed' = trial
    /\ trial' = 0

Revert ==
    /\ trial # 0
    /\ trial' = 0
    /\ installed' = installed

Next == Try \/ Confirm \/ Revert

Spec == Init /\ [][Next]_<<installed, trial>>
=============================================================================
