------------------------ MODULE MCLocalResumeOrderly ------------------------
(***************************************************************************)
(* The instances for which the theorems of LocalResumeProofs speak: TLC    *)
(* refuses one whose world is not orderly.                                 *)
(***************************************************************************)
EXTENDS MCLocalResume

ASSUME Orderly == OrderlyWorld
=============================================================================
