--------------------------- MODULE MCIndexesPage ---------------------------
(***************************************************************************)
(* An index of one field of two collections, built by the call or in the   *)
(* background.                                                             *)
(***************************************************************************)
EXTENDS IndexesPage

Spec == IndexesInit /\ [][IndexesNext]_ixVars /\ WF_ixVars(RefreshIndexes)
=============================================================================
