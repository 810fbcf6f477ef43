----------------------------- MODULE MCFullText -----------------------------
(***************************************************************************)
(* Small instances of FullText for TLC.                                    *)
(***************************************************************************)
EXTENDS FullText, TLC
=============================================================================
