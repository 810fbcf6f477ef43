----------------------------- MODULE MCPresence -----------------------------
(***************************************************************************)
(* A small instance of Presence for TLC.                                   *)
(***************************************************************************)
EXTENDS Presence, TLC
=============================================================================
