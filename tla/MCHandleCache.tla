---------------------------- MODULE MCHandleCache ----------------------------
(***************************************************************************)
(* Small instances of HandleCache for TLC.                                 *)
(***************************************************************************)
EXTENDS HandleCache, TLC

\* Clients with the same rights are interchangeable.  Idle picks a database
\* with CHOOSE, so only clients are permuted.
ClientSymmetry == Permutations(Deleters) \cup Permutations(Clients \ Deleters)
=============================================================================
