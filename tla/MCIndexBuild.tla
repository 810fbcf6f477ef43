---------------------------- MODULE MCIndexBuild ----------------------------
(***************************************************************************)
(* Small instances of IndexBuild for TLC.                                  *)
(***************************************************************************)
EXTENDS IndexBuild, TLC

OneCollection == {<<"a">>}
OneField      == {<<"f">>}
=============================================================================
