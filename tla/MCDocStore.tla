----------------------------- MODULE MCDocStore -----------------------------
(***************************************************************************)
(* The documents of a database, and its full-text search.  A behaviour     *)
(* exercises one of the two, chosen in the initial state; the other stays  *)
(* as it starts.  (MCServer takes the documents again, with fairness.)     *)
(***************************************************************************)
EXTENDS DocStore, FullText, TLC

OneCollection  == {<<"a">>}
OneField == {<<"f">>}

\* Document ids are interchangeable: no name is built from them.
IdSymmetry == Permutations(Ids)

VARIABLE part

databaseVars == <<part, vars, fullTextVars>>

DatabaseInit == part \in {"documents", "search"} /\ Init /\ FullTextInit

DatabaseNext ==
  /\ UNCHANGED part
  /\ \/ part = "documents" /\ Next /\ UNCHANGED fullTextVars
     \/ part = "search" /\ FullTextNext /\ UNCHANGED vars

DatabaseSpec == DatabaseInit /\ [][DatabaseNext]_databaseVars
-----------------------------------------------------------------------------
\* What the variables of the two parts range over.
DatabaseTypeOK == TypeOK /\ FullTextTypeOK
=============================================================================
