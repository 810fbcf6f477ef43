------------------------------ MODULE MCServer ------------------------------
(***************************************************************************)
(* The parts of the server that share no state with each other: documents  *)
(* of two collections, operations, revocations and schemas.  A behaviour   *)
(* exercises one of them, chosen in the initial state; the others stay as  *)
(* they start.                                                             *)
(***************************************************************************)
EXTENDS DocStore, Operations, Revocation, SchemaGuard, TLC

TwoCollections == {<<"a">>, <<"b">>}
OneField == {<<"f">>}

VARIABLE part

serverVars == <<part, vars, opsVars, revocationVars, schemaVars>>

ServerInit ==
  /\ part \in {"documents", "operations", "revocation", "schemas"}
  /\ Init /\ OperationsInit /\ RevocationInit /\ SchemaInit

ServerNext ==
  /\ UNCHANGED part
  /\ \/ /\ part = "documents" /\ (Handlers \/ HealthySweeper \/ Tick)
        /\ UNCHANGED <<opsVars, revocationVars, schemaVars>>
     \/ /\ part = "operations" /\ OperationsNext
        /\ UNCHANGED <<vars, revocationVars, schemaVars>>
     \/ /\ part = "revocation" /\ RevocationNext
        /\ UNCHANGED <<vars, opsVars, schemaVars>>
     \/ /\ part = "schemas" /\ SchemaNext
        /\ UNCHANGED <<vars, opsVars, revocationVars>>

\* The fairness of the two parts that have one: DocStore's and Operations'.
ServerFairness ==
  /\ \A j \in Jobs : WF_opsVars(part = "operations" /\ Working(j))
  /\ WF_vars(part = "documents" /\
             (TransactionStep \/ CommitTransaction \/ RollbackTransaction))
  /\ WF_vars(part = "documents" /\ SweepReadsClock)
  /\ SF_vars(part = "documents" /\ BeginPurge)
  /\ WF_vars(part = "documents" /\ PurgeOne)
  /\ WF_vars(part = "documents" /\ CommitPurge)

ServerSpec == ServerInit /\ [][ServerNext]_serverVars /\ ServerFairness
-----------------------------------------------------------------------------
\* What the variables of the parts range over.
ServerTypeOK ==
  TypeOK /\ OperationsTypeOK /\ RevocationTypeOK /\ SchemaTypeOK
=============================================================================
