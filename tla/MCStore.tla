------------------------------ MODULE MCStore ------------------------------
(***************************************************************************)
(* The cache of open databases, and the build of an index in one of them.  *)
(* A behaviour exercises one of the two, chosen in the initial state; the  *)
(* other stays as it starts.                                               *)
(***************************************************************************)
EXTENDS HandleCache, IndexBuild, TLC

OneCollection == {<<"a">>}
TwoFields     == {<<"f">>, <<"g">>}

VARIABLE part

vars == <<part, handleVars, buildVars>>

\* The databases are there at the start: one that is not is one that was deleted.
Init ==
  /\ HandlesInit /\ BuildsInit
  /\ \/ part = "handles" /\ \A d \in Databases : exists[d]
     \/ part = "builds" /\ \A d \in Databases : ~exists[d]

Next ==
  /\ UNCHANGED part
  /\ \/ part = "handles" /\ HandlesNext /\ UNCHANGED buildVars
     \/ part = "builds" /\ BuildsNext /\ UNCHANGED handleVars

Spec == /\ Init /\ [][Next]_vars
        /\ \A c \in Clients : SF_handleVars(part = "handles" /\ Continue(c))
        /\ \A b \in Builders : WF_buildVars(part = "builds" /\ Build(b))
-----------------------------------------------------------------------------
\* What the variables of the two parts range over.
TypeOK == HandlesTypeOK /\ BuildsTypeOK
=============================================================================
