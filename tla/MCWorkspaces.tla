---------------------------- MODULE MCWorkspaces ----------------------------
(***************************************************************************)
(* One account with two projects, in two tabs: each action of a page is    *)
(* expected to work on the project that the page shows.                    *)
(***************************************************************************)
EXTENDS Workspaces

Emails == [u \in WsUsers |-> u]
=============================================================================
