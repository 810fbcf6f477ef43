--------------------------- MODULE OperationsPage ---------------------------
(***************************************************************************)
(* The list of background operations (OperationsClient.tsx, its server     *)
(* action and operations/page.tsx).  Nothing polls: a record on the screen *)
(* is as old as the page.  Several operations are cancelled one call after *)
(* the other.                                                              *)
(*                                                                         *)
(* "active" stands for queued and running, "over" for ready and failed,    *)
(* "none" for one that is not started, or not on the page.                 *)
(***************************************************************************)
EXTENDS Naturals

CONSTANTS
  OprIds,   \* the operations of the project
  NoOpr     \* no open panel, no call

VARIABLES
  oprCore,     \* each operation's state in Core
  oprRows,     \* operations, as the page last loaded shows them
  oprDetails,  \* selected: the id and the record of the open panel
  oprCall,     \* what each call of the server action has said
  oprOwed      \* cancelled since the page was loaded: a new page is on its way

oprVars == <<oprCore, oprRows, oprDetails, oprCall, oprOwed>>
oprListVars == <<oprRows, oprOwed>>

OperationsPageInit ==
  /\ oprCore = [i \in OprIds |-> "none"]
  /\ oprRows = oprCore
  /\ oprDetails = NoOpr /\ oprCall = NoOpr /\ oprOwed = {}
-----------------------------------------------------------------------------
\* A row opens the panel, which keeps the record it was opened with.
OpenDetails(i) ==
  /\ oprRows[i] # "none"
  /\ oprDetails' = [id |-> i, state |-> oprRows[i]]
  /\ UNCHANGED oprCall
CloseDetails == oprDetails' = NoOpr /\ UNCHANGED oprCall

Cancel(ids) == oprCall' = [i \in ids |-> "waiting"]

HandleCancel ==
  /\ oprDetails # NoOpr /\ oprCall = NoOpr /\ oprDetails.state = "active"
  /\ Cancel({oprDetails.id})
  /\ oprDetails' = NoOpr

\* Those of the selected operations that may be cancelled.
SelectedCancellable(ids) == {i \in ids : oprRows[i] = "active"}

CancelSelectedOperations(ids) ==
  /\ SelectedCancellable(ids) # {} /\ oprCall = NoOpr
  /\ Cancel(SelectedCancellable(ids))
  /\ UNCHANGED oprDetails

UseOperationWidgets ==
  /\ \/ \E i \in OprIds : OpenDetails(i)
     \/ CloseDetails \/ HandleCancel
     \/ \E ids \in SUBSET OprIds : CancelSelectedOperations(ids)
  /\ UNCHANGED <<oprCore, oprListVars>>

\* Core cancels what still can be and answers with the record as it then is,
\* if the answer arrives; an operation that is not cancellable stays active.
CancelOperationAction(i) ==
  /\ oprCall[i] = "waiting"
  /\ oprCore' \in {oprCore} \cup
       (IF oprCore[i] = "active" THEN {[oprCore EXCEPT ![i] = "canceling"]} ELSE {})
  /\ \E answered \in BOOLEAN :
       IF answered /\ oprCore'[i] \in {"canceling", "canceled"}
       THEN /\ oprCall' = [oprCall EXCEPT ![i] = "requested"]
            /\ oprOwed' = oprOwed \cup {i}
       ELSE /\ oprCall' = [oprCall EXCEPT ![i] = "refused"]
            /\ UNCHANGED oprOwed
  /\ UNCHANGED <<oprRows, oprDetails>>

RunCancel == oprCall # NoOpr /\ \E i \in DOMAIN oprCall : CancelOperationAction(i)

AnswerCancel ==
  /\ oprCall # NoOpr /\ \A i \in DOMAIN oprCall : oprCall[i] # "waiting"
  /\ oprCall' = NoOpr
  /\ UNCHANGED <<oprCore, oprListVars, oprDetails>>
-----------------------------------------------------------------------------
\* A failed load shows no operations.
LoadOperations ==
  /\ oprRows' \in {oprCore, [i \in OprIds |-> "none"]}
  /\ oprOwed' = {}
  /\ UNCHANGED <<oprCore, oprDetails, oprCall>>

\* revalidatePath has the page loaded again.
RefreshOperations == oprOwed # {} /\ LoadOperations

\* Core's side: operations start, end, and are canceled.
OperationSteps ==
  /\ \E i \in OprIds :
       \E state \in CASE oprCore[i] = "none" -> {"active"}
                      [] oprCore[i] = "active" -> {"over"}
                      [] oprCore[i] = "canceling" -> {"canceled", "over"}
                      [] OTHER -> {} :
         oprCore' = [oprCore EXCEPT ![i] = state]
  /\ UNCHANGED <<oprListVars, oprDetails, oprCall>>

OperationsPageNext ==
  UseOperationWidgets \/ RunCancel \/ AnswerCancel \/ LoadOperations \/ OperationSteps
-----------------------------------------------------------------------------
\* The operations, the page, and the calls.
OperationsPageTypeOK ==
  LET states == {"none", "active", "canceling", "canceled", "over"} IN
  /\ oprCore \in [OprIds -> states] /\ oprRows \in [OprIds -> states]
  /\ oprDetails \in {NoOpr} \cup [id : OprIds, state : states]
  /\ oprCall \in {NoOpr} \cup
       UNION {[ids -> {"waiting", "requested", "refused"}] : ids \in SUBSET OprIds}
  /\ oprOwed \in SUBSET OprIds

\* Whether the list still offers to cancel what an own action has cancelled.
OperationsBehind ==
  \E i \in oprOwed : oprRows[i] = "active" /\ oprCore[i] # "active"
=============================================================================
