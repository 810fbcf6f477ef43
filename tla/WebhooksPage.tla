---------------------------- MODULE WebhooksPage ----------------------------
(***************************************************************************)
(* The webhooks page (WebhooksClient.tsx, webhooks/page.tsx and its server *)
(* actions).  A target is added or removed by sending the whole list of    *)
(* the collection, as the screen has it; failed deliveries are retried.    *)
(* A target with several events is a pair for each of them.                *)
(***************************************************************************)
EXTENDS Naturals, Sequences

CONSTANTS
  WhCollections, \* the collections of the project
  WhUrls,        \* addresses a target may have
  WhOptions,     \* EVENT_OPTIONS
  AllEvents,     \* the option that stands alone
  WhDeliveries,  \* the deliveries of the project
  NoWh,          \* no panel, no secret
  MaxWhCalls     \* how often a removal is confirmed before it is answered

Targets == WhUrls \X WhOptions

VARIABLES
  whCore,       \* the targets of each collection in Core
  whFailed,     \* the deliveries that have failed
  whShown,      \* selectedCollection
  whRows,       \* webhookRows
  whFailedRows, \* the deliveries listed as failed
  whSelected,   \* selectedTargetUrls
  whPanel,      \* the add panel with its draft, or targetRemoveUrls
  whSecret,     \* the collection whose secret is shown
  whCalls,      \* the server actions that have been sent; the first one runs
  whWanted,     \* a page that a success has invalidated is on its way
  whOwed        \* an own action succeeded since the page was loaded

whVars == <<whCore, whFailed, whShown, whRows, whFailedRows, whSelected, whPanel, whSecret,
            whCalls, whWanted, whOwed>>
whCoreVars == <<whCore, whFailed>>
whListVars == <<whShown, whRows, whFailedRows, whWanted, whOwed>>
whWidgetVars == <<whSelected, whPanel, whSecret>>

WebhooksInit ==
  /\ whCore \in [WhCollections -> SUBSET Targets] /\ whFailed \in SUBSET WhDeliveries
  /\ whShown \in WhCollections
  /\ whRows = whCore[whShown] /\ whFailedRows = whFailed
  /\ whSelected = {} /\ whPanel = NoWh /\ whSecret = NoWh
  /\ whCalls = <<>>
  /\ whWanted = FALSE /\ whOwed = FALSE
-----------------------------------------------------------------------------
\* The click clears the screen; the page comes later.
HandleCollectionSelect ==
  /\ whPanel = NoWh
  /\ whSelected' = {} /\ whSecret' = NoWh
  /\ UNCHANGED whPanel

ToggleTargetSelection(url) ==
  /\ whPanel = NoWh /\ \E t \in whRows : t[1] = url
  /\ whSelected' = IF url \in whSelected THEN whSelected \ {url} ELSE whSelected \cup {url}
  /\ UNCHANGED <<whPanel, whSecret>>

OpenAddTarget ==
  /\ whPanel = NoWh /\ whCalls = <<>> /\ (whSelected = {} \/ whRows = {})
  /\ \E url \in WhUrls :
       whPanel' = [kind |-> "add", url |-> url, events |-> WhOptions \ {AllEvents}]
  /\ whSecret' = NoWh
  /\ UNCHANGED whSelected

Adding == whPanel # NoWh /\ whPanel.kind = "add"
Removing == whPanel # NoWh /\ whPanel.kind = "remove"

ToggleEvent(e) ==
  /\ Adding
  /\ LET events == whPanel.events
         others == events \ {AllEvents}
     IN  whPanel' = [whPanel EXCEPT !.events =
           IF e = AllEvents THEN IF e \in events THEN {} ELSE {e}
           ELSE IF e \in others THEN others \ {e} ELSE others \cup {e}]
  /\ UNCHANGED <<whSelected, whSecret>>

RemoveSelectedTargets ==
  /\ whPanel = NoWh /\ whCalls = <<>> /\ whSelected # {}
  /\ whPanel' = [kind |-> "remove", urls |-> whSelected]
  /\ UNCHANGED <<whSelected, whSecret>>

CloseWhPanel == whPanel' = NoWh /\ UNCHANGED <<whSelected, whSecret>>

UseWebhookWidgets ==
  /\ \/ HandleCollectionSelect \/ OpenAddTarget \/ RemoveSelectedTargets \/ CloseWhPanel
     \/ \E url \in WhUrls : ToggleTargetSelection(url)
     \/ \E e \in WhOptions : ToggleEvent(e)
  /\ UNCHANGED <<whCoreVars, whListVars, whCalls>>

SendWebhooks(call) ==
  /\ whCalls' = Append(whCalls, call)
  /\ UNCHANGED <<whCoreVars, whListVars, whWidgetVars>>

SaveOf(from, list) ==
  [kind |-> "save", from |-> from, collection |-> whShown, list |-> list, result |-> "sent"]

\* The rows of the screen and the new target; Core refuses a target without
\* events and one that it has.
HandleSaveTarget ==
  /\ Adding /\ whCalls = <<>>
  /\ LET new == {whPanel.url} \X whPanel.events
     IN  SendWebhooks([SaveOf("add", whRows \cup new) EXCEPT
                !.result = IF new = {} \/ new \cap whRows # {} THEN "refused" ELSE "sent"])

\* The modal stays open until a removal succeeds, and may be confirmed again.
ConfirmRemoveSelectedTargets ==
  /\ Removing /\ Len(whCalls) < MaxWhCalls
  /\ SendWebhooks(SaveOf("remove", {t \in whRows : t[1] \notin whPanel.urls}))

HandleRetry(d) ==
  /\ d \in whFailedRows /\ whPanel = NoWh /\ whCalls = <<>>
  /\ SendWebhooks([kind |-> "retry", delivery |-> d, result |-> "sent"])

SendWebhookAction ==
  \/ HandleSaveTarget \/ ConfirmRemoveSelectedTargets
  \/ \E d \in WhDeliveries : HandleRetry(d)
-----------------------------------------------------------------------------
WhCall == Head(whCalls)

\* What Core does with the call, for a call that fails too, unless refused.
WebhooksDone ==
  IF WhCall.kind = "save"
  THEN whCore' = [whCore EXCEPT ![WhCall.collection] = WhCall.list] /\ UNCHANGED whFailed
  ELSE whFailed' = whFailed \ {WhCall.delivery} /\ UNCHANGED whCore

RunWebhookAction ==
  /\ whCalls # <<>>
  /\ \/ /\ WhCall.result = "sent"
        /\ \/ WebhooksDone /\ whCalls' = [whCalls EXCEPT ![1].result = "success"]
           \/ WebhooksDone /\ whCalls' = [whCalls EXCEPT ![1].result = "error"]
           \/ UNCHANGED whCoreVars /\ whCalls' = [whCalls EXCEPT ![1].result = "error"]
     \/ /\ WhCall.result = "refused"
        /\ UNCHANGED whCoreVars /\ whCalls' = [whCalls EXCEPT ![1].result = "error"]
  /\ UNCHANGED <<whListVars, whWidgetVars>>

\* A list that was saved is shown at once, whatever collection is on the
\* screen; so is its secret, unless targets were removed.
ShowSavedList ==
  /\ whRows' = WhCall.list
  /\ IF WhCall.from = "add"
     THEN /\ whSecret' = WhCall.collection
          /\ whPanel' = IF Adding THEN NoWh ELSE whPanel
          /\ UNCHANGED whSelected
     ELSE /\ whSecret' = NoWh /\ whSelected' = {}
          /\ whPanel' = IF Removing THEN NoWh ELSE whPanel

AnswerWebhookAction ==
  /\ whCalls # <<>> /\ WhCall.result \in {"success", "error"}
  /\ IF WhCall.result = "success" /\ WhCall.kind = "save" THEN ShowSavedList
     ELSE UNCHANGED <<whRows, whWidgetVars>>
  /\ whWanted' = (whWanted \/ WhCall.result = "success")
  /\ whOwed' = (whOwed \/ WhCall.result = "success")
  /\ whCalls' = Tail(whCalls)
  /\ UNCHANGED <<whCoreVars, whShown, whFailedRows>>
-----------------------------------------------------------------------------
\* Another collection, or a refresh: the list of targets and then that of the
\* deliveries; what could not be read is an empty list.
LoadWebhooks(c) ==
  /\ whShown' = c
  /\ \/ whRows' = whCore[c] /\ whFailedRows' \in {whFailed, {}}
     \/ whRows' = {} /\ whFailedRows' = {}
  /\ whWanted' = FALSE /\ whOwed' = FALSE
  /\ UNCHANGED <<whCoreVars, whWidgetVars, whCalls>>

RefreshWebhooks == whWanted /\ LoadWebhooks(whShown)

\* Other clients, and Core's workers.
OthersUseWebhooks ==
  /\ \/ /\ \E c \in WhCollections, list \in SUBSET Targets : whCore' = [whCore EXCEPT ![c] = list]
        /\ UNCHANGED whFailed
     \/ /\ \E d \in WhDeliveries : whFailed' \in {whFailed \cup {d}, whFailed \ {d}}
        /\ UNCHANGED whCore
  /\ UNCHANGED <<whListVars, whWidgetVars, whCalls>>

WebhooksNext ==
  \/ UseWebhookWidgets \/ SendWebhookAction \/ RunWebhookAction \/ AnswerWebhookAction
  \/ (\E c \in WhCollections : LoadWebhooks(c)) \/ OthersUseWebhooks
-----------------------------------------------------------------------------
\* The targets, the page, and the calls.
WebhooksTypeOK ==
  /\ whCore \in [WhCollections -> SUBSET Targets] /\ whRows \in SUBSET Targets
  /\ {whFailed, whFailedRows} \subseteq SUBSET WhDeliveries
  /\ whShown \in WhCollections /\ whSecret \in WhCollections \cup {NoWh}
  /\ whSelected \in SUBSET WhUrls
  /\ whPanel \in {NoWh} \cup [kind : {"add"}, url : WhUrls, events : SUBSET WhOptions]
                        \cup [kind : {"remove"}, urls : SUBSET WhUrls]
  /\ \A k \in DOMAIN whCalls :
       whCalls[k] \in
         [kind : {"save"}, from : {"add", "remove"}, collection : WhCollections,
          list : SUBSET Targets, result : {"sent", "refused", "success", "error"}]
         \cup [kind : {"retry"}, delivery : WhDeliveries, result : {"sent", "success", "error"}]
  /\ {whWanted, whOwed} \subseteq BOOLEAN

\* Whether the page is wrong after an own action that succeeded.
WebhooksBehind ==
  whOwed /\ (whRows # whCore[whShown] \/ whFailedRows # whFailed)
=============================================================================
