---------------------------- MODULE MCDeliveries ----------------------------
(***************************************************************************)
(* What becomes of a committed event: the subscriptions of a collection    *)
(* and the webhooks.  A behaviour exercises one of the two, chosen in the  *)
(* initial state; the other stays as it starts.                            *)
(***************************************************************************)
EXTENDS EventStream, WebhookOutbox, TLC

VARIABLE part

deliveryVars == <<part, eventVars, vars>>

DeliveriesInit == part \in {"subscriptions", "webhooks"} /\ EventsInit /\ Init

DeliveriesNext ==
  /\ UNCHANGED part
  /\ \/ part = "subscriptions" /\ EventsNext /\ UNCHANGED vars
     \/ part = "webhooks" /\ Next /\ UNCHANGED eventVars

\* The fairness of the two parts.
Fairness ==
  /\ \A p \in Publishers : WF_eventVars(part = "subscriptions" /\ Publication(p))
  /\ \A c \in Conns : WF_eventVars(part = "subscriptions" /\ Serving(c))
  /\ WF_vars(part = "webhooks" /\ Tick)
  /\ \A w \in Workers : WF_vars(part = "webhooks" /\ WorkerStep(w))

DeliveriesSpec == DeliveriesInit /\ [][DeliveriesNext]_deliveryVars /\ Fairness
-----------------------------------------------------------------------------
\* What the variables of the two parts range over.
DeliveriesTypeOK == EventsTypeOK /\ TypeOK
=============================================================================
