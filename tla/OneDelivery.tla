------------------------------ MODULE OneDelivery ------------------------------
(***************************************************************************)
(* What the delivery of a support request promises, whatever happens to    *)
(* the handlers, the queue and the workers that carry it out: an open      *)
(* request is attempted, its message gets into the chat at most once and   *)
(* only by an attempt, an attempt ends delivered, refused or unknown, and  *)
(* only a refused one is followed by another.  SupportDelivery implements  *)
(* this specification.                                                     *)
(***************************************************************************)
CONSTANT Keys     \* the requests that may be made

VARIABLES
  outcome,  \* outcome[k]: what is known of request k
  inChat    \* requests whose message is in the chat

deliveryVars == <<outcome, inChat>>

DeliveryInit ==
  /\ outcome = [k \in Keys |-> "none"]
  /\ inChat = {}

Turn(k, from, to) ==
  /\ outcome[k] \in from
  /\ outcome' = [outcome EXCEPT ![k] = to]
  /\ UNCHANGED inChat

Ask(k)     == Turn(k, {"none"}, "open")
Reopen(k)  == Turn(k, {"refused"}, "open")
Attempt(k) == k \notin inChat /\ Turn(k, {"open", "refused"}, "attempted")
Refuse(k)  == k \notin inChat /\ Turn(k, {"attempted"}, "refused")
Confirm(k) == k \in inChat /\ Turn(k, {"attempted"}, "delivered")

\* Nobody knows; the message may be in the chat or still get there.
GiveUp(k)  == Turn(k, {"attempted"}, "unknown")

Arrive(k) ==
  /\ outcome[k] \in {"attempted", "unknown"} /\ k \notin inChat
  /\ inChat' = inChat \cup {k}
  /\ UNCHANGED outcome

DeliveryNext ==
  \E k \in Keys :
    Ask(k) \/ Reopen(k) \/ Attempt(k) \/ Refuse(k) \/ Confirm(k) \/ GiveUp(k) \/ Arrive(k)

DeliverySpec == DeliveryInit /\ [][DeliveryNext]_deliveryVars
=============================================================================
