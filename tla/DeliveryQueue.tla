---------------------------- MODULE DeliveryQueue ----------------------------
(***************************************************************************)
(* What the delivery of webhooks promises, with no workers, batches, locks *)
(* or transactions in sight: an event is queued as a delivery, a delivery  *)
(* is attempted one attempt after the other until one is answered or all   *)
(* are used up, its row counts exactly these attempts, and then it rests   *)
(* until somebody has asked for it to be retried.  An answer may be         *)
(* forgotten, so that a delivery is answered more than once, but none is   *)
(* made up.  WebhookDelivery implements this module.                       *)
(***************************************************************************)
EXTENDS Naturals

CONSTANTS Event, Delivery, MaxAttempts, NoEvent

VARIABLES status,     \* status[d]: of delivery d
          carries,    \* carries[d]: the event it reports
          attempts,   \* attempts[d]: the attempts that have been counted
          accepted,   \* the deliveries that the merchant has answered
          requested   \* the deliveries somebody has asked to be retried

vars == <<status, carries, attempts, accepted, requested>>

Init == /\ status = [d \in Delivery |-> "none"]
        /\ carries = [d \in Delivery |-> NoEvent]
        /\ attempts = [d \in Delivery |-> 0]
        /\ accepted = {} /\ requested = {}

Queue(d, e) == /\ status[d] = "none"
               /\ status' = [status EXCEPT ![d] = "pending"]
               /\ carries' = [carries EXCEPT ![d] = e]
               /\ UNCHANGED <<attempts, accepted, requested>>

Answer(d) == /\ status[d] = "pending"
             /\ accepted' = accepted \cup {d}
             /\ UNCHANGED <<status, carries, attempts, requested>>

\* Attempts at the deliveries D are counted; those at W were answered.
Attempt(D, W) ==
  /\ \A d \in D : status[d] = "pending"
  /\ W \subseteq D \cap accepted
  /\ attempts' = [d \in Delivery |-> IF d \in D THEN attempts[d] + 1 ELSE attempts[d]]
  /\ status' = [d \in Delivery |-> IF d \in W THEN "delivered"
                                   ELSE IF d \in D /\ attempts[d] + 1 = MaxAttempts
                                        THEN "dead_lettered"
                                        ELSE status[d]]
  /\ UNCHANGED <<carries, accepted, requested>>

Ask(d) == /\ status[d] = "dead_lettered"
          /\ requested' = requested \cup {d}
          /\ UNCHANGED <<status, carries, attempts, accepted>>

\* Asked for twice, it may be retried twice, whatever came of the first time.
Retry(d) == /\ d \in requested
            /\ status' = [status EXCEPT ![d] = "pending"]
            /\ attempts' = [attempts EXCEPT ![d] = 0]
            /\ requested' \in {requested, requested \ {d}}
            /\ UNCHANGED <<carries, accepted>>

Next == \/ \E d \in Delivery, e \in Event : Queue(d, e)
        \/ \E d \in Delivery : Answer(d) \/ Ask(d) \/ Retry(d)
        \/ \E D \in SUBSET Delivery : \E W \in SUBSET D : Attempt(D, W)

Spec == Init /\ [][Next]_vars
=============================================================================
