---------------------------- MODULE InvoiceRules ----------------------------
(***************************************************************************)
(* The pure part of invoice settlement: the status machine of              *)
(* invoice_service.py, the status an invoice takes from the total of its   *)
(* confirmed payments, and the webhook events a change gives rise to.      *)
(* Nothing here has state; Settlement and SettlementRace use it.           *)
(***************************************************************************)
EXTENDS Integers

InvoiceStatus == {"pending", "partially_paid", "paid", "overpaid",
                  "expired", "late_paid", "cancelled"}

PaymentStatus == {"detected", "confirmed", "orphaned"}

\* The statuses that count as paid (REVERTIBLE_PAID_STATUSES), and those a
\* reversal may leave behind (REVERTED_TARGET_STATUSES).
PaidStatuses    == {"paid", "overpaid", "late_paid"}
RevertedTargets == {"pending", "partially_paid", "expired"}

\* VALID_TRANSITIONS as a relation. "cancelled" has no successor.
VALID_TRANSITIONS ==
  UNION { {"pending"}        \X {"paid", "partially_paid", "expired", "cancelled"},
          {"partially_paid"} \X {"paid", "overpaid", "pending"},
          {"expired"}        \X {"late_paid"},
          {"paid"}           \X {"overpaid", "partially_paid", "pending"},
          {"overpaid"}       \X {"paid", "partially_paid", "pending"},
          {"late_paid"}      \X {"expired"} }

can_transition(from, to) == <<from, to>> \in VALID_TRANSITIONS

(***************************************************************************)
(* The status _recalculate_invoice_status aims at.  Once an invoice has    *)
(* expired, the only question is whether the total reaches the amount.     *)
(***************************************************************************)
TargetStatus(status, total, required) ==
  IF status \in {"expired", "late_paid"}
  THEN IF total >= required THEN "late_paid" ELSE "expired"
  ELSE IF total > required  THEN "overpaid"
  ELSE IF total >= required THEN "paid"
  ELSE IF total > 0         THEN "partially_paid"
  ELSE "pending"

\* Mutant: a pending invoice overpaid at once has no way to go.
Recalculated_NoDetour(status, total, required) ==
  LET target == TargetStatus(status, total, required) IN
  IF can_transition(status, target) THEN target ELSE status

(***************************************************************************)
(* What _recalculate_invoice_status leaves behind: a cancelled invoice is  *)
(* never touched, a target the table allows is taken, and a pending        *)
(* invoice that is overpaid at once goes through "paid" (two updates in    *)
(* one transaction).  A target out of reach leaves the status as it is.    *)
(***************************************************************************)
Recalculated(status, total, required) ==
  LET target == TargetStatus(status, total, required) IN
  IF \/ status = "cancelled"
     \/ ~ can_transition(status, target) /\ <<status, target>> # <<"pending", "overpaid">>
  THEN status
  ELSE target

-----------------------------------------------------------------------------
PaymentEvents == {"payment.detected", "payment.confirmed", "payment.orphaned",
                  "invoice.exception_payment"}
InvoiceEvents == {"invoice.paid", "invoice.partially_paid", "invoice.overpaid",
                  "invoice.late_paid", "invoice.expired", "invoice.reverted"}

\* Mutant: a confirmed payment is announced whenever it is looked at.
PaymentEventsFor_Repeats(before, after, statusBefore) ==
  UNION { IF before = "none" THEN {"payment.detected"} ELSE {},
          IF after = "confirmed" THEN {"payment.confirmed"} ELSE {},
          IF before # "none" /\ after = "orphaned" THEN {"payment.orphaned"} ELSE {},
          IF before = "none" /\ statusBefore = "cancelled"
          THEN {"invoice.exception_payment"} ELSE {} }

\* The payment's own events.  before = "none" is a payment just created; an
\* orphaned payment looked at again is reported as orphaned again.
PaymentEventsFor(before, after, statusBefore) ==
  UNION { IF before = "none" THEN {"payment.detected"} ELSE {},
          IF before = "detected" /\ after = "confirmed" THEN {"payment.confirmed"} ELSE {},
          IF before # "none" /\ after = "orphaned" THEN {"payment.orphaned"} ELSE {},
          IF before = "none" /\ statusBefore = "cancelled"
          THEN {"invoice.exception_payment"} ELSE {} }

\* The invoice's event, if its status changed: a reversal takes precedence,
\* and "pending" and "cancelled" have no event.
InvoiceEventsFor(statusBefore, statusAfter) ==
  IF statusBefore \in PaidStatuses /\ statusAfter \in RevertedTargets
  THEN {"invoice.reverted"}
  ELSE IF statusBefore = statusAfter THEN {}
  ELSE CASE statusAfter = "paid"           -> {"invoice.paid"}
         [] statusAfter = "partially_paid" -> {"invoice.partially_paid"}
         [] statusAfter = "overpaid"       -> {"invoice.overpaid"}
         [] statusAfter = "late_paid"      -> {"invoice.late_paid"}
         [] statusAfter = "expired"        -> {"invoice.expired"}
         [] OTHER                          -> {}
=============================================================================
