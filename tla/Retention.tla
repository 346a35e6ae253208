------------------------------ MODULE Retention ------------------------------
(***************************************************************************)
(* The deletion of old rows (tasks/data_retention.py) beside the parts of   *)
(* the application that go on referring to them: the engine records late    *)
(* payments, deliveries are queued and fail.  One transaction (READ         *)
(* COMMITTED) per cycle, cut at its statements: each sees what the others   *)
(* have committed by then.  The rows of audit_log, to which nothing refers, *)
(* go in the same transaction and are left out.                             *)
(***************************************************************************)
EXTENDS Naturals, FiniteSets

CONSTANTS Invoices, Deliveries,
          Purposes,     \* what invoices are created for
          None,
          BatchSize,
          MaxFailures   \* bound: cycles that fail for a reason of their own

ASSUME RetentionAssumption ==
  /\ IsFiniteSet(Invoices) /\ IsFiniteSet(Deliveries)
  /\ Purposes \subseteq {"merchant", "renewal", "prepay"} /\ None \notin Invoices
  /\ BatchSize \in Nat \ {0} /\ MaxFailures \in Nat

VARIABLES invoice,    \* the rows of invoices, with their address and what refers to them
          delivery,   \* the rows of webhook_deliveries, with their dead letter
          tx,         \* the cleaner and what its transaction has deleted so far
          found,      \* the invoice the engine has found for a transfer
          failures

vars == <<invoice, delivery, tx, found, failures>>

\* The rows that hold on to an invoice (RESTRICT, models.py and w1_05a).
Referrers == {"payments", "subscription_payments", "subscription_renewal_events",
              "subscriptions"}
RefsOf == [merchant |-> {},
           renewal |-> {"subscription_payments", "subscription_renewal_events"},
           prepay |-> {"subscriptions", "subscription_renewal_events"}]
NoInvoice == [status |-> "none", old |-> FALSE, addr |-> FALSE, refs |-> {}]
NoDelivery == [age |-> "none", invoice |-> None, letter |-> FALSE]
Idle == [step |-> "idle", addresses |-> {}, invoices |-> {}, letters |-> {}, deliveries |-> {}]

Init ==
  /\ invoice = [i \in Invoices |-> NoInvoice]
  /\ delivery = [d \in Deliveries |-> NoDelivery]
  /\ tx = Idle /\ found = None /\ failures = 0

Row(i) == invoice[i].status \notin {"none", "gone"}
Kept(d) == delivery[d].age \in {"new", "old"}

-----------------------------------------------------------------------------
(* The rest of the application. *)

\* Rows that the cleaner has deleted and not committed: who touches one waits.
Touchable(i) == Row(i) /\ (tx.step \in {"idle", "addresses", "targets", "picked"}
                             \/ i \notin tx.invoices)

\* queue_webhook, in the transaction of what it tells of, if the merchant has
\* a URL at the time.
Queued(i) ==
  \/ UNCHANGED delivery
  \/ \E d \in Deliveries : /\ delivery[d].age = "none"
                           /\ delivery' = [delivery EXCEPT ![d].age = "new", ![d].invoice = i]

\* A merchant's invoice, a renewal's, or a prepayment's.
create_invoice(i, purpose) ==
  /\ invoice[i].status = "none"
  /\ invoice' = [invoice EXCEPT ![i] = [NoInvoice EXCEPT !.status = "open", !.addr = TRUE,
                                                         !.refs = RefsOf[purpose]]]
  /\ UNCHANGED <<delivery, tx, found, failures>>

\* Expired or cancelled, which takes an invoice without payments.
EndInvoice(i) ==
  /\ invoice[i].status = "open" /\ "payments" \notin invoice[i].refs
  /\ invoice' = [invoice EXCEPT ![i].status = "ended"]
  /\ Queued(i)
  /\ UNCHANGED <<tx, found, failures>>

\* The subscription lets go of its prepayment, unpaid or paid.
ClearPrepay(i) ==
  /\ "subscriptions" \in invoice[i].refs
  /\ \E paid \in SUBSET {"subscription_payments"} :
       /\ paid # {} => "payments" \in invoice[i].refs
       /\ invoice' = [invoice EXCEPT ![i].refs = (@ \ {"subscriptions"}) \cup paid]
  /\ UNCHANGED <<delivery, tx, found, failures>>

\* The engine finds the invoice by the address of a transfer, and records the
\* payment: too late if the invoice has gone (the key refuses the row).  What
\* becomes of the status of an invoice with payments is Settlement's business:
\* it is never deleted.
find_invoice_by_subaddress_index(i) ==
  /\ found = None /\ Row(i) /\ invoice[i].addr
  /\ found' = i
  /\ UNCHANGED <<invoice, delivery, tx, failures>>

RecordPayment ==
  /\ found # None
  /\ \/ /\ Touchable(found)
        /\ invoice' = [invoice EXCEPT ![found].refs = @ \cup {"payments"}, ![found].old = FALSE]
        /\ Queued(found)
     \/ ~ Row(found) /\ UNCHANGED <<invoice, delivery>>
  /\ found' = None
  /\ UNCHANGED <<tx, failures>>

\* The last attempt of a delivery failed.
MoveToDlq(d) ==
  /\ Kept(d) /\ ~ delivery[d].letter /\ d \notin tx.deliveries
  /\ delivery' = [delivery EXCEPT ![d].letter = TRUE]
  /\ UNCHANGED <<invoice, tx, found, failures>>

\* 48 hours and 30 days go by.  The cycle computes its cutoffs once, so a row is
\* old from the next cycle on.  (The age of an invoice with payments makes no
\* difference, since it keeps them.)
InvoiceAges(i) ==
  /\ tx.step = "idle"
  /\ invoice[i].status = "ended" /\ "payments" \notin invoice[i].refs /\ ~ invoice[i].old
  /\ invoice' = [invoice EXCEPT ![i].old = TRUE]
  /\ UNCHANGED <<delivery, tx, found, failures>>

DeliveryAges(d) ==
  /\ tx.step = "idle" /\ delivery[d].age = "new"
  /\ delivery' = [delivery EXCEPT ![d].age = "old"]
  /\ UNCHANGED <<invoice, tx, found, failures>>

-----------------------------------------------------------------------------
(* The cleaner. *)

\* LIMIT without ORDER BY: any rows, as many as there are up to the limit.
Batches(S) == {B \in SUBSET S : Cardinality(B) = BatchSize
                                  \/ (B = S /\ Cardinality(S) < BatchSize)}

\* Mutant of Targets: the joins stop short of the renewal events.
Targets_NoEvents ==
  {i \in Invoices : /\ invoice[i].status = "ended" /\ invoice[i].old
                    /\ invoice[i].refs \subseteq {"subscription_renewal_events"}}

\* Mutant of Targets: the condition on the status is lost.
Targets_AnyStatus == {i \in Invoices : Row(i) /\ invoice[i].refs = {}}

\* target_sql
Targets ==
  {i \in Invoices : invoice[i].status = "ended" /\ invoice[i].old /\ invoice[i].refs = {}}

Goto(step) == tx' = [tx EXCEPT !.step = step]

\* The lease is taken, about every second hour.
BeginCycle ==
  /\ tx.step = "idle"
  /\ Goto("addresses")
  /\ UNCHANGED <<invoice, delivery, found, failures>>

DeleteAddresses ==
  /\ tx.step = "addresses"
  /\ \E B \in Batches(Targets) :
       tx' = [tx EXCEPT !.addresses = {i \in B : invoice[i].addr}, !.step = "targets"]
  /\ UNCHANGED <<invoice, delivery, found, failures>>

\* The second statement looks for its rows anew.
PickInvoices ==
  /\ tx.step = "targets"
  /\ \E B \in Batches(Targets) :
       tx' = [tx EXCEPT !.invoices = B, !.step = "picked"]
  /\ UNCHANGED <<invoice, delivery, found, failures>>

\* Mutant of Referred: payments cascade.
Referred_NotByPayments(i) ==
  \/ invoice[i].refs \ {"payments"} # {}
  \/ \E d \in Deliveries : Kept(d) /\ delivery[d].invoice = i

\* Rows with a RESTRICT key on the invoice, the deliveries among them.
Referred(i) ==
  \/ invoice[i].refs # {}
  \/ \E d \in Deliveries : Kept(d) /\ delivery[d].invoice = i

RollBack == tx' = Idle

DeleteInvoices ==
  /\ tx.step = "picked"
  /\ IF \E i \in tx.invoices : Referred(i) THEN RollBack ELSE Goto("letters")
  /\ UNCHANGED <<invoice, delivery, found, failures>>

Past == {d \in Deliveries : delivery[d].age = "old"}

\* _cleanup_webhook_logs: the letters of old deliveries, then the deliveries.
DeleteLetters ==
  /\ tx.step = "letters"
  /\ \E B \in Batches(Past) :
       tx' = [tx EXCEPT !.letters = {d \in B : delivery[d].letter}, !.step = "deliveries"]
  /\ UNCHANGED <<invoice, delivery, found, failures>>

LetterLeft(B) == \E d \in B : delivery[d].letter /\ d \notin tx.letters

DeleteDeliveries ==
  /\ tx.step = "deliveries"
  /\ \E B \in Batches(Past) :
       IF LetterLeft(B) THEN RollBack
                        ELSE tx' = [tx EXCEPT !.deliveries = B, !.step = "commit"]
  /\ UNCHANGED <<invoice, delivery, found, failures>>

\* An invoice takes its address with it (CASCADE).
Commit ==
  /\ tx.step = "commit"
  /\ invoice' = [i \in Invoices |->
                   CASE i \in tx.invoices -> [invoice[i] EXCEPT !.status = "gone", !.addr = FALSE]
                     [] i \in tx.addresses \ tx.invoices -> [invoice[i] EXCEPT !.addr = FALSE]
                     [] OTHER -> invoice[i]]
  /\ delivery' = [d \in Deliveries |->
                    [(IF d \in tx.deliveries THEN [NoDelivery EXCEPT !.age = "gone"]
                                            ELSE delivery[d])
                       EXCEPT !.letter = delivery[d].letter /\ d \notin tx.letters]]
  /\ tx' = Idle
  /\ UNCHANGED <<found, failures>>

\* The database, the connection or the process fails.
Fail ==
  /\ tx.step # "idle" /\ failures < MaxFailures
  /\ RollBack /\ failures' = failures + 1
  /\ UNCHANGED <<invoice, delivery, found>>

-----------------------------------------------------------------------------

Clean == \/ BeginCycle \/ DeleteAddresses \/ PickInvoices \/ DeleteInvoices
         \/ DeleteLetters \/ DeleteDeliveries \/ Commit

Next ==
  \/ \E i \in Invoices : \/ \E p \in Purposes : create_invoice(i, p)
                         \/ EndInvoice(i) \/ ClearPrepay(i) \/ InvoiceAges(i)
                         \/ find_invoice_by_subaddress_index(i)
  \/ RecordPayment
  \/ \E d \in Deliveries : MoveToDlq(d) \/ DeliveryAges(d)
  \/ Clean \/ Fail

\* The loop goes round.  Two statements with the same subquery find the same
\* rows again and again, since rows that nobody changes stay where they are.
Fairness == WF_vars(Clean) /\ SF_vars(DeleteDeliveries /\ tx'.step = "commit")

Spec == Init /\ [][Next]_vars
FairSpec == Spec /\ Fairness

-----------------------------------------------------------------------------
(* Properties. *)

\* The types of the variables.
TypeOK ==
  /\ invoice \in [Invoices -> [status : {"none", "open", "ended", "gone"},
                               old : BOOLEAN, addr : BOOLEAN, refs : SUBSET Referrers]]
  /\ delivery \in [Deliveries -> [age : {"none", "new", "old", "gone"},
                                  invoice : Invoices \cup {None}, letter : BOOLEAN]]
  /\ tx \in [step : {"idle", "addresses", "targets", "picked", "letters", "deliveries",
                     "commit"},
             addresses : SUBSET Invoices, invoices : SUBSET Invoices,
             letters : SUBSET Deliveries, deliveries : SUBSET Deliveries]
  /\ found \in Invoices \cup {None} /\ failures \in 0 .. MaxFailures

\* Nothing refers to an invoice that was deleted, and no dead letter to a
\* delivery that was: also when the payment, the delivery or the letter comes
\* between the look for old rows and their deletion ("Invoices with payments
\* are NOT deleted", data_retention.py:39).
NothingDangles ==
  /\ \A i \in Invoices : invoice[i].status = "gone" =>
       /\ invoice[i].refs = {}
       /\ \A d \in Deliveries : Kept(d) => delivery[d].invoice # i
  /\ \A d \in Deliveries : delivery[d].letter => Kept(d)

\* An invoice that can be paid, or was before its time was up, and one that a
\* subscription has asked for, can be found by its address: the cleaner,
\* which deletes addresses before it looks for their invoices, takes none of
\* theirs.
OpenHasAddress ==
  \A i \in Invoices :
     invoice[i].status = "open" \/ (Row(i) /\ invoice[i].refs \ {"payments"} # {})
       => invoice[i].addr

Target(i) == invoice[i].status = "ended" /\ invoice[i].old /\ invoice[i].refs = {}
Blocked == \E i \in Invoices : Target(i) /\ Referred(i)

\* As long as no target has a delivery, old invoices and deliveries go, however
\* many batches it takes and whatever was paid, queued or failed between two
\* statements.
OldRowsGo ==
  /\ \A i \in Invoices : Target(i) ~> (~ Target(i) \/ Blocked)
  /\ \A d \in Deliveries : delivery[d].age = "old" ~> (delivery[d].age = "gone" \/ Blocked)

\* Does NOT hold: "Expired/cancelled invoices: 48 hours after
\* expiry/cancellation" (data_retention.py:5).  A delivery tells of the
\* expiry, refers to the invoice, and stops its deletion and the whole cycle.
OldInvoicesGo == \A i \in Invoices : Target(i) ~> ~ Target(i)

\* Does NOT hold: a payment recorded between the two statements, or a batch
\* that is not the same, leaves an invoice without an address, where the
\* engine finds no further transfer.
AddressesStay == \A i \in Invoices : Row(i) => invoice[i].addr
=============================================================================
