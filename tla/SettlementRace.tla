--------------------------- MODULE SettlementRace ---------------------------
(***************************************************************************)
(* The database transactions behind Settlement, for one invoice.           *)
(*                                                                         *)
(* A cycle of the detection engine is one transaction: it handles many     *)
(* transfers and polls and commits at the end, or rolls back.  While it is *)
(* open, the merchant's cancel request and the expirer run in transactions *)
(* of their own.  The database is PostgreSQL at READ COMMITTED: a read     *)
(* sees what is committed now (or one's own writes), an UPDATE takes the   *)
(* row's lock until commit, and an ORM object writes its status back       *)
(* without looking at the row again.  A session that loads an invoice a    *)
(* second time gets the object it has, with the status it had, if it still *)
(* has it.  No statement of the code takes a lock on the invoice before it *)
(* decides (no FOR UPDATE).                                                *)
(***************************************************************************)
EXTENDS InvoiceRules

CONSTANTS Tx,        \* the transactions that pay the invoice
          Amount,    \* Amount[t]: what t pays
          Sum,       \* Sum[S]: what the transactions of S pay together
          Required   \* the invoice's amount

ASSUME RaceAssumption ==
  /\ Amount \in [Tx -> Nat \ {0}] /\ Required \in Nat \ {0}
  /\ Sum \in [SUBSET Tx -> Nat] /\ Sum[{}] = 0
  /\ \A S \in SUBSET Tx : \A t \in Tx \ S : Sum[S \cup {t}] = Sum[S] + Amount[t]

VARIABLES
  \* committed rows
  status,    \* Invoice.status
  pay,       \* pay[t]: Payment.status, "none" without a row
  found,     \* found[t]: payment.detected deliveries queued (0, 1, 2+)
  told,      \* the last invoice event queued
  \* the engine's transaction
  step,      \* "idle", "open", "loaded" or "refreshed"
  wstatus,   \* the status it has written, "clean" if it has not
  wpay,      \* its view of the payments (nobody else writes them)
  wfound,    \* its view of found
  wtold,     \* the invoice event it queued last, "clean" if none
  cached,    \* the status of the invoice object in its session, "none" without one
  item,      \* the transfer in hand: transaction, its old status, old invoice status
  seen,      \* what db.refresh read, "none" if nothing is recalculated
  \* the cancel request
  cancel     \* "idle", or "checked": may cancel, has not written yet

committed == <<status, pay, found, told>>
working   == <<wstatus, wpay, wfound, wtold, cached>>
vars == <<committed, step, working, item, seen, cancel>>

NoItem == [t |-> "none", before |-> "none", statusBefore |-> "none"]
Rows == [Tx -> PaymentStatus \cup {"none"}]

TypeOK ==
  /\ status \in InvoiceStatus /\ wstatus \in InvoiceStatus \cup {"clean"}
  /\ pay \in Rows /\ wpay \in Rows
  /\ found \in [Tx -> 0 .. 2] /\ wfound \in [Tx -> 0 .. 2]
  /\ told \in InvoiceEvents \cup {"none"} /\ wtold \in InvoiceEvents \cup {"clean"}
  /\ cached \in InvoiceStatus \cup {"none"}
  /\ step \in {"idle", "open", "loaded", "refreshed"}
  /\ item = NoItem \/ item \in [t : Tx, before : PaymentStatus \cup {"none"},
                                statusBefore : InvoiceStatus]
  /\ seen \in InvoiceStatus \cup {"none"}
  /\ cancel \in {"idle", "checked"}

Init ==
  /\ status = "pending" /\ wstatus = "clean"
  /\ pay = [t \in Tx |-> "none"] /\ wpay = pay
  /\ found = [t \in Tx |-> 0] /\ wfound = found
  /\ told = "none" /\ wtold = "clean" /\ cached = "none"
  /\ step = "idle" /\ item = NoItem /\ seen = "none"
  /\ cancel = "idle"

-----------------------------------------------------------------------------
Active(rows) == {t \in Tx : rows[t] \in {"detected", "confirmed"}}
TotalOf(rows) == Sum[{t \in Tx : rows[t] = "confirmed"}]

\* What the engine's session reads, and the invoice row's lock.
Visible == IF wstatus = "clean" THEN status ELSE wstatus
LockedByEngine == wstatus # "clean"

(* The engine. *)

BeginCycle ==
  /\ step = "idle"
  /\ step' = "open"
  /\ wstatus' = "clean" /\ wtold' = "clean" /\ wpay' = pay /\ wfound' = found
  /\ UNCHANGED <<committed, cached, item, seen, cancel>>

\* A transfer is scanned or polled: the invoice is loaded, from the database
\* or the session, which fixes the old status the events are derived from, and
\* the payment row is written.  It is found unconfirmed or confirmed, or given
\* up after repeated misses.
LoadInvoice(t) ==
  /\ step = "open"
  /\ \E s \in {Visible, cached} \ {"none"} :
        item' = [t |-> t, before |-> wpay[t], statusBefore |-> s]
  /\ \/ wpay[t] \in {"none", "detected"} /\ \E s \in {"detected", "confirmed"} :
          wpay' = [wpay EXCEPT ![t] = s]
     \/ wpay[t] = "detected" /\ wpay' = [wpay EXCEPT ![t] = "orphaned"]
     \/ wpay[t] \in {"confirmed", "orphaned"} /\ wpay' = wpay
  /\ step' = "loaded"
  /\ UNCHANGED <<committed, wstatus, wfound, wtold, cached, seen, cancel>>

GivenUp(before, after) == before = "detected" /\ after = "orphaned"

\* A new payment, a confirmed one and one just given up are recalculated.
Recalculates(before, after) ==
  before = "none" \/ after = "confirmed" \/ GivenUp(before, after)

\* _recalculate_invoice_status refreshes the invoice and sums its payments.
RefreshInvoice ==
  /\ step = "loaded"
  /\ seen' = IF Recalculates(item.before, wpay[item.t]) THEN Visible ELSE "none"
  /\ step' = "refreshed"
  /\ UNCHANGED <<committed, working, item, cancel>>

\* Mutant: the events are derived from the status seen at the refresh, not
\* from the status the invoice ends with.
FinishItem_StaleEvents ==
  /\ step = "refreshed"
  /\ LET target == Recalculated(seen, TotalOf(wpay), Required)
         writes == seen # "none" /\ target # seen
         events == IF seen = "none" THEN {} ELSE InvoiceEventsFor(item.statusBefore, seen) IN
     /\ wstatus' = IF writes THEN target ELSE wstatus
     /\ wtold' = IF events = {} THEN wtold ELSE CHOOSE e \in events : TRUE
     /\ wfound' = [wfound EXCEPT ![item.t] =
                     IF item.before = "none" /\ @ < 2 THEN @ + 1 ELSE @]
     /\ cached' = seen
  /\ step' = "open" /\ item' = NoItem /\ seen' = "none"
  /\ UNCHANGED <<committed, wpay, cancel>>

\* update_status writes what follows from the status seen; the invoice is
\* refreshed once more, unless the payment was given up, and the events are
\* queued.
FinishItem ==
  /\ step = "refreshed"
  /\ LET target == Recalculated(seen, TotalOf(wpay), Required)
         writes == seen # "none" /\ target # seen
         now    == IF writes THEN target
                   ELSE IF GivenUp(item.before, wpay[item.t]) THEN seen ELSE Visible
         events == InvoiceEventsFor(item.statusBefore, now) IN
     /\ wstatus' = IF writes THEN target ELSE wstatus
     /\ wtold' = IF events = {} THEN wtold ELSE CHOOSE e \in events : TRUE
     /\ wfound' = [wfound EXCEPT ![item.t] =
                     IF item.before = "none" /\ @ < 2 THEN @ + 1 ELSE @]
     /\ cached' = now
  /\ step' = "open" /\ item' = NoItem /\ seen' = "none"
  /\ UNCHANGED <<committed, wpay, cancel>>

CommitCycle ==
  /\ step = "open"
  /\ status' = Visible
  /\ pay' = wpay /\ found' = wfound
  /\ told' = IF wtold = "clean" THEN told ELSE wtold
  /\ step' = "idle" /\ wstatus' = "clean" /\ wtold' = "clean" /\ cached' = "none"
  /\ UNCHANGED <<wpay, wfound, item, seen, cancel>>

\* Mutant: the deliveries are committed on their own, before the rollback.
RollBack_KeepsDeliveries ==
  /\ step # "idle"
  /\ step' = "idle" /\ wstatus' = "clean" /\ wtold' = "clean" /\ cached' = "none"
  /\ found' = wfound
  /\ wpay' = pay /\ item' = NoItem /\ seen' = "none"
  /\ UNCHANGED <<status, pay, told, wfound, cancel>>

\* A database error, a cancelled task or a crash: everything is rolled back.
RollBack ==
  /\ step # "idle"
  /\ step' = "idle" /\ wstatus' = "clean" /\ wtold' = "clean" /\ cached' = "none"
  /\ wpay' = pay /\ wfound' = found /\ item' = NoItem /\ seen' = "none"
  /\ UNCHANGED <<committed, cancel>>

(* The cancel request: cancel_invoice reads, and its flush writes. *)

CancelChecks ==
  /\ cancel = "idle"
  /\ status = "pending" /\ Active(pay) = {}
  /\ cancel' = "checked"
  /\ UNCHANGED <<committed, step, working, item, seen>>

CancelWrites ==
  /\ cancel = "checked" /\ ~ LockedByEngine
  /\ status' = "cancelled"
  /\ cancel' = "idle"
  /\ UNCHANGED <<pay, found, told, step, working, item, seen>>

(* The expirer: one UPDATE, which waits for the row and checks it again. *)

ExpireUpdates ==
  /\ status = "pending" /\ Active(pay) = {} /\ ~ LockedByEngine
  /\ status' = "expired" /\ told' = "invoice.expired"
  /\ UNCHANGED <<pay, found, step, working, item, seen, cancel>>

Engine == \/ BeginCycle \/ \E t \in Tx : LoadInvoice(t)
          \/ RefreshInvoice \/ FinishItem \/ CommitCycle \/ RollBack

Next == Engine \/ CancelChecks \/ CancelWrites \/ ExpireUpdates

Spec == Init /\ [][Next]_vars

-----------------------------------------------------------------------------
(* What survives the races *)

\* In every committed state the status fits the total of the confirmed
\* payments: no interleaving leaves a paid invoice unpaid or the other way
\* round, unless it is cancelled.
CommittedStatusFits ==
  LET total == TotalOf(pay) IN
  /\ status = "paid"           => total = Required
  /\ status = "overpaid"       => total > Required
  /\ status = "partially_paid" => total \in 1 .. Required - 1
  /\ status = "pending"        => total = 0
  /\ status = "late_paid"      => total >= Required
  /\ status = "expired"        => total < Required

\* A payment row and the delivery that announces it are committed together:
\* rolled-back cycles neither lose nor repeat an announcement.
DetectionAnnouncedOnce ==
  \A t \in Tx : found[t] = (IF pay[t] = "none" THEN 0 ELSE 1)

\* Unless the invoice is cancelled, the last invoice event tells its status.
MerchantInSync ==
  status # "cancelled" =>
    told = CASE status = "paid"           -> "invoice.paid"
             [] status = "overpaid"       -> "invoice.overpaid"
             [] status = "partially_paid" -> "invoice.partially_paid"
             [] status = "late_paid"      -> "invoice.late_paid"
             [] status = "expired"        -> "invoice.expired"
             [] OTHER                     -> "none"

(* What does not *)

\* Does NOT hold.  cancel_invoice: "Only pending invoices can be cancelled."
\* An invoice to which the engine has credited money between the request's
\* check and its write is not turned into a cancelled one.
SettledIsNotCancelled ==
  [][(status \in {"partially_paid", "paid", "overpaid", "late_paid"}) => status' # "cancelled"]_vars
=============================================================================
