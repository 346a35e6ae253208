----------------------------- MODULE Settlement -----------------------------
(***************************************************************************)
(* Settlement of invoices by Monero payments: the merchant API that        *)
(* creates and cancels invoices, the expirer, and the detection engine,    *)
(* which scans the wallet for transfers and polls the payments it has      *)
(* detected until they confirm or vanish.  The engine runs in every        *)
(* process, whose lease promises none of them a turn and keeps none from   *)
(* one: each cycle is that of some process.  Every handler is one step     *)
(* here (SettlementRace takes their database transactions apart).          *)
(*                                                                         *)
(* The wallet RPC is the environment: a transaction appears, is mined,     *)
(* gets buried under ten blocks, and may vanish again at any time.         *)
(***************************************************************************)
EXTENDS InvoiceRules

CONSTANTS
  Invoice,          \* the invoices, each with a subaddress of its own
  Tx,               \* the transactions
  Process,          \* the processes, each with a dict of its own
  Pays,             \* Pays[t][i]: atomic units t pays to i's subaddress
  Sum,              \* Sum[i][S]: what the transactions of S pay to i together
  Required,         \* Required[i]: the amount of invoice i
  Dust,             \* DUST_THRESHOLD_ATOMIC: smaller transfers are ignored
  OrphanThreshold,  \* TX_MISS_ORPHAN_THRESHOLD
  MaxRestarts,      \* bound: how often processes restart
  NoInvoice         \* a model value that is no invoice

ASSUME AmountAssumption ==
  /\ Pays \in [Tx -> [Invoice -> Nat]]
  /\ Required \in [Invoice -> Nat \ {0}]
  /\ Dust \in Nat \ {0}

ASSUME SumAssumption ==
  /\ Sum \in [Invoice -> [SUBSET Tx -> Nat]]
  /\ \A i \in Invoice :
       /\ Sum[i][{}] = 0
       /\ \A S \in SUBSET Tx : \A t \in Tx \ S : Sum[i][S \cup {t}] = Sum[i][S] + Pays[t][i]

ASSUME BoundAssumption ==
  /\ OrphanThreshold \in Nat \ {0}
  /\ MaxRestarts \in Nat

ASSUME NoInvoiceAssumption == NoInvoice \notin Invoice

VARIABLES
  wallet,    \* wallet[t]: what wallet-rpc answers about t
  status,    \* status[i]: Invoice.status, "none" before the row exists
  due,       \* due[i]: expires_at lies in the past
  pay,       \* pay[t]: Payment.status of the row for t, "none" without a row
  credited,  \* credited[t]: that row's invoice
  miss,      \* miss[p]: _tx_miss_counts, in the memory of p
  streak,    \* history: streak[p][t], p's polls in a row that did not find t
  restarts,  \* how often processes have restarted
  notified,  \* notified[t][e]: how many events e were queued for t (0, 1, 2+)
  told       \* told[i]: the last invoice event queued for i

invoiceVars == <<status, told>>
paymentVars == <<pay, credited, notified>>
pollVars    == <<miss, streak>>
vars == <<wallet, status, due, pay, credited, miss, streak, restarts, notified, told>>

Sight == {"absent", "pool", "shallow", "deep"}   \* deep: ten blocks or more
Counts == [PaymentEvents -> 0 .. 2]

TypeOK ==
  /\ wallet   \in [Tx -> Sight]
  /\ status   \in [Invoice -> InvoiceStatus \cup {"none"}]
  /\ due      \in [Invoice -> BOOLEAN]
  /\ pay      \in [Tx -> PaymentStatus \cup {"none"}]
  /\ credited \in [Tx -> Invoice \cup {NoInvoice}]
  /\ miss     \in [Process -> [Tx -> 0 .. OrphanThreshold - 1]]
  /\ streak   \in [Process -> [Tx -> 0 .. OrphanThreshold]]
  /\ restarts \in 0 .. MaxRestarts
  /\ notified \in [Tx -> Counts]
  /\ told     \in [Invoice -> InvoiceEvents \cup {"none"}]

Init ==
  /\ wallet   = [t \in Tx |-> "absent"]
  /\ status   = [i \in Invoice |-> "none"]
  /\ due      = [i \in Invoice |-> FALSE]
  /\ pay      = [t \in Tx |-> "none"]
  /\ credited = [t \in Tx |-> NoInvoice]
  /\ miss     = [p \in Process |-> [t \in Tx |-> 0]]
  /\ streak   = [p \in Process |-> [t \in Tx |-> 0]]
  /\ restarts = 0
  /\ notified = [t \in Tx |-> [e \in PaymentEvents |-> 0]]
  /\ told     = [i \in Invoice |-> "none"]

-----------------------------------------------------------------------------
\* The payment rows of invoice i, those that are detected or confirmed, and
\* sum_invoice_payments: the total of the confirmed ones.
PaymentsOf(i) == {t \in Tx : pay[t] # "none" /\ credited[t] = i}
ActivePayments(i) == {t \in PaymentsOf(i) : pay[t] \in {"detected", "confirmed"}}
ConfirmedPayments(i) == {t \in PaymentsOf(i) : pay[t] = "confirmed"}
Total(i) == Sum[i][ConfirmedPayments(i)]

\* The amount of a transaction reaches the subaddress of some other invoice.
Exclusive(i) == \A t \in Tx, j \in Invoice : Pays[t][i] > 0 /\ j # i => Pays[t][j] = 0

\* Mutants: only a new payment confirms; a confirmed one falls back when its
\* transaction is less deep than it was.
UpdatedStatus_OnlyAtCreation(before, sight) ==
  IF before = "none" /\ sight = "deep" THEN "confirmed"
  ELSE IF before = "none" THEN "detected" ELSE before
UpdatedStatus_FallsBack(before, sight) ==
  IF before = "orphaned" THEN before
  ELSE IF sight = "deep" THEN "confirmed" ELSE "detected"

\* _update_confirmations, and the status _create_payment starts with: a
\* payment confirms at ten blocks, an orphaned one is not updated any more.
UpdatedStatus(before, sight) ==
  IF before \in {"none", "detected"}
  THEN IF sight = "deep" THEN "confirmed" ELSE "detected"
  ELSE before

\* dispatch_events: queue the payment events of t and the invoice events of i.
Bump(n, by) == IF by /\ n < 2 THEN n + 1 ELSE n
Dispatch(t, paymentEvents, i, invoiceEvents) ==
  /\ notified' = [notified EXCEPT ![t] =
                    [e \in PaymentEvents |-> Bump(notified[t][e], e \in paymentEvents)]]
  /\ told' = [told EXCEPT ![i] =
                IF invoiceEvents = {} THEN @ ELSE CHOOSE e \in invoiceEvents : TRUE]

\* _recalculate_invoice_status, from the payments as the step leaves them.
Recalculate(i) ==
  status' = [status EXCEPT ![i] = Recalculated(@, Total(i)', Required[i])]

-----------------------------------------------------------------------------
(* The environment: time, the network and the wallet. *)

\* A transaction shows up (perhaps only once it is mined), is mined, is
\* buried, or vanishes: evicted, double spent, reorganised away, or unknown
\* to a wallet that is catching up.
WalletMoves ==
  {"absent"} \X {"pool", "shallow", "deep"} \cup
  {"pool"} \X {"absent", "shallow"} \cup
  {"shallow"} \X {"absent", "pool", "deep"} \cup
  {"deep"} \X {"absent"}

WalletChanges(t) ==
  /\ \A i \in Invoice : Pays[t][i] > 0 => status[i] # "none"
  /\ \E sight \in Sight : /\ <<wallet[t], sight>> \in WalletMoves
                          /\ wallet' = [wallet EXCEPT ![t] = sight]
  /\ UNCHANGED <<invoiceVars, due, paymentVars, pollVars, restarts>>

ExpiryPasses(i) ==
  /\ status[i] # "none" /\ ~ due[i]
  /\ due' = [due EXCEPT ![i] = TRUE]
  /\ UNCHANGED <<wallet, invoiceVars, paymentVars, pollVars, restarts>>

\* The miss counts live in a module-level dict: a restart forgets them.
Restart(p) ==
  /\ restarts < MaxRestarts
  /\ restarts' = restarts + 1
  /\ miss' = [miss EXCEPT ![p] = [t \in Tx |-> 0]]
  /\ UNCHANGED <<wallet, invoiceVars, due, paymentVars, streak>>

-----------------------------------------------------------------------------
(* The merchant API and the expirer. *)

\* A wallet that cannot make a subaddress leaves no row behind, so only the
\* success is a step.
create_invoice(i) ==
  /\ status[i] = "none"
  /\ status' = [status EXCEPT ![i] = "pending"]
  /\ UNCHANGED <<wallet, due, paymentVars, pollVars, restarts, told>>

\* Mutant: the payments of the invoice are not looked at.
cancel_invoice_Unchecked(i) ==
  /\ status[i] = "pending"
  /\ status' = [status EXCEPT ![i] = "cancelled"]
  /\ UNCHANGED <<wallet, due, paymentVars, pollVars, restarts, told>>

cancel_invoice(i) ==
  /\ status[i] = "pending"
  /\ ActivePayments(i) = {}
  /\ status' = [status EXCEPT ![i] = "cancelled"]
  /\ UNCHANGED <<wallet, due, paymentVars, pollVars, restarts, told>>

\* Mutant: any payment row, even an orphaned one, keeps the invoice pending.
Expirable_AnyPayment(i) == status[i] = "pending" /\ due[i] /\ PaymentsOf(i) = {}

Expirable(i) == status[i] = "pending" /\ due[i] /\ ActivePayments(i) = {}

\* Mutant: no event is queued for the invoices that expire.
expire_pending_invoices_Silent ==
  /\ \E i \in Invoice : Expirable(i)
  /\ status' = [i \in Invoice |-> IF Expirable(i) THEN "expired" ELSE status[i]]
  /\ UNCHANGED <<wallet, due, paymentVars, pollVars, restarts, told>>

\* One UPDATE over all pending invoices, and one event for each of them.
expire_pending_invoices ==
  /\ \E i \in Invoice : Expirable(i)
  /\ status' = [i \in Invoice |-> IF Expirable(i) THEN "expired" ELSE status[i]]
  /\ told'   = [i \in Invoice |-> IF Expirable(i) THEN "invoice.expired" ELSE told[i]]
  /\ UNCHANGED <<wallet, due, paymentVars, pollVars, restarts>>

-----------------------------------------------------------------------------
(* The detection engine. *)

\* One entry of get_transfers: transaction t at the subaddress of invoice i.
\* The row is found by the transaction's hash alone, so an entry of t for a
\* second invoice updates the first row.  The invoice recalculated is the
\* one of the entry.
ScanTransfer(t, i) ==
  /\ wallet[t] # "absent" /\ status[i] # "none" /\ Pays[t][i] >= Dust
  /\ LET after == UpdatedStatus(pay[t], wallet[t]) IN
     /\ pay' = [pay EXCEPT ![t] = after]
     /\ credited' = IF pay[t] = "none" THEN [credited EXCEPT ![t] = i] ELSE credited
     /\ IF pay[t] = "none" \/ after = "confirmed" THEN Recalculate(i) ELSE status' = status
     /\ Dispatch(t, PaymentEventsFor(pay[t], after, status[i]),
                 i, InvoiceEventsFor(status[i], status'[i]))
  /\ UNCHANGED <<wallet, due, pollVars, restarts>>

CountsMiss(p, t) ==
  streak' = [streak EXCEPT ![p][t] = IF @ < OrphanThreshold THEN @ + 1 ELSE @]
EndsMisses(p, t) == streak' = [streak EXCEPT ![p][t] = 0]

\* Mutants: one miss too many is tolerated; the count is not kept.
PollMisses_OneMore(p, t) ==
  /\ pay[t] = "detected" /\ wallet[t] = "absent"
  /\ miss[p][t] + 1 <= OrphanThreshold
  /\ miss' = [miss EXCEPT ![p][t] = @ + 1]
  /\ CountsMiss(p, t)
  /\ UNCHANGED <<wallet, invoiceVars, due, paymentVars, restarts>>
PollMisses_Uncounted(p, t) ==
  /\ pay[t] = "detected" /\ wallet[t] = "absent"
  /\ miss[p][t] + 1 < OrphanThreshold
  /\ CountsMiss(p, t)
  /\ UNCHANGED <<wallet, invoiceVars, due, paymentVars, miss, restarts>>

\* One payment of p's update_unconfirmed: not found, for its first polls.
PollMisses(p, t) ==
  /\ pay[t] = "detected" /\ wallet[t] = "absent"
  /\ miss[p][t] + 1 < OrphanThreshold
  /\ miss' = [miss EXCEPT ![p][t] = @ + 1]
  /\ CountsMiss(p, t)
  /\ UNCHANGED <<wallet, invoiceVars, due, paymentVars, restarts>>

\* Not found once too often: handle_reorg orphans the payment.
PollOrphans(p, t) ==
  /\ pay[t] = "detected" /\ wallet[t] = "absent"
  /\ miss[p][t] + 1 >= OrphanThreshold
  /\ LET i == credited[t] IN
     /\ pay' = [pay EXCEPT ![t] = "orphaned"]
     /\ UNCHANGED credited
     /\ Recalculate(i)
     /\ Dispatch(t, PaymentEventsFor("detected", "orphaned", status[i]),
                 i, InvoiceEventsFor(status[i], status'[i]))
  /\ miss' = [miss EXCEPT ![p][t] = 0]
  /\ CountsMiss(p, t)
  /\ UNCHANGED <<wallet, due, restarts>>

\* Mutants: the invoice is not recalculated; the miss count is kept.
PollFinds_NoRecalculation(p, t) ==
  /\ pay[t] = "detected" /\ wallet[t] # "absent"
  /\ LET after == UpdatedStatus(pay[t], wallet[t]) IN
     /\ pay' = [pay EXCEPT ![t] = after]
     /\ UNCHANGED <<credited, status>>
     /\ Dispatch(t, PaymentEventsFor("detected", after, status[credited[t]]), credited[t], {})
  /\ miss' = [miss EXCEPT ![p][t] = 0]
  /\ EndsMisses(p, t)
  /\ UNCHANGED <<wallet, due, restarts>>
PollFinds_KeepsMisses(p, t) ==
  /\ pay[t] = "detected" /\ wallet[t] = "pool"
  /\ EndsMisses(p, t)
  /\ UNCHANGED <<wallet, invoiceVars, due, paymentVars, miss, restarts>>

\* Found: p drops its own miss count, and at ten blocks the payment confirms
\* and its invoice is recalculated.
PollFinds(p, t) ==
  /\ pay[t] = "detected" /\ wallet[t] # "absent"
  /\ LET i     == credited[t]
         after == UpdatedStatus(pay[t], wallet[t]) IN
     /\ pay' = [pay EXCEPT ![t] = after]
     /\ UNCHANGED credited
     /\ IF after = "confirmed" THEN Recalculate(i) ELSE status' = status
     /\ Dispatch(t, PaymentEventsFor("detected", after, status[i]),
                 i, InvoiceEventsFor(status[i], status'[i]))
  /\ miss' = [miss EXCEPT ![p][t] = 0]
  /\ EndsMisses(p, t)
  /\ UNCHANGED <<wallet, due, restarts>>

Poll(p, t) == PollMisses(p, t) \/ PollOrphans(p, t) \/ PollFinds(p, t)

Next ==
  \/ \E t \in Tx : WalletChanges(t)
  \/ \E p \in Process, t \in Tx : Poll(p, t)
  \/ \E i \in Invoice : ExpiryPasses(i) \/ create_invoice(i) \/ cancel_invoice(i)
  \/ \E t \in Tx, i \in Invoice : ScanTransfer(t, i)
  \/ expire_pending_invoices
  \/ \E p \in Process : Restart(p)

Spec == Init /\ [][Next]_vars

\* The engine and the expirer are loops that run for ever: whatever they
\* could do continuously gets done, by one process or another.  Nobody owes a
\* wallet change, a cancel, or a restart.
Fairness ==
  /\ \A t \in Tx : WF_vars(\E p \in Process : Poll(p, t))
  /\ \A t \in Tx, i \in Invoice : WF_vars(ScanTransfer(t, i))
  /\ WF_vars(expire_pending_invoices)

FairSpec == Spec /\ Fairness

-----------------------------------------------------------------------------
(* Properties *)

\* The status of an invoice row agrees with the total of its confirmed
\* payments, whatever the order in which transfers, polls, restarts, expiry
\* and cancellation came (_recalculate_invoice_status).
Fits(s, total, required) ==
  /\ s = "paid"           => total >= required /\ ~ total > required
  /\ s = "overpaid"       => total > required
  /\ s = "partially_paid" => total > 0 /\ ~ total >= required
  /\ s = "pending"        => ~ total > 0
  /\ s = "late_paid"      => total >= required
  /\ s = "expired"        => ~ total >= required
StatusAgreesWithTotal ==
  \A i \in Invoice : Exclusive(i) => Fits(status[i], Total(i), Required[i])

\* The last invoice event queued for an invoice names the status it has: a
\* merchant who follows the webhooks is never left with an outdated status.
EventOf(s) ==
  CASE s = "paid"           -> "invoice.paid"
    [] s = "overpaid"       -> "invoice.overpaid"
    [] s = "partially_paid" -> "invoice.partially_paid"
    [] s = "late_paid"      -> "invoice.late_paid"
    [] s = "expired"        -> "invoice.expired"
    [] OTHER                -> "none"
MerchantInSync == \A i \in Invoice : told[i] = EventOf(status[i])

\* Every payment that stands on a cancelled invoice was announced as an
\* exception: the merchant can refund it (process_transfer, cancel_invoice).
CancelledPaymentsAnnounced ==
  \A i \in Invoice : status[i] = "cancelled" =>
    \A t \in ActivePayments(i) : notified[t]["invoice.exception_payment"] = 1

\* However often a transfer is scanned and polled, its detection is announced
\* once, its confirmation at most once and only when it is confirmed, and an
\* exception at most once.
AnnouncedOnce ==
  \A t \in Tx :
    /\ notified[t]["payment.detected"] = (IF pay[t] = "none" THEN 0 ELSE 1)
    /\ notified[t]["payment.confirmed"] <= (IF pay[t] = "confirmed" THEN 1 ELSE 0)
    /\ notified[t]["invoice.exception_payment"] <= (IF pay[t] = "none" THEN 0 ELSE 1)

\* A payment is given up only by a process that has itself missed it
\* OrphanThreshold polls in a row: a hit of its own in between starts the count
\* again, and a restart never shortens it.  It is not OrphanThreshold polls of
\* the engine in a row: _tx_miss_counts is each process's own, so that a hit in
\* one leaves the count of another, which goes on counting when the lease comes
\* back to it.
OrphanedAfterMisses ==
  \A t \in Tx : pay[t] = "orphaned" => \E p \in Process : streak[p][t] = OrphanThreshold

\* A transaction that stays buried ends up confirmed, unless it was orphaned.
BuriedConfirms ==
  \A t \in Tx : (\E i \in Invoice : Pays[t][i] >= Dust) =>
    (<>[](wallet[t] = "deep") => <>[](pay[t] \in {"confirmed", "orphaned"}))

\* A payment whose transaction is gone for good does not stay "detected", so
\* it does not keep a pending invoice from being cancelled or from expiring.
VanishedIsGivenUp ==
  \A t \in Tx : <>[](wallet[t] = "absent") => <>[](pay[t] # "detected")

\* An invoice past its time with no payment standing does not stay pending.
DueExpires ==
  \A i \in Invoice : due[i] /\ ActivePayments(i) = {} ~>
                       status[i] # "pending" \/ ActivePayments(i) # {}

(* What the documentation promises and the code does not do *)

\* Does NOT hold.  README.md: "Automatic reversal if confirmed payment is orphaned".  A
\* confirmed payment whose transaction is gone for good is not left confirmed.
\* (get_unconfirmed_payments polls detected payments only.)
ReorgIsReversed ==
  \A t \in Tx : <>[](wallet[t] = "absent") => <>[](pay[t] # "confirmed")

(***************************************************************************)
(* The ledger this module implements: the phase is read off the status,    *)
(* and a confirmed payment is a credit.                                    *)
(***************************************************************************)
PhaseOf(s) == CASE s = "none"                      -> "unborn"
                [] s = "cancelled"                 -> "void"
                [] s \in {"expired", "late_paid"}  -> "late"
                [] OTHER                           -> "open"

Ledger == INSTANCE PaymentLedger
            WITH phase   <- [i \in Invoice |-> PhaseOf(status[i])],
                 credits <- [i \in Invoice |-> ConfirmedPayments(i)]
ImplementsLedger == Ledger!Spec

=============================================================================
