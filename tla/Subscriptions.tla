---------------------------- MODULE Subscriptions ----------------------------
(***************************************************************************)
(* Subscriptions: their life cycle over the API, the renewal sweep with    *)
(* its trial, renewal and grace phases, prepaid periods, and the hook that *)
(* runs when an invoice is paid.  Time is counted in days; "now" is a      *)
(* moment after the start of `day', so a time t has come (t <= now) and    *)
(* has passed (t < now) when t <= day.                                     *)
(*                                                                         *)
(* An API request is one transaction that holds the subscription's row     *)
(* lock, hence one action.  The sweep is not: it keeps a batch locked      *)
(* while it works through it, and the grace check reads without a lock,    *)
(* writes row by row, and commits at the end.                              *)
(***************************************************************************)
EXTENDS Integers, FiniteSets, InvoiceRules

CONSTANTS
  Subs,           \* subscriptions
  MaxInvoices,    \* bound: invoices ever created
  MaxDay,         \* bound: the last day
  Intervals,      \* billing intervals of new subscriptions, in days
  NewIntervals,   \* billing intervals a subscription is changed to
  TrialDays,      \* lengths of a trial; 0 for none
  StartOffsets,   \* start_at, in days from the creation
  Plans,          \* numbers of periods a merchant sells in advance
  Soft, Hard      \* grace_days_soft, grace_days_hard

Invoices  == 1 .. MaxInvoices
NoInvoice == 0

ASSUME ConstantsAssumption ==
  /\ Subs # {} /\ IsFiniteSet(Subs)
  /\ MaxInvoices \in Nat /\ MaxDay \in Nat
  /\ Intervals \subseteq Nat \ {0} /\ NewIntervals \subseteq Nat \ {0}
  /\ TrialDays \subseteq Nat /\ StartOffsets \subseteq Int
  /\ Plans \subseteq Nat \ {0}
  /\ Soft \in Nat /\ Hard \in Nat /\ Soft <= Hard

VARIABLES
  day,
  subs,      \* the rows of subscriptions, as committed
  invoices,  \* the rows of invoices
  payments,  \* the rows of subscription_payments: an invoice and its period
  stage,     \* what the renewer does next
  batch,     \* the renewer session's copies of the rows it selected last
  todo,      \* rows of the batch it has not worked through yet
  picked,    \* rows its current grace query returned, not written yet
  draft      \* statuses its grace check has written and not committed

rows  == <<subs, invoices, payments>>
sweep == <<stage, batch, todo, picked, draft>>
vars  == <<day, rows, sweep>>

-----------------------------------------------------------------------------
SubscriptionStatus == {"active", "paused", "past_due", "cancelled", "expired", "trialing"}
TERMINAL_STATUSES  == {"cancelled", "expired"}
OpenStatuses       == {"pending", "partially_paid"}

\* A row of subscriptions; its status is "none" until it is created.
Subscription ==
  [status    : SubscriptionStatus \cup {"none"},
   interval  : Nat \ {0},
   pending   : Nat,                        \* pending_interval_days, 0 for NULL
   anchor    : Int,                        \* billing_anchor_at
   next_due  : Int,
   trial_end : Int,
   prepay    : Invoices \cup {NoInvoice}]  \* prepay_invoice_id

NoRow == [status |-> "none", interval |-> 1, pending |-> 0, anchor |-> 0,
          next_due |-> 0, trial_end |-> 0, prepay |-> NoInvoice]

\* A row of invoices.  periods = 0 makes it a renewal invoice, otherwise it
\* is a prepay invoice for that many periods.
Invoice == [status : InvoiceStatus \cup {"none"}, expires : Int, sub : Subs, periods : Nat]
Payment == [sub : Subs, invoice : Invoices, start : Int, end : Int]
Stages  == {"idle", "trials", "select", "batch", "soft", "hard", "recover", "commit"}

TypeOK ==
  /\ day \in 0 .. MaxDay
  /\ subs \in [Subs -> Subscription]
  /\ invoices \in [Invoices -> Invoice]
  /\ payments \subseteq Payment
  /\ stage \in Stages
  /\ batch \in [Subs -> Subscription]
  /\ todo \subseteq Subs
  /\ picked \subseteq Subs
  /\ draft \in [Subs -> SubscriptionStatus \cup {"none"}]

Nothing == [s \in Subs |-> "none"]

Init ==
  /\ day = 0
  /\ subs = [s \in Subs |-> NoRow]
  /\ invoices = [i \in Invoices |-> [status |-> "none", expires |-> 0,
                                    sub |-> CHOOSE s \in Subs : TRUE, periods |-> 0]]
  /\ payments = {}
  /\ stage = "idle"
  /\ batch = [s \in Subs |-> NoRow]
  /\ todo = {} /\ picked = {}
  /\ draft = Nothing

-----------------------------------------------------------------------------
\* Mutant: the batch is selected without a lock.
BatchRows_NoLock == {}

(***************************************************************************)
(* The rows the renewer keeps locked: its batch until it commits it, and   *)
(* what its grace check has written.  A request for one of them waits.     *)
(***************************************************************************)
BatchRows == {s \in Subs : stage = "batch" /\ batch[s].status # "none"}

Locked == BatchRows \cup {s \in Subs : draft[s] # "none"}

Free          == {i \in Invoices : invoices[i].status = "none"}
FreshInvoice  == CHOOSE i \in Free : TRUE
Linked(s)     == {p \in payments : p.sub = s}
StatusOf(p)   == invoices[p.invoice].status
OpenPayments(s) == {p \in Linked(s) : StatusOf(p) \in OpenStatuses}
PaidPayments(s) == {p \in Linked(s) : StatusOf(p) \in PaidStatuses}

\* Mutant: the periods passed are rounded down instead of up.
calculate_next_due_Floor(anchor, interval, d) ==
  IF d < anchor THEN anchor + interval
  ELSE anchor + interval * ((d - anchor) \div interval)

(***************************************************************************)
(* The first point of the grid anchor + k * interval, k >= 1, after now.   *)
(* It is after the due date as well, so a renewal moves the due date on.   *)
(***************************************************************************)
calculate_next_due(anchor, interval, d) ==
  IF interval = 0 THEN d
  ELSE IF d < anchor THEN anchor + interval
  ELSE anchor + interval * ((d - anchor) \div interval + 1)

\* Mutant: a pending interval that is NULL is applied as well.
apply_pending_changes_Null(r) == [r EXCEPT !.interval = r.pending, !.pending = 0]

apply_pending_changes(r) ==
  IF r.pending = 0 THEN r ELSE [r EXCEPT !.interval = r.pending, !.pending = 0]

\* Mutant: the check for unpaid invoices is left out.
MayRenew_NoUnpaidCheck(s, r) == \A p \in Linked(s) : p.start # r.next_due

\* No period may start where one has, and no invoice may still be open.
MayRenew(s, r) ==
  /\ \A p \in Linked(s) : p.start # r.next_due
  /\ OpenPayments(s) = {}

\* A renewal that succeeds: an invoice, its period, and the next due date.
Renewed(s, r) ==
  [row      |-> [r EXCEPT !.next_due = calculate_next_due(r.anchor, r.interval, day)],
   invoices |-> [invoices EXCEPT ![FreshInvoice] =
                   [status |-> "pending", expires |-> day + Soft + Hard, sub |-> s, periods |-> 0]],
   payments |-> payments \cup {[sub |-> s, invoice |-> FreshInvoice,
                                start |-> r.next_due, end |-> r.next_due + r.interval]}]

Unchanged(r) == [row |-> r, invoices |-> invoices, payments |-> payments]

(***************************************************************************)
(* What create_renewal_invoice(s) may do with the session's row r: skip,   *)
(* fail at the wallet (SkipRenewalError and WalletUnavailableError are     *)
(* both caught by the callers, which commit; a pending change stays        *)
(* applied), or succeed.                                                   *)
(***************************************************************************)
create_renewal_invoice(s, r) ==
  IF ~ MayRenew(s, r) THEN {Unchanged(r)}
  ELSE LET applied == apply_pending_changes(r) IN
       {Unchanged(applied)} \cup (IF Free = {} THEN {} ELSE {Renewed(s, applied)})

\* The unit of work writes the columns in which the session's row changed.
Flushed(row, old, new) ==
  [row EXCEPT !.status   = IF new.status   = old.status   THEN @ ELSE new.status,
              !.interval = IF new.interval = old.interval THEN @ ELSE new.interval,
              !.pending  = IF new.pending  = old.pending  THEN @ ELSE new.pending,
              !.next_due = IF new.next_due = old.next_due THEN @ ELSE new.next_due,
              !.prepay   = IF new.prepay   = old.prepay   THEN @ ELSE new.prepay]

Apply(s, old, result) ==
  /\ subs' = [subs EXCEPT ![s] = Flushed(@, old, result.row)]
  /\ invoices' = result.invoices
  /\ payments' = result.payments

-----------------------------------------------------------------------------
(***************************************************************************)
(* The API.                                                                *)
(***************************************************************************)
\* Bound: requests and days leave an invoice for each subscription's renewal.
Room(n) == Cardinality(Free) >= Cardinality(Subs) + n

\* The row a new subscription starts with.
NewRow(interval, trial, offset) ==
  [status    |-> IF trial > 0 THEN "trialing" ELSE "active",
   interval  |-> interval,
   pending   |-> 0,
   anchor    |-> day + offset,
   next_due  |-> IF trial > 0 THEN day + trial ELSE day + offset,
   trial_end |-> day + trial,
   prepay    |-> NoInvoice]

\* The first invoice is attempted at once unless the start is still to come.
Create(s, row, billed) ==
  IF billed
  THEN \E result \in create_renewal_invoice(s, row) :
         /\ subs' = [subs EXCEPT ![s] = result.row]
         /\ invoices' = result.invoices
         /\ payments' = result.payments
  ELSE subs' = [subs EXCEPT ![s] = row] /\ UNCHANGED <<invoices, payments>>

create_subscription(s) ==
  /\ subs[s].status = "none" /\ Room(1)
  /\ \E interval \in Intervals, trial \in TrialDays, offset \in StartOffsets :
       Create(s, NewRow(interval, trial, offset), trial = 0 /\ offset <= 0)
  /\ UNCHANGED <<day, sweep>>

update_subscription(s) ==
  /\ s \notin Locked
  /\ subs[s].status \notin TERMINAL_STATUSES \cup {"none"}
  /\ \E interval \in NewIntervals \cup {0} : subs' = [subs EXCEPT ![s].pending = interval]
  /\ UNCHANGED <<day, invoices, payments, sweep>>

pause_subscription(s) ==
  /\ s \notin Locked
  /\ subs[s].status = "active"
  /\ subs' = [subs EXCEPT ![s].status = "paused"]
  /\ UNCHANGED <<day, invoices, payments, sweep>>

resume_subscription(s) ==
  /\ s \notin Locked
  /\ subs[s].status = "paused"
  /\ subs' = [subs EXCEPT ![s].status = "active",
                          ![s].next_due = IF @ <= day THEN day ELSE @]
  /\ UNCHANGED <<day, invoices, payments, sweep>>

\* Pending invoices are cancelled too; one that already has a payment in
\* sight cannot be, and that failure is only logged.  Each of them is read and
\* written as in cancel_invoice, and what a late write goes over, cancel_invoice
\* shows.
cancel_subscription(s) ==
  /\ s \notin Locked
  /\ subs[s].status \notin TERMINAL_STATUSES \cup {"none"}
  /\ subs' = [subs EXCEPT ![s].status = "cancelled"]
  /\ \E gone \in SUBSET {p.invoice : p \in {q \in Linked(s) : StatusOf(q) = "pending"}} :
       invoices' = [i \in Invoices |->
                      IF i \in gone THEN [invoices[i] EXCEPT !.status = "cancelled"] ELSE invoices[i]]
  /\ UNCHANGED <<day, payments, sweep>>

create_prepay_invoice(s) ==
  /\ s \notin Locked /\ Room(1)
  /\ subs[s].status \in {"active", "past_due"}
  /\ subs[s].prepay = NoInvoice
  /\ \E periods \in Plans :
       LET days == periods * subs[s].interval IN
       invoices' = [invoices EXCEPT ![FreshInvoice] =
                      [status |-> "pending", expires |-> day + (IF days < 30 THEN days ELSE 30),
                       sub |-> s, periods |-> periods]]
  /\ subs' = [subs EXCEPT ![s].prepay = FreshInvoice]
  /\ UNCHANGED <<day, payments, sweep>>

-----------------------------------------------------------------------------
(***************************************************************************)
(* Invoices change: settled by the detection engine, which calls the hook  *)
(* in the same transaction when the invoice is newly paid, expired by the  *)
(* expirer, cancelled by the merchant.  The engine does not touch a paid   *)
(* invoice again: overpaying it calls no hook, and confirmed payments are  *)
(* never reversed (Settlement shows both).  It is taken to settle what it  *)
(* has read: the moment between its refresh of the row and its write, in   *)
(* which an unpaid invoice may be cancelled or expire, is SettlementRace's.*)
(***************************************************************************)
\* handle_prepay_payment: the periods start where the subscription is due.
Prepaid(s, i) ==
  {[sub |-> s, invoice |-> i, start |-> subs[s].next_due + (k - 1) * subs[s].interval,
    end |-> subs[s].next_due + k * subs[s].interval] : k \in 1 .. invoices[i].periods}

\* Mutant: the hook leaves the recovery to the grace check.
Recovered_Later(status) == status

Recovered(status) == IF status = "past_due" THEN "active" ELSE status

handle_prepay_payment(s, i) ==
  IF \E p \in payments : p.invoice = i
  THEN /\ subs' = [subs EXCEPT ![s].prepay = IF @ = i THEN NoInvoice ELSE @]
       /\ UNCHANGED payments
  ELSE /\ payments' = payments \cup Prepaid(s, i)
       /\ subs' = [subs EXCEPT ![s].next_due = @ + invoices[i].periods * subs[s].interval,
                               ![s].prepay = NoInvoice,
                               ![s].status = Recovered(@)]

handle_subscription_payment(s, i) ==
  IF invoices[i].periods > 0 THEN handle_prepay_payment(s, i)
  ELSE subs' = [subs EXCEPT ![s].status = Recovered(@)] /\ UNCHANGED payments

Settle(i) ==
  /\ invoices[i].sub \notin Locked
  /\ invoices[i].status \notin PaidStatuses
  /\ \E status \in {"partially_paid", "paid", "late_paid"} :
       /\ can_transition(invoices[i].status, status)
       /\ invoices' = [invoices EXCEPT ![i].status = status]
       /\ IF status \in PaidStatuses
          THEN handle_subscription_payment(invoices[i].sub, i)
          ELSE UNCHANGED <<subs, payments>>
  /\ UNCHANGED <<day, sweep>>

Close(i, status) ==
  /\ invoices[i].sub \notin BatchRows
  /\ invoices' = [invoices EXCEPT ![i].status = status]
  /\ UNCHANGED <<day, subs, payments, sweep>>

Expire(i) ==
  /\ invoices[i].status = "pending" /\ invoices[i].expires <= day
  /\ Close(i, "expired")

\* The request reads the invoice without a lock, finds it pending and without
\* payments, and writes "cancelled" at some later time over whatever it has
\* become (SettlementRace takes the two apart).  Every invoice starts like that,
\* so there may be a request under way for any of them that has read it then.
cancel_invoice(i) == invoices[i].status # "none" /\ Close(i, "cancelled")

-----------------------------------------------------------------------------
(***************************************************************************)
(* The renewer.  Trials that have ended become active and due now, and     *)
(* their first invoice is attempted: in one transaction that keeps their   *)
(* rows locked, so that each can be taken as a step of its own.            *)
(***************************************************************************)
TrialDue(s) == subs[s].status = "trialing" /\ subs[s].trial_end <= day
Due(s)      == subs[s].status = "active" /\ subs[s].next_due <= day

StartSweep ==
  /\ stage = "idle"
  /\ stage' = "trials"
  /\ UNCHANGED <<day, rows, batch, todo, picked, draft>>

EndTrial(s) ==
  /\ stage = "trials" /\ TrialDue(s)
  /\ LET row == [subs[s] EXCEPT !.status = "active", !.next_due = day] IN
     \E result \in create_renewal_invoice(s, row) : Apply(s, subs[s], result)
  /\ UNCHANGED <<day, sweep>>

TrialsDone ==
  /\ stage = "trials" /\ \A s \in Subs : ~ TrialDue(s)
  /\ stage' = "select"
  /\ UNCHANGED <<day, rows, batch, todo, picked, draft>>

(***************************************************************************)
(* The loop of run_sweep: select and lock what is due, until nothing is.   *)
(* A row the session still holds from the batch before is not read again:  *)
(* the session keeps its copy.                                             *)
(***************************************************************************)
SelectDue ==
  /\ stage = "select"
  /\ LET due == {s \in Subs : Due(s)} IN
     /\ batch' = [s \in Subs |-> IF s \notin due THEN NoRow
                                 ELSE IF batch[s].status # "none" THEN batch[s] ELSE subs[s]]
     /\ todo' = due
     /\ stage' = IF due = {} THEN "soft" ELSE "batch"
  /\ UNCHANGED <<day, rows, picked, draft>>

\* _check_prepay_guard: a prepay invoice pending or paid holds the renewal
\* back; anything else, a partly paid one included, is cleared.
PrepayHolds(r) ==
  r.prepay # NoInvoice /\ invoices[r.prepay].status \in {"pending"} \cup PaidStatuses

RenewDue(s) ==
  /\ stage = "batch" /\ s \in todo
  /\ todo' = todo \ {s}
  /\ IF PrepayHolds(batch[s])
     THEN UNCHANGED <<rows, batch>>
     ELSE \E result \in create_renewal_invoice(s, [batch[s] EXCEPT !.prepay = NoInvoice]) :
            /\ Apply(s, batch[s], result)
            /\ batch' = [batch EXCEPT ![s] = result.row]
  /\ UNCHANGED <<day, stage, picked, draft>>

CommitBatch ==
  /\ stage = "batch" /\ todo = {}
  /\ stage' = "select"
  /\ UNCHANGED <<day, rows, batch, todo, picked, draft>>

-----------------------------------------------------------------------------
(***************************************************************************)
(* check_grace_periods: three queries in one transaction, each followed by *)
(* one write per row it returned.  A query sees the check's own writes.    *)
(***************************************************************************)
Current(s) == IF draft[s] # "none" THEN draft[s] ELSE subs[s].status

Wanted(s) ==
  CASE stage = "soft"    -> /\ Current(s) = "active"
                            /\ \E p \in OpenPayments(s) : p.start + Soft <= day
    [] stage = "hard"    -> /\ Current(s) = "past_due"
                            /\ \E p \in OpenPayments(s) :
                                 /\ p.start + Hard <= day
                                 /\ invoices[p.invoice].expires <= day
    [] stage = "recover" -> /\ Current(s) = "past_due"
                            /\ PaidPayments(s) # {}
    [] OTHER             -> FALSE

GraceTarget == CASE stage = "soft" -> "past_due" [] stage = "hard" -> "expired" [] OTHER -> "active"
GraceNext   == CASE stage = "soft" -> "hard" [] stage = "hard" -> "recover" [] OTHER -> "commit"

GraceQuery ==
  /\ stage \in {"soft", "hard", "recover"} /\ picked = {}
  /\ picked' = {s \in Subs : Wanted(s)}
  /\ stage' = IF picked' = {} THEN GraceNext ELSE stage
  /\ UNCHANGED <<day, rows, batch, todo, draft>>

GraceWrite(s) ==
  /\ s \in picked
  /\ draft' = [draft EXCEPT ![s] = GraceTarget]
  /\ picked' = picked \ {s}
  /\ stage' = IF picked' = {} THEN GraceNext ELSE stage
  /\ UNCHANGED <<day, rows, batch, todo>>

GraceCommit ==
  /\ stage = "commit"
  /\ subs' = [s \in Subs |-> [subs[s] EXCEPT !.status = Current(s)]]
  /\ draft' = Nothing
  /\ stage' = "idle"
  /\ UNCHANGED <<day, invoices, payments, batch, todo, picked>>

(***************************************************************************)
(* The process dies or a database error ends the sweep: what is not        *)
(* committed is undone.  Nobody sees a batch before it is committed, so    *)
(* dying in the middle of one leaves what dying before it does.            *)
(***************************************************************************)
Crash ==
  /\ stage \notin {"idle", "batch"}
  /\ stage' = "idle"
  /\ batch' = [s \in Subs |-> NoRow]
  /\ todo' = {} /\ picked' = {} /\ draft' = Nothing
  /\ UNCHANGED <<day, rows>>

\* The day changes at any moment but between a batch and the next select,
\* where nothing is awaited but the database.
Tick ==
  /\ day < MaxDay /\ Room(0)
  /\ stage = "select" => \A s \in Subs : batch[s].status = "none"
  /\ day' = day + 1
  /\ UNCHANGED <<rows, sweep>>

Request(s) ==
  \/ create_subscription(s)
  \/ update_subscription(s)
  \/ pause_subscription(s)
  \/ resume_subscription(s)
  \/ cancel_subscription(s)
  \/ create_prepay_invoice(s)

Renewer ==
  \/ StartSweep \/ TrialsDone \/ SelectDue \/ CommitBatch \/ GraceQuery \/ GraceCommit
  \/ \E s \in Subs : EndTrial(s) \/ RenewDue(s) \/ GraceWrite(s)

Next ==
  \/ \E s \in Subs : Request(s)
  \/ \E i \in Invoices : Settle(i) \/ Expire(i) \/ cancel_invoice(i)
  \/ Renewer
  \/ Crash
  \/ Tick

Spec     == Init /\ [][Next]_vars
(***************************************************************************)
(* The renewer's loop and the expirer run forever; the wallet does not     *)
(* refuse a renewal that is tried again and again.                         *)
(***************************************************************************)
FairSpec ==
  /\ Spec /\ WF_vars(Renewer) /\ WF_vars(\E i \in Invoices : Expire(i))
  /\ \A s \in Subs : SF_vars(RenewDue(s) /\ payments' # payments)

-----------------------------------------------------------------------------
(***************************************************************************)
(* A subscriber never has two renewal invoices to pay at the same time:    *)
(* creation, trial end and renewals check for an unpaid one, and no way    *)
(* leads an invoice back to unpaid (_create_renewal_invoice, step 2) but   *)
(* one left to SettlementRace: a part payment the engine writes over a     *)
(* cancellation that was committed after it had read the row.              *)
(***************************************************************************)
OneOpenInvoice ==
  \A s \in Subs : \A p, q \in OpenPayments(s) : p.invoice = q.invoice

(***************************************************************************)
(* No period is billed twice, and the next one starts after all that were: *)
(* the due date only moves forward, whatever renewals, prepaid periods,    *)
(* pauses, interval changes and stale copies of the row come together.     *)
(***************************************************************************)
BilledOnce ==
  \A p \in payments :
    /\ p.start < subs[p.sub].next_due
    /\ \A q \in payments : p.sub = q.sub /\ p.start = q.start => p = q

(***************************************************************************)
(* A payment is never overlooked: whoever is past due has paid no invoice, *)
(* even if the payment fell between the query and the write of a grace     *)
(* check (handle_subscription_payment and the recovery query together).    *)
(* It also says that whoever has ever paid is never past due, unless a     *)
(* cancellation went over what was paid.                                   *)
(***************************************************************************)
PastDueIsUnpaid ==
  \A s \in Subs : subs[s].status = "past_due" => PaidPayments(s) = {}

(***************************************************************************)
(* Only an active subscription gets a renewal invoice: a pause or a        *)
(* cancellation cannot slip in between the selection of a batch and the    *)
(* renewal (with_for_update in run_sweep and _get_for_update).             *)
(***************************************************************************)
OnlyLiveAreBilled ==
  [][\A p \in payments' \ payments :
       invoices'[p.invoice].periods = 0 => subs'[p.sub].status = "active"]_vars

(***************************************************************************)
(* Requests, sweeps, stale copies, grace checks, crashes and payments at   *)
(* any time add up to an orderly calendar of billed periods.               *)
(***************************************************************************)
Calendar == INSTANCE BillingCalendar
ImplementsCalendar == Calendar!Spec

(***************************************************************************)
(* What the code does not do.  The renewer "sweeps every SWEEP_INTERVAL    *)
(* seconds" (docstring of its loop): a sweep that works on a batch ends.   *)
(* A due subscription that is skipped stays due, and the loop of run_sweep *)
(* selects it again, for as long as the reason lasts.                      *)
(***************************************************************************)
SweepEnds == stage = "batch" ~> stage = "idle"

(***************************************************************************)
(* Does NOT hold.                                                          *)
(* "past_due: Renewal invoice unpaid past soft grace" (docs/API.md): the   *)
(* grace check commits no subscription as active that has one.  Its        *)
(* recovery query asks for any paid invoice, also one of an earlier        *)
(* period, and undoes what its soft query has just done.                   *)
(***************************************************************************)
OverdueIsPastDue ==
  stage = "commit" =>
    \A s \in Subs : draft[s] = "active" => \A p \in OpenPayments(s) : p.start + Soft > day

(***************************************************************************)
(* Does NOT hold.                                                          *)
(* Cancelling "cannot be undone" (docs/API.md).  The grace check reads     *)
(* without a lock, and its write brings back a subscription cancelled in   *)
(* between.                                                                *)
(***************************************************************************)
CancelIsFinal ==
  [][\A s \in Subs : subs[s].status = "cancelled" => subs'[s].status = "cancelled"]_vars
=============================================================================
