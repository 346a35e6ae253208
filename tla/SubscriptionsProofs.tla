------------------------- MODULE SubscriptionsProofs -------------------------
(***************************************************************************)
(* Theorems about Subscriptions, for any subscriptions, intervals, plans,  *)
(* grace periods and bounds.                                               *)
(***************************************************************************)
EXTENDS Subscriptions, FiniteSetTheorems, TLAPS

USE ConstantsAssumption

\* The next due date is after now, whatever the anchor and the interval.
LEMMA NextDueIsAhead ==
  ASSUME NEW anchor \in Int, NEW interval \in Nat \ {0}, NEW d \in Nat
  PROVE  /\ calculate_next_due(anchor, interval, d) \in Int
         /\ calculate_next_due(anchor, interval, d) > d
<1>1. CASE d < anchor
  BY <1>1 DEF calculate_next_due
<1>2. CASE d >= anchor
  <2> DEFINE e == d - anchor
             q == e \div interval
  <2>1. e \in Nat
    BY <1>2
  <2>2. /\ q \in Nat
        /\ e < interval * (q + 1)
    BY <2>1
  <2>3. calculate_next_due(anchor, interval, d) = anchor + interval * (q + 1)
    BY <1>2 DEF calculate_next_due
  <2>4. interval * (q + 1) \in Nat
    BY <2>2
  <2> HIDE DEF q
  <2> QED
    BY <2>1, <2>2, <2>3, <2>4
<1> QED
  BY <1>1, <1>2

\* Multiples of an interval are ordered as their factors are.
LEMMA MultiplesOrdered ==
  ASSUME NEW a \in Nat, NEW b \in Nat, NEW k \in Nat \ {0}
  PROVE  /\ a * k \in Nat
         /\ a < b => a * k < b * k
  OBVIOUS

-----------------------------------------------------------------------------
\* A period has been added to the books: a fresh invoice for s, and a period
\* of it that starts at start.
Billed(s, start, inv, pay) ==
  \E i \in Free, expires \in Int, end \in Int :
    /\ inv = [invoices EXCEPT ![i] =
                [status |-> "pending", expires |-> expires, sub |-> s, periods |-> 0]]
    /\ pay = payments \cup {[sub |-> s, invoice |-> i, start |-> start, end |-> end]}

LEMMA FreshIsFree == Free # {} => FreshInvoice \in Free
BY DEF FreshInvoice

LEMMA AppliedRow ==
  ASSUME NEW r \in Subscription
  PROVE  /\ apply_pending_changes(r) \in Subscription
         /\ apply_pending_changes(r).status = r.status
         /\ apply_pending_changes(r).next_due = r.next_due
         /\ apply_pending_changes(r).anchor = r.anchor
BY DEF apply_pending_changes, Subscription

\* What an attempt to renew with the row r amounts to.
LEMMA RenewalOutcome ==
  ASSUME TypeOK, NEW s \in Subs, NEW r \in Subscription,
         NEW x \in create_renewal_invoice(s, r)
  PROVE  /\ x.row \in Subscription
         /\ x.row.status = r.status
         /\ \/ /\ x.row.next_due = r.next_due
               /\ x.invoices = invoices /\ x.payments = payments
            \/ /\ MayRenew(s, r)
               /\ x.row.next_due > day
               /\ Billed(s, r.next_due, x.invoices, x.payments)
<1> DEFINE a == apply_pending_changes(r)
<1>1. /\ a \in Subscription /\ a.status = r.status
      /\ a.next_due = r.next_due /\ a.anchor = r.anchor
  BY AppliedRow
<1>2. CASE x = Unchanged(r)
  BY <1>2 DEF Unchanged
<1>3. CASE x = Unchanged(a)
  BY <1>1, <1>3 DEF Unchanged
<1>4. CASE MayRenew(s, r) /\ Free # {} /\ x = Renewed(s, a)
  <2> DEFINE n == calculate_next_due(a.anchor, a.interval, day)
  <2>1. n \in Int /\ n > day
    <3>1. a.anchor \in Int /\ a.interval \in Nat \ {0} /\ day \in Nat
      <4> HIDE DEF a
      <4> QED
        BY <1>1 DEF TypeOK, Subscription
    <3> QED
      BY <3>1, NextDueIsAhead
  <2>2. x.row = [a EXCEPT !.next_due = n]
    BY <1>4 DEF Renewed
  <2>3. x.row \in Subscription /\ x.row.status = r.status /\ x.row.next_due > day
    <3> HIDE DEF a, n
    <3> QED
      BY <1>1, <2>1, <2>2 DEF Subscription
  <2>4. FreshInvoice \in Free
    BY <1>4, FreshIsFree
  <2>5. day + Soft + Hard \in Int /\ a.next_due + a.interval \in Int
    BY <1>1 DEF TypeOK, Subscription
  <2>6. Billed(s, r.next_due, x.invoices, x.payments)
    <3> HIDE DEF a
    <3> QED
      BY <1>1, <1>4, <2>4, <2>5 DEF Renewed, Billed
  <2> QED
    BY <1>4, <2>3, <2>6
<1> QED
  BY <1>2, <1>3, <1>4 DEF create_renewal_invoice

\* What the unit of work writes: the columns that changed, nothing else.
LEMMA FlushedRow ==
  ASSUME NEW row \in Subscription, NEW old \in Subscription, NEW new \in Subscription
  PROVE  /\ Flushed(row, old, new) \in Subscription
         /\ Flushed(row, old, new).status = IF new.status = old.status THEN row.status ELSE new.status
         /\ Flushed(row, old, new).next_due = IF new.next_due = old.next_due THEN row.next_due
                                              ELSE new.next_due
<1> DEFINE st == IF new.status   = old.status   THEN row.status   ELSE new.status
           iv == IF new.interval = old.interval THEN row.interval ELSE new.interval
           pe == IF new.pending  = old.pending  THEN row.pending  ELSE new.pending
           nd == IF new.next_due = old.next_due THEN row.next_due ELSE new.next_due
           pp == IF new.prepay   = old.prepay   THEN row.prepay   ELSE new.prepay
<1>1. /\ st \in SubscriptionStatus \cup {"none"} /\ iv \in Nat \ {0} /\ pe \in Nat
      /\ nd \in Int /\ pp \in Invoices \cup {NoInvoice}
  BY DEF Subscription
<1>2. Flushed(row, old, new) = [row EXCEPT !.status = st, !.interval = iv, !.pending = pe,
                                           !.next_due = nd, !.prepay = pp]
  BY DEF Flushed
<1> HIDE DEF st, iv, pe, nd, pp
<1>3. /\ Flushed(row, old, new) \in Subscription
      /\ Flushed(row, old, new).status = st
      /\ Flushed(row, old, new).next_due = nd
  BY <1>1, <1>2 DEF Subscription
<1> QED
  BY <1>3 DEF st, nd

-----------------------------------------------------------------------------
\* What the other columns of the books say of each other.
Links ==
  /\ \A p \in payments :
       /\ invoices[p.invoice].status # "none"
       /\ invoices[p.invoice].sub = p.sub
       /\ invoices[p.invoice].periods > 0 => StatusOf(p) \in PaidStatuses \cup {"cancelled"}
  /\ \A i \in Invoices :
       invoices[i].status # "none" => subs[invoices[i].sub].status \notin {"none", "trialing"}
  /\ \A s \in Subs : subs[s].status = "trialing" => subs[s].next_due <= subs[s].trial_end

\* A copy the session holds may be old, but what it is still to bill is due.
BatchInv ==
  /\ \A s \in Subs : batch[s].status # "none" =>
       /\ subs[s].status \notin {"none", "trialing"}
       /\ batch[s].next_due <= subs[s].next_due
  /\ \A s \in todo : stage = "batch" /\ batch[s].status # "none" /\ Due(s)

\* From the recovery query on, what stays past due has paid nothing.
GraceInv ==
  /\ picked # {} => stage \in {"soft", "hard", "recover"}
  /\ \A s \in Subs : draft[s] # "trialing"
  /\ stage = "commit" \/ (stage = "recover" /\ picked # {}) =>
       \A s \in Subs \ picked : draft[s] = "past_due" => PaidPayments(s) = {}

Books == Links /\ OneOpenInvoice /\ BilledOnce /\ PastDueIsUnpaid
IInv  == TypeOK /\ Books /\ BatchInv /\ GraceInv

-----------------------------------------------------------------------------
LEMMA TypeInit == Init => TypeOK
<1> (CHOOSE s \in Subs : TRUE) \in Subs
  BY ConstantsAssumption
<1> QED
  BY DEF Init, TypeOK, Invoice, Subscription, NoRow, NoInvoice, Stages, Nothing

LEMMA BilledTypes ==
  ASSUME TypeOK, NEW s \in Subs, NEW start \in Int, Billed(s, start, invoices', payments')
  PROVE  invoices' \in [Invoices -> Invoice] /\ payments' \subseteq Payment
BY DEF TypeOK, Billed, Free, Invoice, InvoiceStatus, Payment

LEMMA NewRowType ==
  ASSUME TypeOK, NEW interval \in Intervals, NEW trial \in TrialDays, NEW offset \in StartOffsets
  PROVE  NewRow(interval, trial, offset) \in Subscription
BY DEF NewRow, TypeOK, Subscription, SubscriptionStatus

LEMMA AttemptTypes ==
  ASSUME TypeOK, NEW s \in Subs, NEW r \in Subscription,
         NEW x \in create_renewal_invoice(s, r), invoices' = x.invoices, payments' = x.payments
  PROVE  invoices' \in [Invoices -> Invoice] /\ payments' \subseteq Payment
<1>1. r.next_due \in Int
  BY DEF Subscription
<1> QED
  BY <1>1, RenewalOutcome, BilledTypes DEF TypeOK

-----------------------------------------------------------------------------
\* A step that bills no period: it may move a due date on and an invoice
\* along, but leads none back to unpaid, and a paid one only to a cancelled.
LEMMA BooksKept ==
  ASSUME TypeOK, TypeOK', Books, payments' = payments,
         \A i \in Invoices : invoices[i].status # "none" =>
           /\ invoices'[i].status # "none"
           /\ invoices'[i].sub = invoices[i].sub /\ invoices'[i].periods = invoices[i].periods
           /\ invoices'[i].status \in OpenStatuses => invoices[i].status \in OpenStatuses
           /\ invoices[i].status \in PaidStatuses \cup {"cancelled"} =>
                invoices'[i].status \in PaidStatuses \cup {"cancelled"},
         \A i \in Invoices :
           invoices'[i].status # "none" => subs'[invoices'[i].sub].status \notin {"none", "trialing"},
         \A s \in Subs :
           /\ subs[s].status # "none" => subs'[s].next_due >= subs[s].next_due
           /\ subs'[s].status = "trialing" => subs'[s].next_due <= subs'[s].trial_end
           /\ subs'[s].status = "past_due" => PaidPayments(s)' = {}
  PROVE  Books'
<1>1. \A p \in payments :
        /\ p.sub \in Subs /\ p.invoice \in Invoices /\ p.start \in Int
        /\ invoices[p.invoice].status # "none"
        /\ invoices[p.invoice].sub = p.sub
        /\ invoices[p.invoice].periods > 0 =>
             invoices[p.invoice].status \in PaidStatuses \cup {"cancelled"}
        /\ subs[p.sub].status # "none"
  BY DEF TypeOK, Payment, Books, Links, StatusOf
<1>2. Links'
  BY <1>1 DEF Links, StatusOf
<1>3. \A s \in Subs : OpenPayments(s)' \subseteq OpenPayments(s)
  BY <1>1 DEF OpenPayments, Linked, StatusOf
<1>4. OneOpenInvoice'
  BY <1>3 DEF OneOpenInvoice, Books
<1>5. BilledOnce'
  <2>1. \A p \in payments : p.start < subs'[p.sub].next_due
    <3> SUFFICES ASSUME NEW p \in payments PROVE p.start < subs'[p.sub].next_due
      OBVIOUS
    <3>1. p.start < subs[p.sub].next_due /\ subs'[p.sub].next_due >= subs[p.sub].next_due
      BY <1>1 DEF Books, BilledOnce
    <3>2. subs[p.sub].next_due \in Int /\ subs'[p.sub].next_due \in Int
      BY <1>1 DEF TypeOK, Subscription
    <3> QED
      BY <1>1, <3>1, <3>2
  <2> QED
    BY <2>1 DEF BilledOnce, Books
<1>6. PastDueIsUnpaid'
  BY DEF PastDueIsUnpaid
<1> QED
  BY <1>2, <1>4, <1>5, <1>6 DEF Books

\* A renewal: a period that starts where none has, billed to a subscriber
\* who owes nothing, with a due date moved past all that were billed.
LEMMA BooksBilled ==
  ASSUME TypeOK, TypeOK', Books, NEW s \in Subs, NEW start \in Int,
         Billed(s, start, invoices', payments'),
         \A p \in Linked(s) : p.start # start /\ p.start < subs'[s].next_due,
         OpenPayments(s) = {},
         start < subs'[s].next_due,
         subs'[s].status = "active",
         \A u \in Subs \ {s} : subs'[u] = subs[u]
  PROVE  Books' /\ \A u \in Subs : PaidPayments(u)' = PaidPayments(u)
<1> PICK i \in Free, expires \in Int, end \in Int :
      /\ invoices' = [invoices EXCEPT ![i] =
           [status |-> "pending", expires |-> expires, sub |-> s, periods |-> 0]]
      /\ payments' = payments \cup {[sub |-> s, invoice |-> i, start |-> start, end |-> end]}
  BY DEF Billed
<1> DEFINE new == [sub |-> s, invoice |-> i, start |-> start, end |-> end]
<1>0. i \in Invoices /\ invoices[i].status = "none"
  BY DEF Free
<1>1. \A p \in payments :
        /\ p.sub \in Subs /\ p.invoice \in Invoices /\ p.invoice # i
        /\ invoices'[p.invoice] = invoices[p.invoice]
        /\ invoices[p.invoice].sub = p.sub
  BY <1>0 DEF TypeOK, Payment, Books, Links
<1>2. invoices'[i] = [status |-> "pending", expires |-> expires, sub |-> s, periods |-> 0]
  BY <1>0 DEF TypeOK
<1>3. \A u \in Subs : PaidPayments(u)' = PaidPayments(u)
  BY <1>1, <1>2 DEF PaidPayments, Linked, StatusOf, PaidStatuses
<1>4. /\ OpenPayments(s)' = {new}
      /\ \A u \in Subs \ {s} : OpenPayments(u)' = OpenPayments(u)
  BY <1>1, <1>2 DEF OpenPayments, Linked, StatusOf, OpenStatuses
<1>5. Links'
  <2>1. \A p \in payments' :
          /\ invoices'[p.invoice].status # "none"
          /\ invoices'[p.invoice].sub = p.sub
          /\ invoices'[p.invoice].periods > 0 => StatusOf(p)' \in PaidStatuses \cup {"cancelled"}
    BY <1>1, <1>2 DEF Links, Books, StatusOf
  <2>2. \A j \in Invoices :
          invoices'[j].status # "none" => subs'[invoices'[j].sub].status \notin {"none", "trialing"}
    BY <1>0, <1>2 DEF Links, Books, TypeOK, Invoice
  <2>3. \A u \in Subs : subs'[u].status = "trialing" => subs'[u].next_due <= subs'[u].trial_end
    BY DEF Links, Books
  <2> QED
    BY <2>1, <2>2, <2>3 DEF Links
<1>6. OneOpenInvoice'
  BY <1>4 DEF OneOpenInvoice, Books
<1>7. BilledOnce'
  <2>1. \A p \in payments : p.start < subs'[p.sub].next_due
    BY <1>1 DEF Books, BilledOnce, Linked
  <2>2. \A p, q \in payments' : p.sub = q.sub /\ p.start = q.start => p = q
    BY <1>1 DEF Books, BilledOnce, Linked
  <2> QED
    BY <2>1, <2>2 DEF BilledOnce
<1>8. PastDueIsUnpaid'
  BY <1>3 DEF PastDueIsUnpaid, Books
<1> QED
  BY <1>3, <1>5, <1>6, <1>7, <1>8 DEF Books

\* An invoice with periods of its own is paid: they start where the
\* subscription is due, one after the other, and the due date follows them.
LEMMA BooksPrepaid ==
  ASSUME TypeOK, Books, NEW s \in Subs, NEW i \in Invoices, NEW status \in PaidStatuses,
         s = invoices[i].sub, invoices[i].periods > 0,
         invoices[i].status \notin PaidStatuses \cup {"none", "cancelled"},
         invoices' = [invoices EXCEPT ![i].status = status],
         handle_prepay_payment(s, i)
  PROVE  /\ subs' \in [Subs -> Subscription]
         /\ invoices' \in [Invoices -> Invoice] /\ payments' \subseteq Payment
         /\ Books'
         /\ subs'[s].next_due >= subs[s].next_due
         /\ subs'[s].status = Recovered(subs[s].status)
         /\ \A u \in Subs \ {s} : subs'[u] = subs[u] /\ PaidPayments(u)' = PaidPayments(u)
<1> DEFINE n  == invoices[i].periods
           iv == subs[s].interval
           nd == subs[s].next_due
<1>0. /\ n \in Nat \ {0} /\ iv \in Nat \ {0} /\ nd \in Int
      /\ subs[s] \in Subscription /\ subs[s].status \notin {"none", "trialing"}
  BY DEF TypeOK, Invoice, Subscription, Books, Links
<1>1. \A p \in payments :
        /\ p.sub \in Subs /\ p.invoice \in Invoices /\ p.invoice # i /\ p.start \in Int
        /\ invoices[p.invoice].sub = p.sub
        /\ p.start < subs[p.sub].next_due
  BY DEF TypeOK, Payment, Books, Links, StatusOf, BilledOnce
<1>2. /\ payments' = payments \cup Prepaid(s, i)
      /\ subs' = [subs EXCEPT ![s].next_due = nd + n * iv, ![s].prepay = NoInvoice,
                              ![s].status = Recovered(@)]
  BY <1>1 DEF handle_prepay_payment
<1>3. \A k \in 0 .. n : k * iv \in Nat /\ (k < n => k * iv < n * iv)
  BY <1>0, MultiplesOrdered
<1> DEFINE start(k) == nd + (k - 1) * iv
<1>4. \A k \in 1 .. n : start(k) \in Int /\ nd <= start(k) /\ start(k) < nd + n * iv
  <2> SUFFICES ASSUME NEW k \in 1 .. n
               PROVE  start(k) \in Int /\ nd <= start(k) /\ start(k) < nd + n * iv
    OBVIOUS
  <2>1. k - 1 \in 0 .. n /\ k - 1 < n
    BY <1>0
  <2>2. (k - 1) * iv \in Nat /\ (k - 1) * iv < n * iv /\ n * iv \in Nat
    BY <1>0, <1>3, <2>1
  <2> HIDE DEF iv, n, nd
  <2> QED
    BY <1>0, <2>2
<1>5. \A k, l \in 1 .. n : start(k) = start(l) => k = l
  <2> SUFFICES ASSUME NEW k \in 1 .. n, NEW l \in 1 .. n, k < l PROVE start(k) < start(l)
    <3> HIDE DEF start
    <3> QED
      BY <1>0, <1>4
  <2>1. k - 1 \in Nat /\ l - 1 \in Nat /\ k - 1 < l - 1
    BY <1>0
  <2>2. (k - 1) * iv < (l - 1) * iv /\ (k - 1) * iv \in Nat /\ (l - 1) * iv \in Nat
    BY <1>0, <2>1, MultiplesOrdered
  <2> HIDE DEF iv, n, nd
  <2> QED
    BY <1>0, <2>2
<1>6. \A p \in Prepaid(s, i) : \E k \in 1 .. n :
        p = [sub |-> s, invoice |-> i, start |-> start(k), end |-> nd + k * iv]
  BY DEF Prepaid
<1>7. /\ subs'[s].next_due = nd + n * iv /\ nd + n * iv \in Int /\ nd + n * iv >= nd
      /\ subs'[s].status = Recovered(subs[s].status)
      /\ \A u \in Subs \ {s} : subs'[u] = subs[u]
      /\ subs' \in [Subs -> Subscription]
  <2>1. n * iv \in Nat
    BY <1>0, <1>3
  <2>2. nd + n * iv \in Int /\ nd + n * iv >= nd
    <3> HIDE DEF n, iv, nd
    <3> QED
      BY <1>0, <2>1
  <2> DEFINE due == nd + n * iv
  <2> HIDE DEF due
  <2>3. subs' = [subs EXCEPT ![s] = [subs[s] EXCEPT !.next_due = due, !.prepay = NoInvoice,
                                                    !.status = Recovered(@)]]
    BY <1>2, <1>0 DEF due, TypeOK
  <2>4. due \in Int
    BY <2>2 DEF due
  <2>5. [subs[s] EXCEPT !.next_due = due, !.prepay = NoInvoice, !.status = Recovered(@)]
          \in Subscription
    BY <1>0, <2>4 DEF Subscription, Recovered, SubscriptionStatus
  <2>6. subs'[s].next_due = due /\ subs'[s].status = Recovered(subs[s].status)
    BY <2>3, <1>0 DEF TypeOK, Subscription
  <2> QED
    BY <2>2, <2>3, <2>5, <2>6 DEF due, TypeOK
<1>8. /\ invoices' \in [Invoices -> Invoice]
      /\ invoices'[i].status = status
      /\ \A j \in Invoices : /\ invoices'[j].sub = invoices[j].sub
                             /\ invoices'[j].periods = invoices[j].periods
                             /\ j # i => invoices'[j] = invoices[j]
  BY DEF TypeOK, Invoice, PaidStatuses, InvoiceStatus
<1>9. payments' \subseteq Payment
  <2>1. \A k \in 1 .. n : nd + k * iv \in Int
    BY <1>0, <1>3
  <2> HIDE DEF start, n, nd, iv
  <2> QED
    BY <1>2, <1>4, <1>6, <2>1 DEF TypeOK, Payment
<1> HIDE DEF start, n, nd, iv
<1>10. /\ \A u \in Subs : OpenPayments(u)' \subseteq OpenPayments(u)
       /\ \A u \in Subs \ {s} : PaidPayments(u)' = PaidPayments(u)
  BY <1>1, <1>2, <1>6, <1>8 DEF OpenPayments, PaidPayments, Linked, StatusOf, OpenStatuses, PaidStatuses
<1>11. Links'
  <2>1. \A p \in payments' :
          /\ invoices'[p.invoice].status # "none"
          /\ invoices'[p.invoice].sub = p.sub
          /\ invoices'[p.invoice].periods > 0 => StatusOf(p)' \in PaidStatuses \cup {"cancelled"}
    BY <1>1, <1>2, <1>6, <1>8 DEF Books, Links, StatusOf, PaidStatuses
  <2>2. \A j \in Invoices :
          invoices'[j].status # "none" => subs'[invoices'[j].sub].status \notin {"none", "trialing"}
    BY <1>0, <1>7, <1>8 DEF Books, Links, TypeOK, Invoice, Recovered
  <2>3. \A u \in Subs : subs'[u].status = "trialing" => subs'[u].next_due <= subs'[u].trial_end
    BY <1>0, <1>7 DEF Books, Links, Recovered
  <2> QED
    BY <2>1, <2>2, <2>3 DEF Links
<1>12. OneOpenInvoice'
  BY <1>10 DEF OneOpenInvoice, Books
<1>13. BilledOnce'
  <2> DEFINE due == nd + n * iv
  <2>0. /\ due \in Int /\ nd \in Int /\ nd <= due /\ subs'[s].next_due = due /\ subs[s].next_due = nd
        /\ \A k \in 1 .. n : start(k) \in Int /\ nd <= start(k) /\ start(k) < due
    BY <1>0, <1>4, <1>7 DEF nd
  <2> HIDE DEF due
  <2>s. \A p \in Prepaid(s, i) : p.sub = s /\ p.start \in Int /\ nd <= p.start /\ p.start < due
    BY <2>0, <1>6
  <2>o. \A p \in payments : p.start \in Int /\ (p.sub = s => p.start < nd)
    BY <2>0, <1>1
  <2>1. \A p \in payments' : p.start < subs'[p.sub].next_due
    <3>1. ASSUME NEW p \in payments, p.sub = s PROVE p.start < subs'[p.sub].next_due
      <4>1. p.start \in Int /\ p.start < nd
        BY <2>o, <3>1
      <4> QED
        BY <4>1, <2>0, <3>1
    <3>2. ASSUME NEW p \in payments, p.sub # s PROVE p.start < subs'[p.sub].next_due
      <4>1. p.sub \in Subs /\ p.start < subs[p.sub].next_due
        BY <1>1
      <4>2. subs'[p.sub] = subs[p.sub]
        BY <1>7, <4>1, <3>2
      <4> QED
        BY <4>1, <4>2
    <3>3. ASSUME NEW p \in Prepaid(s, i) PROVE p.start < subs'[p.sub].next_due
      BY <2>0, <2>s
    <3> QED
      BY <1>2, <3>1, <3>2, <3>3
  <2>2. \A p, q \in payments' : p.sub = q.sub /\ p.start = q.start => p = q
    <3>1. \A p, q \in payments : p.sub = q.sub /\ p.start = q.start => p = q
      BY DEF Books, BilledOnce
    <3>2. \A p, q \in Prepaid(s, i) : p.start = q.start => p = q
      BY <1>5, <1>6
    <3>3. \A p \in payments, q \in Prepaid(s, i) : p.sub = q.sub => p.start # q.start
      <4> SUFFICES ASSUME NEW p \in payments, NEW q \in Prepaid(s, i), p.sub = q.sub
                   PROVE  p.start # q.start
        OBVIOUS
      <4>1. p.start \in Int /\ p.start < nd /\ q.start \in Int /\ nd <= q.start
        BY <2>s, <2>o
      <4> QED
        BY <4>1, <2>0
    <3> QED
      BY <1>2, <3>1, <3>2, <3>3
  <2> QED
    BY <2>1, <2>2 DEF BilledOnce
<1>14. PastDueIsUnpaid'
  BY <1>7, <1>10 DEF PastDueIsUnpaid, Books, Recovered
<1> QED
  BY <1>7, <1>8, <1>9, <1>10, <1>11, <1>12, <1>13, <1>14 DEF Books, nd

\* An attempt to bill a subscriber who is due, whatever comes of it.
LEMMA BooksAttempted ==
  ASSUME TypeOK, TypeOK', Books, NEW s \in Subs, NEW r \in Subscription,
         NEW x \in create_renewal_invoice(s, r),
         invoices' = x.invoices, payments' = x.payments,
         r.next_due <= day,
         subs[s].status # "none" => /\ subs[s].next_due <= day
                                    /\ subs'[s].next_due >= subs[s].next_due,
         x.row.next_due > day => subs'[s].next_due = x.row.next_due,
         subs'[s].status = "active",
         \A u \in Subs \ {s} : subs'[u] = subs[u]
  PROVE  Books' /\ \A u \in Subs : PaidPayments(u)' = PaidPayments(u)
<1>0. r.next_due \in Int /\ day \in Int /\ subs[s].next_due \in Int /\ subs'[s].next_due \in Int
  BY DEF TypeOK, Subscription
<1>1. CASE x.invoices = invoices /\ x.payments = payments
  <2>1. \A u \in Subs : PaidPayments(u)' = PaidPayments(u)
    BY <1>1 DEF PaidPayments, Linked, StatusOf
  <2>2. \A i \in Invoices :
          invoices'[i].status # "none" => subs'[invoices'[i].sub].status \notin {"none", "trialing"}
    BY <1>1 DEF Books, Links, TypeOK, Invoice
  <2>3. \A u \in Subs :
          /\ subs[u].status # "none" => subs'[u].next_due >= subs[u].next_due
          /\ subs'[u].status = "trialing" => subs'[u].next_due <= subs'[u].trial_end
          /\ subs'[u].status = "past_due" => PaidPayments(u)' = {}
    <3> SUFFICES ASSUME NEW u \in Subs, u # s
                 PROVE  /\ subs[u].status # "none" => subs'[u].next_due >= subs[u].next_due
                        /\ subs'[u].status = "trialing" => subs'[u].next_due <= subs'[u].trial_end
                        /\ subs'[u].status = "past_due" => PaidPayments(u)' = {}
      OBVIOUS
    <3>1. subs'[u] = subs[u] /\ subs[u].next_due \in Int
      BY DEF TypeOK, Subscription
    <3> QED
      BY <2>1, <3>1 DEF Books, Links, PastDueIsUnpaid
  <2>4. Books'
    BY <1>1, <2>2, <2>3, BooksKept
  <2> QED
    BY <2>1, <2>4
<1>2. CASE MayRenew(s, r) /\ x.row.next_due > day /\ Billed(s, r.next_due, x.invoices, x.payments)
  <2>1. \A p \in Linked(s) : p.start # r.next_due /\ p.start < subs'[s].next_due
    <3> SUFFICES ASSUME NEW p \in Linked(s)
                 PROVE  p.start # r.next_due /\ p.start < subs'[s].next_due
      OBVIOUS
    <3>1. /\ p \in payments /\ p.sub = s /\ p.start \in Int /\ p.invoice \in Invoices
          /\ p.start < subs[s].next_due
          /\ subs[s].status # "none"
      BY DEF Linked, Books, BilledOnce, Links, TypeOK, Payment
    <3> QED
      BY <1>0, <1>2, <3>1 DEF MayRenew
  <2>2. r.next_due < subs'[s].next_due
    BY <1>0, <1>2
  <2> QED
    BY <1>0, <1>2, <2>1, <2>2, BooksBilled DEF MayRenew
<1> QED
  BY <1>1, <1>2, RenewalOutcome

-----------------------------------------------------------------------------
\* What the renewer holds is not disturbed by a step that leaves alone the
\* rows of its batch and adds no payment to the rows it has written.
LEMMA SweepKept ==
  ASSUME IInv, TypeOK', UNCHANGED <<day, sweep>>, NEW s \in Subs,
         s \in BatchRows => subs'[s] = subs[s],
         s \in Locked => PaidPayments(s)' \subseteq PaidPayments(s),
         subs[s].status \notin {"none", "trialing"} =>
           subs'[s].status \notin {"none", "trialing"} /\ subs'[s].next_due >= subs[s].next_due,
         \A u \in Subs \ {s} : subs'[u] = subs[u] /\ PaidPayments(u)' \subseteq PaidPayments(u)
  PROVE  BatchInv' /\ GraceInv'
<1>0. /\ \A u \in Subs : /\ subs[u].next_due \in Int /\ subs'[u].next_due \in Int
                         /\ batch[u].next_due \in Int
      /\ todo \subseteq Subs
  BY DEF IInv, TypeOK, Subscription, sweep
<1>1. BatchInv'
  <2>1. \A u \in Subs : batch[u].status # "none" =>
          /\ subs'[u].status \notin {"none", "trialing"}
          /\ batch[u].next_due <= subs'[u].next_due
    BY <1>0 DEF IInv, BatchInv
  <2>2. \A u \in todo : u \in BatchRows /\ subs'[u] = subs[u] /\ Due(u)
    BY <1>0 DEF IInv, BatchInv, BatchRows
  <2> QED
    BY <2>1, <2>2 DEF BatchInv, Due, sweep, IInv
<1>2. GraceInv'
  <2>1. \A u \in Subs : draft[u] = "past_due" => PaidPayments(u)' \subseteq PaidPayments(u)
    BY DEF Locked
  <2> QED
    BY <2>1 DEF GraceInv, IInv, sweep
<1> QED
  BY <1>1, <1>2

LEMMA CreateStep ==
  ASSUME IInv, NEW s \in Subs, create_subscription(s)
  PROVE  IInv'
<1> PICK interval \in Intervals, trial \in TrialDays, offset \in StartOffsets :
      Create(s, NewRow(interval, trial, offset), trial = 0 /\ offset <= 0)
  BY DEF create_subscription
<1> DEFINE row == NewRow(interval, trial, offset)
<1>0. TypeOK /\ Books /\ subs[s].status = "none" /\ UNCHANGED <<day, sweep>>
  BY DEF IInv, create_subscription
<1>1. /\ row \in Subscription
      /\ row.status = "trialing" => row.next_due <= row.trial_end
      /\ trial = 0 => row.status = "active" /\ row.next_due = day + offset
      /\ row.status \notin {"none", "past_due"}
      /\ day \in Int /\ trial \in Nat /\ offset \in Int
  BY <1>0, NewRowType DEF NewRow, TypeOK, SubscriptionStatus
<1>2. /\ \A i \in Invoices : invoices[i].status # "none" => invoices[i].sub # s
      /\ \A p \in payments : p.sub # s
  BY <1>0 DEF Books, Links, TypeOK, Payment
<1> HIDE DEF row
<1>3. CASE ~ (trial = 0 /\ offset <= 0)
  <2>1. subs' = [subs EXCEPT ![s] = row] /\ UNCHANGED <<invoices, payments>>
    BY <1>3 DEF Create, row
  <2>2. TypeOK'
    BY <1>0, <1>1, <2>1 DEF TypeOK, sweep
  <2>3. /\ subs'[s] = row
        /\ \A u \in Subs \ {s} : subs'[u] = subs[u]
        /\ \A u \in Subs : PaidPayments(u)' = PaidPayments(u)
    BY <1>0, <2>1 DEF TypeOK, PaidPayments, Linked, StatusOf
  <2>4. \A i \in Invoices :
          invoices'[i].status # "none" => subs'[invoices'[i].sub].status \notin {"none", "trialing"}
    BY <1>0, <1>2, <2>1, <2>3 DEF Books, Links, TypeOK, Invoice
  <2>5. \A u \in Subs :
          /\ subs[u].status # "none" => subs'[u].next_due >= subs[u].next_due
          /\ subs'[u].status = "trialing" => subs'[u].next_due <= subs'[u].trial_end
          /\ subs'[u].status = "past_due" => PaidPayments(u)' = {}
    <3> SUFFICES ASSUME NEW u \in Subs, u # s
                 PROVE  /\ subs[u].status # "none" => subs'[u].next_due >= subs[u].next_due
                        /\ subs'[u].status = "trialing" => subs'[u].next_due <= subs'[u].trial_end
                        /\ subs'[u].status = "past_due" => PaidPayments(u)' = {}
      BY <1>0, <1>1, <2>3
    <3>1. subs[u].next_due \in Int
      BY <1>0 DEF TypeOK, Subscription
    <3> QED
      BY <1>0, <2>3, <3>1 DEF Books, Links, PastDueIsUnpaid
  <2>6. Books'
    BY <1>0, <2>1, <2>2, <2>4, <2>5, BooksKept
  <2> QED
    BY <1>0, <2>2, <2>3, <2>6, SweepKept DEF IInv, BatchRows, Locked, BatchInv
<1>4. CASE trial = 0 /\ offset <= 0
  <2> PICK x \in create_renewal_invoice(s, row) :
        /\ subs' = [subs EXCEPT ![s] = x.row]
        /\ invoices' = x.invoices /\ payments' = x.payments
    BY <1>4 DEF Create, row
  <2>1. x.row \in Subscription /\ x.row.status = "active"
    BY <1>0, <1>1, <1>4, RenewalOutcome
  <2>2. TypeOK'
    BY <1>0, <1>1, <2>1, AttemptTypes DEF TypeOK, sweep
  <2>3. subs'[s] = x.row /\ \A u \in Subs \ {s} : subs'[u] = subs[u]
    BY <1>0 DEF TypeOK
  <2>4. row.next_due <= day
    BY <1>1, <1>4
  <2>5. Books' /\ \A u \in Subs : PaidPayments(u)' = PaidPayments(u)
    BY <1>0, <1>1, <2>1, <2>2, <2>3, <2>4, BooksAttempted
  <2> QED
    BY <1>0, <2>2, <2>3, <2>5, SweepKept DEF IInv, BatchRows, BatchInv
<1> QED
  BY <1>3, <1>4

\* A request that writes the row of one subscription, and no invoice.
LEMMA RowStep ==
  ASSUME IInv, UNCHANGED <<day, invoices, payments, sweep>>,
         NEW s \in Subs \ Locked, NEW row \in Subscription,
         subs' = [subs EXCEPT ![s] = row],
         subs[s].status # "none",
         row.next_due >= subs[s].next_due,
         row.trial_end = subs[s].trial_end,
         row.status = "trialing" => subs[s].status = "trialing" /\ row.next_due = subs[s].next_due,
         row.status = "past_due" => subs[s].status = "past_due",
         row.status = "none" => FALSE
  PROVE  IInv'
<1>0. TypeOK /\ Books
  BY DEF IInv
<1>1. TypeOK'
  BY <1>0 DEF TypeOK, sweep
<1>2. /\ subs'[s] = row
      /\ \A u \in Subs \ {s} : subs'[u] = subs[u]
      /\ \A u \in Subs : PaidPayments(u)' = PaidPayments(u)
  BY <1>0 DEF TypeOK, PaidPayments, Linked, StatusOf
<1>3. \A i \in Invoices :
        invoices'[i].status # "none" => subs'[invoices'[i].sub].status \notin {"none", "trialing"}
  BY <1>0, <1>2 DEF Books, Links, TypeOK, Invoice
<1>4. \A u \in Subs :
        /\ subs[u].status # "none" => subs'[u].next_due >= subs[u].next_due
        /\ subs'[u].status = "trialing" => subs'[u].next_due <= subs'[u].trial_end
        /\ subs'[u].status = "past_due" => PaidPayments(u)' = {}
  <2>1. ASSUME NEW u \in Subs \ {s}
        PROVE  /\ subs[u].status # "none" => subs'[u].next_due >= subs[u].next_due
               /\ subs'[u].status = "trialing" => subs'[u].next_due <= subs'[u].trial_end
               /\ subs'[u].status = "past_due" => PaidPayments(u)' = {}
    <3>1. subs[u].next_due \in Int
      BY <1>0 DEF TypeOK, Subscription
    <3> QED
      BY <1>0, <1>2, <3>1 DEF Books, Links, PastDueIsUnpaid
  <2>2. /\ subs'[s].next_due >= subs[s].next_due
        /\ subs'[s].status = "trialing" => subs'[s].next_due <= subs'[s].trial_end
        /\ subs'[s].status = "past_due" => PaidPayments(s)' = {}
    BY <1>0, <1>2 DEF Books, Links, PastDueIsUnpaid
  <2> QED
    BY <2>1, <2>2
<1>5. Books'
  BY <1>0, <1>1, <1>3, <1>4, BooksKept
<1> QED
  BY <1>0, <1>1, <1>2, <1>5, SweepKept DEF IInv, Locked

LEMMA UpdateStep ==
  ASSUME IInv, NEW s \in Subs,
         update_subscription(s) \/ pause_subscription(s) \/ resume_subscription(s)
  PROVE  IInv'
<1>0. subs[s] \in Subscription /\ subs \in [Subs -> Subscription] /\ day \in Int
  BY DEF IInv, TypeOK
<1>1. CASE update_subscription(s)
  <2> PICK interval \in NewIntervals \cup {0} : subs' = [subs EXCEPT ![s].pending = interval]
    BY <1>1 DEF update_subscription
  <2> DEFINE new == [subs[s] EXCEPT !.pending = interval]
  <2>1. subs' = [subs EXCEPT ![s] = new]
    BY <1>0
  <2>2. /\ new \in Subscription /\ new.status = subs[s].status
        /\ new.next_due >= subs[s].next_due /\ new.next_due = subs[s].next_due
        /\ new.trial_end = subs[s].trial_end
    BY <1>0 DEF Subscription
  <2>3. /\ UNCHANGED <<day, invoices, payments, sweep>> /\ s \in Subs \ Locked
        /\ subs[s].status # "none"
    BY <1>1 DEF update_subscription
  <2> HIDE DEF new
  <2> QED
    BY <2>1, <2>2, <2>3, RowStep
<1>2. CASE pause_subscription(s)
  <2> DEFINE new == [subs[s] EXCEPT !.status = "paused"]
  <2>1. subs' = [subs EXCEPT ![s] = new]
    BY <1>0, <1>2 DEF pause_subscription
  <2>2. /\ new \in Subscription /\ new.status = "paused"
        /\ new.next_due >= subs[s].next_due /\ new.next_due = subs[s].next_due
        /\ new.trial_end = subs[s].trial_end
    BY <1>0 DEF Subscription, SubscriptionStatus
  <2> HIDE DEF new
  <2> QED
    BY <1>0, <1>2, <2>1, <2>2, RowStep DEF pause_subscription
<1>3. CASE resume_subscription(s)
  <2> DEFINE due == IF subs[s].next_due <= day THEN day ELSE subs[s].next_due
             new == [subs[s] EXCEPT !.status = "active", !.next_due = due]
  <2>1. subs' = [subs EXCEPT ![s] = new]
    BY <1>0, <1>3 DEF resume_subscription
  <2>2. due \in Int /\ due >= subs[s].next_due
    BY <1>0 DEF Subscription
  <2> HIDE DEF due
  <2>3. /\ new \in Subscription /\ new.status = "active"
        /\ new.next_due = due /\ new.trial_end = subs[s].trial_end
    BY <1>0, <2>2 DEF Subscription, SubscriptionStatus
  <2> HIDE DEF new
  <2> QED
    BY <1>0, <1>3, <2>1, <2>2, <2>3, RowStep DEF resume_subscription
<1> QED
  BY <1>1, <1>2, <1>3

LEMMA CancelStep ==
  ASSUME IInv, NEW s \in Subs, cancel_subscription(s)
  PROVE  IInv'
<1>0. /\ TypeOK /\ Books /\ s \notin Locked
      /\ subs[s].status \notin {"none", "cancelled", "expired"}
      /\ UNCHANGED <<day, payments, sweep>>
      /\ subs[s] \in Subscription
  BY DEF IInv, TypeOK, cancel_subscription, TERMINAL_STATUSES
<1> DEFINE new == [subs[s] EXCEPT !.status = "cancelled"]
<1>1. subs' = [subs EXCEPT ![s] = new]
  BY <1>0 DEF TypeOK, cancel_subscription
<1>2. /\ new \in Subscription /\ new.status = "cancelled"
      /\ new.next_due = subs[s].next_due /\ new.next_due \in Int
  BY <1>0 DEF Subscription, SubscriptionStatus
<1> HIDE DEF new
<1> DEFINE pending == {p.invoice : p \in {q \in Linked(s) : StatusOf(q) = "pending"}}
<1>p. \A i \in pending : invoices[i].status = "pending"
  BY DEF StatusOf
<1> HIDE DEF pending
<1>3. PICK gone \in SUBSET pending :
        invoices' = [i \in Invoices |->
                       IF i \in gone THEN [invoices[i] EXCEPT !.status = "cancelled"] ELSE invoices[i]]
  BY DEF cancel_subscription, pending
<1>4. /\ invoices' \in [Invoices -> Invoice]
      /\ \A i \in Invoices :
           /\ invoices'[i].sub = invoices[i].sub /\ invoices'[i].periods = invoices[i].periods
           /\ \/ invoices'[i].status = invoices[i].status
              \/ invoices[i].status = "pending" /\ invoices'[i].status = "cancelled"
  BY <1>0, <1>p, <1>3 DEF TypeOK, Invoice, InvoiceStatus
<1>5. TypeOK'
  BY <1>0, <1>1, <1>2, <1>4 DEF TypeOK, sweep
<1>6. /\ subs'[s] = new
      /\ \A u \in Subs \ {s} : subs'[u] = subs[u]
      /\ \A u \in Subs : PaidPayments(u)' = PaidPayments(u)
  <2>1. \A p \in payments : p.invoice \in Invoices
    BY <1>0 DEF TypeOK, Payment
  <2> QED
    BY <1>0, <1>1, <1>4, <2>1 DEF TypeOK, PaidPayments, Linked, StatusOf, PaidStatuses
<1>7. \A i \in Invoices :
        invoices'[i].status # "none" => subs'[invoices'[i].sub].status \notin {"none", "trialing"}
  BY <1>0, <1>2, <1>4, <1>6 DEF Books, Links, TypeOK, Invoice
<1>8. \A u \in Subs :
        /\ subs[u].status # "none" => subs'[u].next_due >= subs[u].next_due
        /\ subs'[u].status = "trialing" => subs'[u].next_due <= subs'[u].trial_end
        /\ subs'[u].status = "past_due" => PaidPayments(u)' = {}
  <2> SUFFICES ASSUME NEW u \in Subs
               PROVE  /\ subs[u].status # "none" => subs'[u].next_due >= subs[u].next_due
                      /\ subs'[u].status = "trialing" => subs'[u].next_due <= subs'[u].trial_end
                      /\ subs'[u].status = "past_due" => PaidPayments(u)' = {}
    OBVIOUS
  <2>1. subs[u].next_due \in Int
    BY <1>0 DEF TypeOK, Subscription
  <2> QED
    BY <1>0, <1>2, <1>6, <2>1 DEF Books, Links, PastDueIsUnpaid
<1>9. Books'
  BY <1>0, <1>4, <1>5, <1>7, <1>8, BooksKept DEF OpenStatuses, PaidStatuses
<1> QED
  BY <1>0, <1>2, <1>5, <1>6, <1>9, SweepKept DEF IInv, Locked

LEMMA RoomIsFree ==
  ASSUME NEW n \in Nat \ {0}, Room(n)
  PROVE  FreshInvoice \in Free
<1>1. Cardinality(Subs) \in Nat
  BY FS_CardinalityType
<1>2. Free # {}
  BY <1>1, FS_EmptySet DEF Room
<1> QED
  BY <1>2, FreshIsFree

LEMMA PrepayStep ==
  ASSUME IInv, NEW s \in Subs, create_prepay_invoice(s)
  PROVE  IInv'
<1> DEFINE i   == FreshInvoice
           new == [subs[s] EXCEPT !.prepay = i]
<1>0. /\ TypeOK /\ Books /\ s \notin Locked
      /\ subs[s].status \in {"active", "past_due"} /\ subs[s] \in Subscription
      /\ UNCHANGED <<day, payments, sweep>>
      /\ i \in Invoices /\ invoices[i].status = "none"
  BY RoomIsFree DEF IInv, TypeOK, create_prepay_invoice, Free
<1> HIDE DEF i
<1>1. subs' = [subs EXCEPT ![s] = new]
  BY <1>0 DEF TypeOK, create_prepay_invoice, i
<1>2. /\ new \in Subscription /\ new.status = subs[s].status
      /\ new.next_due = subs[s].next_due /\ new.next_due \in Int
  BY <1>0 DEF Subscription
<1> HIDE DEF new
<1>3. PICK row : /\ invoices' = [invoices EXCEPT ![i] = row]
                 /\ row \in Invoice /\ row.status = "pending" /\ row.sub = s
  <2> PICK periods \in Plans :
        LET days == periods * subs[s].interval IN
        invoices' = [invoices EXCEPT ![i] =
          [status |-> "pending", expires |-> day + (IF days < 30 THEN days ELSE 30),
           sub |-> s, periods |-> periods]]
    BY DEF create_prepay_invoice, i
  <2> DEFINE days == periods * subs[s].interval
             row  == [status |-> "pending", expires |-> day + (IF days < 30 THEN days ELSE 30),
                      sub |-> s, periods |-> periods]
  <2>1. days \in Nat
    BY <1>0, MultiplesOrdered DEF Subscription
  <2> HIDE DEF days
  <2>2. row \in Invoice /\ row.status = "pending" /\ row.sub = s
    BY <1>0, <2>1 DEF Invoice, InvoiceStatus, TypeOK
  <2> QED
    BY <2>2 DEF days
<1>4. /\ invoices'[i] = row
      /\ \A j \in Invoices \ {i} : invoices'[j] = invoices[j]
  BY <1>0, <1>3 DEF TypeOK
<1>5. TypeOK'
  BY <1>0, <1>1, <1>2, <1>3 DEF TypeOK, sweep
<1>6. /\ subs'[s] = new
      /\ \A u \in Subs \ {s} : subs'[u] = subs[u]
      /\ \A u \in Subs : PaidPayments(u)' = PaidPayments(u)
  <2>1. \A p \in payments : p.invoice \in Invoices \ {i}
    BY <1>0 DEF TypeOK, Payment, Books, Links
  <2> QED
    BY <1>0, <1>1, <1>4, <2>1 DEF TypeOK, PaidPayments, Linked, StatusOf
<1>7. \A j \in Invoices :
        invoices'[j].status # "none" => subs'[invoices'[j].sub].status \notin {"none", "trialing"}
  BY <1>0, <1>2, <1>3, <1>4, <1>6 DEF Books, Links, TypeOK, Invoice
<1>8. \A u \in Subs :
        /\ subs[u].status # "none" => subs'[u].next_due >= subs[u].next_due
        /\ subs'[u].status = "trialing" => subs'[u].next_due <= subs'[u].trial_end
        /\ subs'[u].status = "past_due" => PaidPayments(u)' = {}
  <2> SUFFICES ASSUME NEW u \in Subs
               PROVE  /\ subs[u].status # "none" => subs'[u].next_due >= subs[u].next_due
                      /\ subs'[u].status = "trialing" => subs'[u].next_due <= subs'[u].trial_end
                      /\ subs'[u].status = "past_due" => PaidPayments(u)' = {}
    OBVIOUS
  <2>1. subs[u].next_due \in Int
    BY <1>0 DEF TypeOK, Subscription
  <2> QED
    BY <1>0, <1>2, <1>6, <2>1 DEF Books, Links, PastDueIsUnpaid
<1>9. Books'
  BY <1>0, <1>4, <1>5, <1>7, <1>8, BooksKept
<1> QED
  BY <1>0, <1>2, <1>5, <1>6, <1>9, SweepKept DEF IInv, Locked

-----------------------------------------------------------------------------
\* An invoice is settled, expired or cancelled.
LEMMA CloseStep ==
  ASSUME IInv, NEW i \in Invoices, Expire(i) \/ cancel_invoice(i)
  PROVE  IInv'
<1>0. PICK status \in {"expired", "cancelled"} :
        Close(i, status) /\ (status = "expired" => invoices[i].status = "pending")
  BY DEF Expire, cancel_invoice
<1> DEFINE s == invoices[i].sub
<1>1. /\ TypeOK /\ Books /\ s \in Subs
      /\ invoices[i].status # "none" /\ invoices' = [invoices EXCEPT ![i].status = status]
      /\ UNCHANGED <<day, subs, payments, sweep>>
  BY <1>0 DEF IInv, TypeOK, Invoice, Close, Expire, cancel_invoice
<1>2. /\ invoices' \in [Invoices -> Invoice]
      /\ invoices'[i].status = status
      /\ \A j \in Invoices : /\ invoices'[j].sub = invoices[j].sub
                             /\ invoices'[j].periods = invoices[j].periods
                             /\ j # i => invoices'[j] = invoices[j]
  BY <1>1 DEF TypeOK, Invoice, InvoiceStatus
<1>3. TypeOK'
  BY <1>1, <1>2 DEF TypeOK, sweep
<1>4. \A u \in Subs : PaidPayments(u)' \subseteq PaidPayments(u)
  <2>1. \A p \in payments : p.invoice \in Invoices
    BY <1>1 DEF TypeOK, Payment
  <2> QED
    BY <1>1, <1>2, <2>1 DEF PaidPayments, Linked, StatusOf, PaidStatuses
<1>5. \A u \in Subs : subs[u].next_due \in Int
  BY <1>1 DEF TypeOK, Subscription
<1>6. Books'
  <2>1. \A j \in Invoices :
          invoices'[j].status # "none" => subs'[invoices'[j].sub].status \notin {"none", "trialing"}
    BY <1>1, <1>2 DEF Books, Links
  <2>2. \A u \in Subs :
          /\ subs[u].status # "none" => subs'[u].next_due >= subs[u].next_due
          /\ subs'[u].status = "trialing" => subs'[u].next_due <= subs'[u].trial_end
          /\ subs'[u].status = "past_due" => PaidPayments(u)' = {}
    BY <1>1, <1>4, <1>5 DEF Books, Links, PastDueIsUnpaid
  <2>3. \A j \in Invoices : invoices[j].status # "none" =>
          /\ invoices'[j].status # "none"
          /\ invoices'[j].status \in OpenStatuses => invoices[j].status \in OpenStatuses
          /\ invoices[j].status \in PaidStatuses \cup {"cancelled"} =>
               invoices'[j].status \in PaidStatuses \cup {"cancelled"}
    BY <1>0, <1>1, <1>2 DEF OpenStatuses, PaidStatuses
  <2> QED
    BY <1>1, <1>2, <1>3, <2>1, <2>2, <2>3, BooksKept
<1> QED
  BY <1>1, <1>3, <1>4, <1>5, <1>6, SweepKept DEF IInv

LEMMA SettleStep ==
  ASSUME IInv, NEW i \in Invoices, Settle(i)
  PROVE  IInv'
<1> PICK s \in Subs : s = invoices[i].sub
  BY DEF IInv, TypeOK, Invoice
<1>0. PICK status \in {"partially_paid", "paid", "late_paid"} :
        /\ can_transition(invoices[i].status, status)
        /\ invoices' = [invoices EXCEPT ![i].status = status]
        /\ IF status \in PaidStatuses
           THEN handle_subscription_payment(s, i)
           ELSE UNCHANGED <<subs, payments>>
  BY DEF Settle
<1>1. /\ TypeOK /\ Books /\ s \notin Locked
      /\ invoices[i].status \notin PaidStatuses
      /\ UNCHANGED <<day, sweep>>
  BY DEF IInv, Settle
<1>2. /\ invoices[i].status \in OpenStatuses \/ (invoices[i].status = "expired" /\ status = "late_paid")
      /\ invoices[i].status \notin {"none", "cancelled"}
  BY <1>0, <1>1 DEF can_transition, VALID_TRANSITIONS, OpenStatuses, PaidStatuses
<1>3. /\ invoices' \in [Invoices -> Invoice]
      /\ invoices'[i].status = status
      /\ \A j \in Invoices : /\ invoices'[j].sub = invoices[j].sub
                             /\ invoices'[j].periods = invoices[j].periods
                             /\ j # i => invoices'[j] = invoices[j]
  BY <1>0, <1>1 DEF TypeOK, Invoice, InvoiceStatus
<1>4. /\ subs[s] \in Subscription /\ subs[s].status \notin {"none", "trialing"}
      /\ \A u \in Subs : subs[u].next_due \in Int
  BY <1>1, <1>2 DEF TypeOK, Subscription, Books, Links
<1>5. CASE status \in PaidStatuses /\ invoices[i].periods > 0
  <2>1. handle_prepay_payment(s, i)
    BY <1>0, <1>5 DEF handle_subscription_payment
  <2>2. /\ subs' \in [Subs -> Subscription] /\ payments' \subseteq Payment
        /\ Books'
        /\ subs'[s].next_due >= subs[s].next_due
        /\ subs'[s].status = Recovered(subs[s].status)
        /\ \A u \in Subs \ {s} : subs'[u] = subs[u] /\ PaidPayments(u)' = PaidPayments(u)
    BY <1>0, <1>1, <1>2, <1>5, <2>1, BooksPrepaid
  <2>3. TypeOK'
    BY <1>1, <1>3, <2>2 DEF TypeOK, sweep
  <2> QED
    BY <1>1, <1>4, <2>2, <2>3, SweepKept DEF IInv, Locked, Recovered
<1>6. CASE ~ (status \in PaidStatuses /\ invoices[i].periods > 0)
  <2>1. /\ payments' = payments
        /\ subs' \in [Subs -> Subscription]
        /\ \A u \in Subs \ {s} : subs'[u] = subs[u]
        /\ subs'[s].next_due = subs[s].next_due /\ subs'[s].trial_end = subs[s].trial_end
        /\ subs'[s].status = IF status \in PaidStatuses THEN Recovered(subs[s].status)
                             ELSE subs[s].status
    <3>1. CASE status \in PaidStatuses
      <4> DEFINE new == [subs[s] EXCEPT !.status = Recovered(@)]
      <4>1. subs' = [subs EXCEPT ![s] = new] /\ payments' = payments
        BY <1>0, <1>1, <1>6, <3>1 DEF handle_subscription_payment, TypeOK
      <4>2. /\ new \in Subscription /\ new.status = Recovered(subs[s].status)
            /\ new.next_due = subs[s].next_due /\ new.trial_end = subs[s].trial_end
        BY <1>4 DEF Subscription, Recovered, SubscriptionStatus
      <4> HIDE DEF new
      <4> QED
        BY <1>1, <3>1, <4>1, <4>2 DEF TypeOK
    <3>2. CASE status \notin PaidStatuses
      BY <1>0, <1>1, <3>2 DEF TypeOK
    <3> QED
      BY <3>1, <3>2
  <2>2. TypeOK'
    BY <1>1, <1>3, <2>1 DEF TypeOK, sweep
  <2>3. \A p \in payments : p.invoice \in Invoices /\ p.sub = invoices[p.invoice].sub
    BY <1>1 DEF TypeOK, Payment, Books, Links
  <2>4. /\ \A u \in Subs \ {s} : PaidPayments(u)' = PaidPayments(u)
        /\ status \notin PaidStatuses => PaidPayments(s)' = PaidPayments(s)
    <3>1. \A p \in payments : p.sub # s => StatusOf(p)' = StatusOf(p)
      BY <1>3, <2>3 DEF StatusOf
    <3>2. \A p \in payments : status \notin PaidStatuses =>
            (StatusOf(p)' \in PaidStatuses <=> StatusOf(p) \in PaidStatuses)
      BY <1>1, <1>3, <2>3 DEF StatusOf
    <3> QED
      BY <2>1, <3>1, <3>2 DEF PaidPayments, Linked
  <2>5. \A j \in Invoices :
          invoices'[j].status # "none" => subs'[invoices'[j].sub].status \notin {"none", "trialing"}
    BY <1>1, <1>3, <1>4, <2>1 DEF Books, Links, Recovered, TypeOK, Invoice
  <2>6. \A u \in Subs :
          /\ subs[u].status # "none" => subs'[u].next_due >= subs[u].next_due
          /\ subs'[u].status = "trialing" => subs'[u].next_due <= subs'[u].trial_end
          /\ subs'[u].status = "past_due" => PaidPayments(u)' = {}
    BY <1>1, <1>4, <2>1, <2>4 DEF Books, Links, PastDueIsUnpaid, Recovered
  <2>7. \A j \in Invoices : invoices[j].status # "none" =>
          /\ invoices'[j].status # "none"
          /\ invoices'[j].status \in OpenStatuses => invoices[j].status \in OpenStatuses
          /\ invoices[j].status \in PaidStatuses \cup {"cancelled"} =>
               invoices'[j].status \in PaidStatuses \cup {"cancelled"}
    <3>1. status \in OpenStatuses => invoices[i].status \in OpenStatuses
      BY <1>2 DEF OpenStatuses
    <3>2. status # "none"
      OBVIOUS
    <3>3. \A j \in Invoices \ {i} : invoices'[j] = invoices[j]
      BY <1>3
    <3>4. /\ invoices'[i].status # "none"
          /\ invoices'[i].status \in OpenStatuses => invoices[i].status \in OpenStatuses
          /\ invoices[i].status \notin PaidStatuses \cup {"cancelled"}
      BY <1>1, <1>2, <1>3, <3>1, <3>2
    <3>5. QED
      BY <3>3, <3>4
  <2>8. Books'
    BY <1>1, <1>3, <2>1, <2>2, <2>5, <2>6, <2>7, BooksKept
  <2> QED
    BY <1>1, <1>4, <2>1, <2>2, <2>4, <2>8, SweepKept DEF IInv, Locked, Recovered
<1> QED
  BY <1>5, <1>6

-----------------------------------------------------------------------------
LEMMA EndTrialStep ==
  ASSUME IInv, NEW s \in Subs, EndTrial(s)
  PROVE  IInv' /\ subs'[s].status = "active"
<1> DEFINE row == [subs[s] EXCEPT !.status = "active", !.next_due = day]
<1>0. /\ TypeOK /\ Books /\ subs[s] \in Subscription
      /\ subs[s].status = "trialing" /\ subs[s].next_due <= subs[s].trial_end
      /\ subs[s].trial_end <= day /\ UNCHANGED <<day, sweep>>
      /\ day \in Int /\ subs[s].next_due \in Int /\ subs[s].trial_end \in Int
      /\ s \notin BatchRows
  BY DEF IInv, TypeOK, Books, Links, EndTrial, TrialDue, BatchRows, Subscription
<1>1. row \in Subscription /\ row.status = "active" /\ row.next_due = day
  BY <1>0 DEF Subscription, SubscriptionStatus
<1>2. PICK x \in create_renewal_invoice(s, row) : Apply(s, subs[s], x)
  BY DEF EndTrial
<1> HIDE DEF row
<1>3. x.row \in Subscription /\ x.row.status = "active" /\ x.row.next_due >= day
      /\ x.row.next_due \in Int
  BY <1>0, <1>1, RenewalOutcome DEF Subscription
<1> DEFINE new == Flushed(subs[s], subs[s], x.row)
<1>4. new \in Subscription /\ new.status = "active" /\ new.next_due = x.row.next_due
  BY <1>0, <1>3, FlushedRow
<1>5. subs' = [subs EXCEPT ![s] = new] /\ invoices' = x.invoices /\ payments' = x.payments
  BY <1>0, <1>2 DEF Apply, TypeOK
<1> HIDE DEF new
<1>6. TypeOK'
  BY <1>0, <1>1, <1>4, <1>5, AttemptTypes DEF TypeOK, sweep
<1>7. subs'[s] = new /\ \A u \in Subs \ {s} : subs'[u] = subs[u]
  BY <1>0, <1>5 DEF TypeOK
<1>8. row.next_due <= day /\ subs[s].next_due <= day /\ new.next_due >= subs[s].next_due
  BY <1>0, <1>1, <1>3, <1>4
<1>9. Books' /\ \A u \in Subs : PaidPayments(u)' = PaidPayments(u)
  BY <1>0, <1>1, <1>4, <1>5, <1>6, <1>7, <1>8, BooksAttempted
<1> QED
  BY <1>0, <1>4, <1>6, <1>7, <1>8, <1>9, SweepKept DEF IInv

LEMMA RenewStep ==
  ASSUME IInv, NEW s \in Subs, RenewDue(s)
  PROVE  IInv' /\ (payments' # payments => subs'[s].status = "active")
<1>0. /\ TypeOK /\ Books /\ BatchInv /\ GraceInv
      /\ s \in todo /\ stage = "batch" /\ todo' = todo \ {s}
      /\ UNCHANGED <<day, stage, picked, draft>>
      /\ subs[s] \in Subscription /\ batch[s] \in Subscription
      /\ subs[s].status = "active" /\ subs[s].next_due <= day
      /\ batch[s].status # "none" /\ batch[s].next_due <= subs[s].next_due
      /\ day \in Int /\ subs[s].next_due \in Int /\ batch[s].next_due \in Int
      /\ \A u \in Subs : batch[u].next_due \in Int
  BY DEF IInv, BatchInv, TypeOK, RenewDue, Due, Subscription
<1>1. CASE UNCHANGED <<rows, batch>>
  <2>1. TypeOK' /\ Books'
    BY <1>0, <1>1 DEF TypeOK, Books, Links, OneOpenInvoice, BilledOnce, PastDueIsUnpaid,
       OpenPayments, PaidPayments, Linked, StatusOf, rows
  <2>2. BatchInv' /\ GraceInv'
    BY <1>0, <1>1 DEF BatchInv, GraceInv, Due, PaidPayments, Linked, StatusOf, rows
  <2> QED
    BY <1>1, <2>1, <2>2 DEF IInv, rows
<1>2. CASE \E x \in create_renewal_invoice(s, [batch[s] EXCEPT !.prepay = NoInvoice]) :
             Apply(s, batch[s], x) /\ batch' = [batch EXCEPT ![s] = x.row]
  <2> DEFINE row == [batch[s] EXCEPT !.prepay = NoInvoice]
  <2>1. /\ row \in Subscription /\ row.status = batch[s].status
        /\ row.next_due = batch[s].next_due
    BY <1>0 DEF Subscription
  <2> PICK x \in create_renewal_invoice(s, row) :
        Apply(s, batch[s], x) /\ batch' = [batch EXCEPT ![s] = x.row]
    BY <1>2
  <2> HIDE DEF row
  <2>2. /\ x.row \in Subscription /\ x.row.status = batch[s].status
        /\ x.row.next_due = batch[s].next_due \/ x.row.next_due > day
        /\ x.row.next_due \in Int
    BY <1>0, <2>1, RenewalOutcome DEF Subscription
  <2> DEFINE new == Flushed(subs[s], batch[s], x.row)
  <2>3. /\ new \in Subscription /\ new.status = "active"
        /\ new.next_due = IF x.row.next_due = batch[s].next_due THEN subs[s].next_due
                          ELSE x.row.next_due
    BY <1>0, <2>2, FlushedRow
  <2>4. subs' = [subs EXCEPT ![s] = new] /\ invoices' = x.invoices /\ payments' = x.payments
    BY <1>0 DEF Apply, TypeOK
  <2> HIDE DEF new
  <2>5. TypeOK'
    BY <1>0, <2>1, <2>2, <2>3, <2>4, AttemptTypes DEF TypeOK
  <2>6. subs'[s] = new /\ \A u \in Subs \ {s} : subs'[u] = subs[u]
    BY <1>0, <2>4 DEF TypeOK
  <2>7. /\ row.next_due <= day
        /\ new.next_due >= subs[s].next_due /\ x.row.next_due <= new.next_due
        /\ x.row.next_due > day => new.next_due = x.row.next_due
    BY <1>0, <2>1, <2>2, <2>3
  <2>8. Books' /\ \A u \in Subs : PaidPayments(u)' = PaidPayments(u)
    BY <1>0, <2>1, <2>3, <2>4, <2>5, <2>6, <2>7, BooksAttempted
  <2>9. BatchInv'
    <3>1. /\ batch'[s] = x.row
          /\ \A u \in Subs \ {s} : batch'[u] = batch[u]
      BY <1>0 DEF TypeOK
    <3>2. \A u \in Subs : batch'[u].status # "none" =>
            /\ subs'[u].status \notin {"none", "trialing"}
            /\ batch'[u].next_due <= subs'[u].next_due
      BY <1>0, <2>3, <2>6, <2>7, <3>1 DEF BatchInv
    <3>3. \A u \in todo' : stage' = "batch" /\ batch'[u].status # "none" /\ Due(u)'
      BY <1>0, <2>6, <3>1 DEF BatchInv, Due, TypeOK
    <3> QED
      BY <3>2, <3>3 DEF BatchInv
  <2>10. GraceInv'
    BY <1>0, <2>8 DEF GraceInv
  <2> QED
    BY <2>3, <2>5, <2>6, <2>8, <2>9, <2>10 DEF IInv
<1> QED
  BY <1>1, <1>2 DEF RenewDue

\* Steps that leave the books alone.
LEMMA BooksAlone ==
  ASSUME Books, UNCHANGED rows
  PROVE  Books' /\ \A s \in Subs : PaidPayments(s)' = PaidPayments(s)
BY DEF Books, Links, OneOpenInvoice, BilledOnce, PastDueIsUnpaid,
   OpenPayments, PaidPayments, Linked, StatusOf, rows

LEMMA StageStep ==
  ASSUME IInv, StartSweep \/ TrialsDone \/ CommitBatch \/ Crash \/ Tick \/ UNCHANGED vars
  PROVE  IInv'
<1>0. TypeOK /\ Books /\ BatchInv /\ GraceInv /\ NoRow.status = "none" /\ NoRow \in Subscription
  BY DEF IInv, NoRow, Subscription, NoInvoice
<1>1. UNCHANGED rows
  BY DEF StartSweep, TrialsDone, CommitBatch, Crash, Tick, vars
<1>2. Books' /\ \A s \in Subs : PaidPayments(s)' = PaidPayments(s)
  BY <1>0, <1>1, BooksAlone
<1>3. CASE StartSweep \/ TrialsDone \/ CommitBatch \/ UNCHANGED vars
  <2>1. UNCHANGED <<day, batch, todo, picked, draft>> /\ (UNCHANGED stage \/ todo = {})
    BY <1>0, <1>3 DEF StartSweep, TrialsDone, CommitBatch, vars, sweep, BatchInv
  <2>2. TypeOK'
    BY <1>0, <1>1, <1>3, <2>1 DEF TypeOK, StartSweep, TrialsDone, CommitBatch, vars, sweep, rows, Stages
  <2>3. BatchInv'
    BY <1>0, <1>1, <2>1 DEF BatchInv, Due, rows
  <2>4. GraceInv'
    BY <1>0, <1>2, <1>3, <2>1 DEF GraceInv, StartSweep, TrialsDone, CommitBatch, vars, sweep
  <2> QED
    BY <1>2, <2>2, <2>3, <2>4 DEF IInv
<1>4. CASE Crash
  <2>1. TypeOK'
    BY <1>0, <1>4 DEF TypeOK, Crash, rows, Stages, Nothing
  <2>2. BatchInv' /\ GraceInv'
    BY <1>0, <1>4 DEF BatchInv, GraceInv, Crash, Nothing
  <2> QED
    BY <1>2, <2>1, <2>2 DEF IInv
<1>5. CASE Tick
  <2>1. TypeOK' /\ day \in Int /\ day' = day + 1 /\ UNCHANGED <<rows, sweep>>
    BY <1>0, <1>5 DEF TypeOK, Tick, rows, sweep
  <2>2. \A s \in Subs : subs[s].next_due \in Int
    BY <1>0 DEF TypeOK, Subscription
  <2>3. BatchInv'
    BY <1>0, <2>1, <2>2 DEF BatchInv, Due, rows, sweep, TypeOK
  <2>4. GraceInv'
    BY <1>0, <1>2, <2>1 DEF GraceInv, sweep
  <2> QED
    BY <1>2, <2>1, <2>3, <2>4 DEF IInv
<1> QED
  BY <1>3, <1>4, <1>5

LEMMA SelectStep ==
  ASSUME IInv, SelectDue
  PROVE  IInv'
<1>0. TypeOK /\ Books /\ BatchInv /\ GraceInv /\ NoRow.status = "none" /\ NoRow \in Subscription
  BY DEF IInv, NoRow, Subscription, NoInvoice
<1> DEFINE due == {s \in Subs : Due(s)}
<1>1. /\ batch' = [s \in Subs |-> IF s \notin due THEN NoRow
                                ELSE IF batch[s].status # "none" THEN batch[s] ELSE subs[s]]
      /\ todo' = due /\ stage = "select"
      /\ stage' = IF due = {} THEN "soft" ELSE "batch"
      /\ UNCHANGED <<day, rows, picked, draft>>
  BY DEF SelectDue
<1>2. TypeOK'
  BY <1>0, <1>1 DEF TypeOK, rows, Stages
<1>3. BatchInv'
  <2>1. \A s \in Subs : subs[s].next_due \in Int
    BY <1>0 DEF TypeOK, Subscription
  <2>2. \A s \in Subs : Due(s)' = Due(s) /\ subs'[s] = subs[s]
    BY <1>1 DEF Due, rows
  <2> QED
    BY <1>0, <1>1, <2>1, <2>2 DEF BatchInv, Due
<1>4. GraceInv'
  BY <1>0, <1>1 DEF GraceInv
<1>5. Books'
  BY <1>0, <1>1, BooksAlone
<1> QED
  BY <1>2, <1>3, <1>4, <1>5 DEF IInv

LEMMA GraceQueryStep ==
  ASSUME IInv, GraceQuery
  PROVE  IInv'
<1>0. /\ TypeOK /\ Books /\ BatchInv /\ GraceInv /\ todo = {}
      /\ stage \in {"soft", "hard", "recover"}
      /\ picked' = {s \in Subs : Wanted(s)}
      /\ stage' = IF picked' = {} THEN GraceNext ELSE stage
      /\ UNCHANGED <<day, rows, batch, todo, draft>>
  BY DEF IInv, GraceQuery, BatchInv
<1>1. stage' \in {"soft", "hard", "recover", "commit"}
  BY <1>0 DEF GraceNext
<1>2. TypeOK'
  BY <1>0, <1>1 DEF TypeOK, rows, Stages
<1>3. Books' /\ \A s \in Subs : PaidPayments(s)' = PaidPayments(s)
  BY <1>0, BooksAlone
<1>4. BatchInv'
  BY <1>0 DEF BatchInv, rows
<1>5. GraceInv'
  <2>1. picked' # {} => stage' \in {"soft", "hard", "recover"}
    BY <1>0
  <2>2. stage' = "commit" \/ (stage' = "recover" /\ picked' # {}) => stage = "recover"
    BY <1>0 DEF GraceNext
  <2>3. ASSUME stage = "recover", NEW s \in Subs \ picked', draft[s] = "past_due"
        PROVE  PaidPayments(s)' = {}
    BY <1>0, <1>3, <2>3 DEF Wanted, Current
  <2> QED
    BY <1>0, <2>1, <2>2, <2>3 DEF GraceInv
<1> QED
  BY <1>2, <1>3, <1>4, <1>5 DEF IInv

LEMMA GraceWriteStep ==
  ASSUME IInv, NEW s \in Subs, GraceWrite(s)
  PROVE  IInv'
<1>0. /\ TypeOK /\ Books /\ BatchInv /\ GraceInv /\ todo = {}
      /\ s \in picked /\ stage \in {"soft", "hard", "recover"}
      /\ draft' = [draft EXCEPT ![s] = GraceTarget]
      /\ picked' = picked \ {s}
      /\ stage' = IF picked' = {} THEN GraceNext ELSE stage
      /\ UNCHANGED <<day, rows, batch, todo>>
  BY DEF IInv, GraceWrite, BatchInv, GraceInv
<1>1. /\ stage' \in {"soft", "hard", "recover", "commit"}
      /\ GraceTarget \in {"past_due", "expired", "active"}
      /\ stage = "recover" => GraceTarget = "active"
  BY <1>0 DEF GraceNext, GraceTarget
<1>2. TypeOK'
  BY <1>0, <1>1 DEF TypeOK, rows, Stages, SubscriptionStatus
<1>3. Books' /\ \A u \in Subs : PaidPayments(u)' = PaidPayments(u)
  BY <1>0, BooksAlone
<1>4. BatchInv'
  BY <1>0 DEF BatchInv, rows
<1>5. GraceInv'
  <2>1. stage' = "commit" \/ (stage' = "recover" /\ picked' # {}) => stage = "recover"
    BY <1>0 DEF GraceNext
  <2>2. /\ draft'[s] = GraceTarget
        /\ \A u \in Subs \ {s} : draft'[u] = draft[u]
    BY <1>0 DEF TypeOK
  <2>3. picked' # {} => stage' \in {"soft", "hard", "recover"}
    BY <1>0
  <2>4. \A u \in Subs : draft'[u] # "trialing"
    BY <1>0, <1>1, <2>2 DEF GraceInv
  <2>5. ASSUME stage = "recover", NEW u \in Subs \ picked', draft'[u] = "past_due"
        PROVE  PaidPayments(u)' = {}
    BY <1>0, <1>1, <1>3, <2>2, <2>5 DEF GraceInv
  <2> QED
    BY <2>1, <2>3, <2>4, <2>5 DEF GraceInv
<1> QED
  BY <1>2, <1>3, <1>4, <1>5 DEF IInv

LEMMA GraceCommitStep ==
  ASSUME IInv, GraceCommit
  PROVE  IInv'
<1>0. /\ TypeOK /\ Books /\ BatchInv /\ GraceInv /\ todo = {} /\ picked = {}
      /\ stage = "commit" /\ stage' = "idle"
      /\ subs' = [s \in Subs |-> [subs[s] EXCEPT !.status = Current(s)]]
      /\ draft' = Nothing
      /\ UNCHANGED <<day, invoices, payments, batch, todo, picked>>
  BY DEF IInv, GraceCommit, BatchInv, GraceInv
<1>1. \A s \in Subs :
        /\ subs'[s] \in Subscription
        /\ subs'[s].status = Current(s)
        /\ subs'[s].next_due = subs[s].next_due /\ subs[s].next_due \in Int
        /\ subs'[s].trial_end = subs[s].trial_end
  <2> SUFFICES ASSUME NEW s \in Subs
               PROVE  /\ subs'[s] \in Subscription
                      /\ subs'[s].status = Current(s)
                      /\ subs'[s].next_due = subs[s].next_due /\ subs[s].next_due \in Int
                      /\ subs'[s].trial_end = subs[s].trial_end
    OBVIOUS
  <2>1. /\ subs[s] \in Subscription /\ Current(s) \in SubscriptionStatus \cup {"none"}
        /\ subs'[s] = [subs[s] EXCEPT !.status = Current(s)]
    BY <1>0 DEF TypeOK, Current, Subscription
  <2> QED
    BY <2>1 DEF Subscription
<1>2. \A s \in Subs :
        /\ Current(s) = subs[s].status \/ Current(s) \notin {"none", "trialing"}
        /\ Current(s) = "past_due" => PaidPayments(s) = {}
  BY <1>0 DEF Current, GraceInv, Books, PastDueIsUnpaid
<1>3. TypeOK'
  <2>1. subs' \in [Subs -> Subscription]
    BY <1>0, <1>1
  <2> QED
    BY <1>0, <2>1 DEF TypeOK, Stages, Nothing
<1>4. \A s \in Subs : PaidPayments(s)' = PaidPayments(s)
  BY <1>0 DEF PaidPayments, Linked, StatusOf
<1>5. Books'
  <2>1. \A i \in Invoices :
          invoices'[i].status # "none" => subs'[invoices'[i].sub].status \notin {"none", "trialing"}
    BY <1>0, <1>1, <1>2 DEF Books, Links, TypeOK, Invoice
  <2>2. \A s \in Subs :
          /\ subs[s].status # "none" => subs'[s].next_due >= subs[s].next_due
          /\ subs'[s].status = "trialing" => subs'[s].next_due <= subs'[s].trial_end
          /\ subs'[s].status = "past_due" => PaidPayments(s)' = {}
    BY <1>0, <1>1, <1>2, <1>4 DEF Books, Links
  <2> QED
    BY <1>0, <1>3, <2>1, <2>2, BooksKept
<1>6. BatchInv'
  BY <1>0, <1>1, <1>2 DEF BatchInv
<1>7. GraceInv'
  BY <1>0 DEF GraceInv, Nothing
<1> QED
  BY <1>3, <1>5, <1>6, <1>7 DEF IInv

-----------------------------------------------------------------------------
LEMMA InitInv == Init => IInv
<1> SUFFICES ASSUME Init PROVE IInv
  OBVIOUS
<1>1. TypeOK
  BY TypeInit
<1>2. Books
  BY DEF Init, Books, Links, OneOpenInvoice, BilledOnce, PastDueIsUnpaid, OpenPayments, Linked, NoRow
<1>3. BatchInv /\ GraceInv
  BY DEF Init, BatchInv, GraceInv, NoRow, Nothing
<1> QED
  BY <1>1, <1>2, <1>3 DEF IInv

\* Every action preserves the invariant.
LEMMA NextInv == IInv /\ [Next]_vars => IInv'
<1> SUFFICES ASSUME IInv, [Next]_vars PROVE IInv'
  OBVIOUS
<1>1. ASSUME NEW s \in Subs, Request(s) PROVE IInv'
  BY <1>1, CreateStep, UpdateStep, CancelStep, PrepayStep DEF Request
<1>2. ASSUME NEW i \in Invoices, Settle(i) \/ Expire(i) \/ cancel_invoice(i) PROVE IInv'
  BY <1>2, SettleStep, CloseStep
<1>3. ASSUME NEW s \in Subs, EndTrial(s) \/ RenewDue(s) \/ GraceWrite(s) PROVE IInv'
  BY <1>3, EndTrialStep, RenewStep, GraceWriteStep
<1>4. CASE SelectDue \/ GraceQuery \/ GraceCommit
  BY <1>4, SelectStep, GraceQueryStep, GraceCommitStep
<1>5. CASE StartSweep \/ TrialsDone \/ CommitBatch \/ Crash \/ Tick \/ UNCHANGED vars
  BY <1>5, StageStep
<1> QED
  BY <1>1, <1>2, <1>3, <1>4, <1>5 DEF Next, Renewer

LEMMA Invariant == Spec => []IInv
BY InitInv, NextInv, PTL DEF Spec

\* The types of the rows and of the renewer's copies of them hold throughout.
THEOREM TypeCorrect == Spec => []TypeOK
<1>1. IInv => TypeOK
  BY DEF IInv
<1> QED
  BY <1>1, Invariant, PTL

\* A subscriber never has two renewal invoices to pay at the same time.
THEOREM NoSecondOpenInvoice == Spec => []OneOpenInvoice
<1>1. IInv => OneOpenInvoice
  BY DEF IInv, Books
<1> QED
  BY <1>1, Invariant, PTL

\* No period is billed twice, whether the merchant's subscriber pays period
\* by period or in advance, and whatever stale copy of a row the renewer has.
THEOREM NoPeriodBilledTwice == Spec => []BilledOnce
<1>1. IInv => BilledOnce
  BY DEF IInv, Books
<1> QED
  BY <1>1, Invariant, PTL

\* No one who has paid is past due: no payment is lost between the grace
\* check's queries and its commit.
THEOREM NoPaymentOverlooked == Spec => []PastDueIsUnpaid
<1>1. IInv => PastDueIsUnpaid
  BY DEF IInv, Books
<1> QED
  BY <1>1, Invariant, PTL

-----------------------------------------------------------------------------
LEMMA NewPeriodOf ==
  ASSUME NEW s, NEW r, NEW x \in create_renewal_invoice(s, r), NEW p \in x.payments \ payments
  PROVE  p.sub = s
BY DEF create_renewal_invoice, Unchanged, Renewed

\* What is billed at creation is billed to an active subscription.
LEMMA CreateBills ==
  ASSUME IInv, NEW s \in Subs, create_subscription(s), NEW p \in payments' \ payments
  PROVE  subs'[p.sub].status = "active"
<1> PICK interval \in Intervals, trial \in TrialDays, offset \in StartOffsets :
      Create(s, NewRow(interval, trial, offset), trial = 0 /\ offset <= 0)
  BY DEF create_subscription
<1> DEFINE row == NewRow(interval, trial, offset)
<1>1. TypeOK /\ row \in Subscription
  BY NewRowType DEF IInv
<1>2. trial = 0 /\ offset <= 0
  BY DEF Create
<1>3. row.status = "active"
  BY <1>2 DEF NewRow
<1> HIDE DEF row
<1>4. PICK x \in create_renewal_invoice(s, row) :
        subs' = [subs EXCEPT ![s] = x.row] /\ payments' = x.payments
  BY <1>2 DEF Create, row
<1>5. x.row.status = "active"
  BY <1>1, <1>3, RenewalOutcome
<1> QED
  BY <1>1, <1>4, <1>5, NewPeriodOf DEF TypeOK

\* A period that is not prepaid is billed to an active subscription only: no
\* pause and no cancellation slips in between a batch's selection and its
\* renewals.
THEOREM NoDeadSubscriptionBilled == Spec => OnlyLiveAreBilled
<1> DEFINE Live == \A p \in payments' \ payments :
                     invoices'[p.invoice].periods = 0 => subs'[p.sub].status = "active"
<1>1. IInv /\ [Next]_vars => [Live]_vars
  <2> SUFFICES ASSUME IInv, Next, NEW p \in payments' \ payments, invoices'[p.invoice].periods = 0
               PROVE  subs'[p.sub].status = "active"
    OBVIOUS
  <2>1. ASSUME NEW s \in Subs, Request(s) PROVE subs'[p.sub].status = "active"
    <3>1. CASE create_subscription(s)
      BY <3>1, CreateBills
    <3>2. CASE ~ create_subscription(s)
      BY <2>1, <3>2 DEF Request, update_subscription, pause_subscription, resume_subscription,
         cancel_subscription, create_prepay_invoice
    <3> QED
      BY <3>1, <3>2
  <2>2. ASSUME NEW i \in Invoices, Settle(i) PROVE FALSE
    <3>1. /\ p \in Prepaid(invoices[i].sub, i) /\ invoices[i].periods > 0
          /\ invoices \in [Invoices -> Invoice]
          /\ \E status : invoices' = [invoices EXCEPT ![i].status = status]
      BY <2>2 DEF Settle, handle_subscription_payment, handle_prepay_payment, IInv, TypeOK
    <3>2. p.invoice = i
      BY <3>1 DEF Prepaid
    <3>3. invoices'[i].periods = invoices[i].periods
      BY <3>1 DEF Invoice
    <3> QED
      BY <3>1, <3>2, <3>3
  <2>3. ASSUME NEW s \in Subs, EndTrial(s) PROVE subs'[p.sub].status = "active"
    <3>1. p.sub = s
      BY <2>3, NewPeriodOf DEF EndTrial, Apply
    <3> QED
      BY <2>3, <3>1, EndTrialStep
  <2>4. ASSUME NEW s \in Subs, RenewDue(s) PROVE subs'[p.sub].status = "active"
    <3>1. p.sub = s
      BY <2>4, NewPeriodOf DEF RenewDue, Apply, rows
    <3> QED
      BY <2>4, <3>1, RenewStep
  <2>5. CASE payments' = payments
    BY <2>5
  <2>6. /\ \A i \in Invoices : Expire(i) \/ cancel_invoice(i) => payments' = payments
        /\ \A s \in Subs : GraceWrite(s) => payments' = payments
        /\ StartSweep \/ TrialsDone \/ SelectDue \/ CommitBatch \/ GraceQuery \/ GraceCommit
             \/ Crash \/ Tick => payments' = payments
    BY DEF Expire, cancel_invoice, Close, GraceWrite, StartSweep, TrialsDone, SelectDue,
       CommitBatch, GraceQuery, GraceCommit, Crash, Tick, rows
  <2> QED
    BY <2>1, <2>2, <2>3, <2>4, <2>5, <2>6 DEF Next, Renewer
<1> QED
  BY <1>1, Invariant, PTL DEF Spec, OnlyLiveAreBilled

-----------------------------------------------------------------------------
(* The calendar of billed periods.                                         *)

\* Subscriptions stay, and their due dates move forward.
Forward == \A s \in Subs : subs[s].status # "none" =>
             subs'[s].status # "none" /\ subs'[s].next_due >= subs[s].next_due

LEMMA GoesOnward == ASSUME IInv', Forward PROVE Calendar!Onward
BY DEF Calendar!Onward, Calendar!Paid, Calendar!PaidStatuses, PaidStatuses, Forward,
   IInv, Books, PastDueIsUnpaid, PaidPayments, Linked, StatusOf

\* A step that bills nothing and leads no invoice to "paid", or back to unpaid.
LEMMA Passes ==
  ASSUME IInv', Forward, payments' = payments,
         \A p \in payments :
           \/ StatusOf(p)' = StatusOf(p)
           \/ StatusOf(p) \notin PaidStatuses /\ StatusOf(p)' \notin PaidStatuses \cup OpenStatuses
           \/ StatusOf(p) \in OpenStatuses /\ StatusOf(p)' \in OpenStatuses
  PROVE  Calendar!Next
<1>1. Calendar!Owed' \subseteq Calendar!Owed /\ Calendar!Paid' = Calendar!Paid
  BY DEF Calendar!Owed, Calendar!Paid, Calendar!PaidStatuses, PaidStatuses, OpenStatuses, StatusOf
<1> QED
  BY <1>1, GoesOnward DEF Calendar!Next, Calendar!Pass

\* Starts are distinct once the books are right.
LEMMA Adds ==
  ASSUME IInv', Forward, NEW P, payments' = payments \cup P
  PROVE  Calendar!Add(P)
BY GoesOnward DEF Calendar!Add, IInv, Books, BilledOnce

\* An attempt to renew bills a period, or passes.
LEMMA Attempted ==
  ASSUME IInv, IInv', Forward, NEW s \in Subs, NEW r \in Subscription,
         NEW x \in create_renewal_invoice(s, r),
         invoices' = x.invoices, payments' = x.payments,
         subs[s].status \in {"none", "trialing", "active"}, subs'[s].status = "active",
         \A u \in Subs \ {s} : subs'[u] = subs[u]
  PROVE  Calendar!Next
<1>1. CASE invoices' = invoices /\ payments' = payments
  BY <1>1, Passes DEF StatusOf
<1>2. CASE MayRenew(s, r) /\ Billed(s, r.next_due, invoices', payments')
  <2> PICK i \in Free, expires \in Int, end \in Int :
        /\ invoices' = [invoices EXCEPT ![i] =
             [status |-> "pending", expires |-> expires, sub |-> s, periods |-> 0]]
        /\ payments' = payments \cup {[sub |-> s, invoice |-> i, start |-> r.next_due, end |-> end]}
    BY <1>2 DEF Billed
  <2> DEFINE p == [sub |-> s, invoice |-> i, start |-> r.next_due, end |-> end]
  <2>1. \A q \in payments : q.invoice # i /\ invoices'[q.invoice] = invoices[q.invoice]
    BY DEF IInv, TypeOK, Payment, Books, Links, Free
  <2>2. invoices'[i].status = "pending"
    BY DEF IInv, TypeOK, Free
  <2>3. p \in payments' \ payments /\ p.sub = s /\ p.invoice = i /\ payments' = payments \cup {p}
    BY <2>1
  <2> HIDE DEF p
  <2>4. Calendar!Owed' = Calendar!Owed \cup {p} /\ Calendar!Paid' = Calendar!Paid
    BY <2>1, <2>2, <2>3 DEF Calendar!Owed, Calendar!Paid, Calendar!PaidStatuses
  <2>5. \A q \in Calendar!Owed : q.sub # s
    BY <1>2 DEF Calendar!Owed, MayRenew, OpenPayments, Linked, StatusOf, OpenStatuses
  <2>6. p.start < subs'[p.sub].next_due
    BY <2>3 DEF IInv, Books, BilledOnce
  <2>7. Calendar!Bill(p)
    BY <2>3, <2>4, <2>5, <2>6, Adds DEF Calendar!Bill
  <2> QED
    BY <2>3, <2>7 DEF Calendar!Next
<1> QED
  BY <1>1, <1>2, RenewalOutcome DEF IInv

\* A request with the row lock that bills nothing, whatever it does to the row.
LEMMA RequestPasses ==
  ASSUME IInv, IInv', NEW s \in Subs,
         \/ update_subscription(s) \/ pause_subscription(s) \/ resume_subscription(s)
         \/ cancel_subscription(s) \/ create_prepay_invoice(s)
  PROVE  Calendar!Next
<1>1. /\ subs \in [Subs -> Subscription] /\ subs[s] \in Subscription /\ day \in Int
      /\ payments' = payments /\ subs[s].status # "none"
  BY DEF IInv, TypeOK, update_subscription, pause_subscription, resume_subscription,
     cancel_subscription, create_prepay_invoice
<1>2. /\ \A u \in Subs \ {s} : subs'[u] = subs[u]
      /\ subs'[s].next_due >= subs[s].next_due
  <2>1. CASE update_subscription(s)
    BY <1>1, <2>1 DEF update_subscription, Subscription
  <2>2. CASE pause_subscription(s)
    BY <1>1, <2>2 DEF pause_subscription, Subscription
  <2>3. CASE resume_subscription(s)
    BY <1>1, <2>3 DEF resume_subscription, Subscription
  <2>4. CASE cancel_subscription(s)
    BY <1>1, <2>4 DEF cancel_subscription, Subscription
  <2>5. CASE create_prepay_invoice(s)
    BY <1>1, <2>5 DEF create_prepay_invoice, Subscription
  <2> QED
    BY <2>1, <2>2, <2>3, <2>4, <2>5
<1>3. subs'[s].status # "none"
  BY <1>1 DEF update_subscription, pause_subscription, resume_subscription,
     cancel_subscription, create_prepay_invoice, Subscription
<1>4. Forward
  <2>1. \A u \in Subs : subs[u].next_due \in Int
    BY <1>1 DEF Subscription
  <2> QED
    BY <1>2, <1>3, <2>1 DEF Forward
<1>5. ASSUME NEW p \in payments
      PROVE  \/ StatusOf(p)' = StatusOf(p)
             \/ StatusOf(p) \notin PaidStatuses /\ StatusOf(p)' \notin PaidStatuses \cup OpenStatuses
  <2>1. p.invoice \in Invoices /\ invoices[p.invoice].status # "none"
    BY DEF IInv, TypeOK, Payment, Books, Links
  <2>2. CASE cancel_subscription(s)
    <3>1. PICK gone \in SUBSET {q.invoice : q \in {q \in Linked(s) : StatusOf(q) = "pending"}} :
            invoices' = [i \in Invoices |->
                           IF i \in gone THEN [invoices[i] EXCEPT !.status = "cancelled"]
                           ELSE invoices[i]]
      BY <2>2 DEF cancel_subscription
    <3>2. CASE p.invoice \in gone
      <4>1. invoices[p.invoice].status = "pending" /\ invoices[p.invoice] \in Invoice
        BY <2>1, <3>2 DEF StatusOf, IInv, TypeOK
      <4>2. invoices'[p.invoice].status = "cancelled"
        BY <2>1, <3>1, <3>2, <4>1 DEF Invoice
      <4> QED
        BY <4>1, <4>2 DEF StatusOf, PaidStatuses, OpenStatuses
    <3>3. CASE p.invoice \notin gone
      BY <2>1, <3>1, <3>3 DEF StatusOf
    <3> QED
      BY <3>2, <3>3
  <2>3. CASE create_prepay_invoice(s)
    <3>1. FreshInvoice \in Free
      BY <2>3, RoomIsFree DEF create_prepay_invoice
    <3>2. p.invoice # FreshInvoice
      BY <2>1, <3>1 DEF Free
    <3>3. invoices'[p.invoice] = invoices[p.invoice]
      BY <2>1, <2>3, <3>2 DEF create_prepay_invoice, IInv, TypeOK
    <3> QED
      BY <3>3 DEF StatusOf
  <2>4. CASE ~ cancel_subscription(s) /\ ~ create_prepay_invoice(s)
    BY <2>4 DEF update_subscription, pause_subscription, resume_subscription, StatusOf
  <2> QED
    BY <2>2, <2>3, <2>4
<1> QED
  BY <1>1, <1>4, <1>5, Passes

LEMMA CreatePasses ==
  ASSUME IInv, IInv', NEW s \in Subs, create_subscription(s)
  PROVE  Calendar!Next
<1> PICK interval \in Intervals, trial \in TrialDays, offset \in StartOffsets :
      Create(s, NewRow(interval, trial, offset), trial = 0 /\ offset <= 0)
  BY DEF create_subscription
<1> DEFINE row == NewRow(interval, trial, offset)
<1>1. /\ TypeOK /\ row \in Subscription /\ subs[s].status = "none"
      /\ trial = 0 => row.status = "active"
  <2>1. TypeOK /\ subs[s].status = "none"
    BY DEF IInv, create_subscription
  <2>2. row \in Subscription
    BY <2>1, NewRowType
  <2>3. trial = 0 => row.status = "active"
    BY DEF NewRow
  <2> QED
    BY <2>1, <2>2, <2>3
<1> HIDE DEF row
<1>2. \A u \in Subs \ {s} : subs'[u] = subs[u]
  BY <1>1 DEF Create, TypeOK
<1>3. Forward
  <2>1. \A u \in Subs : subs[u].next_due \in Int
    BY <1>1 DEF TypeOK, Subscription
  <2> QED
    BY <1>1, <1>2, <2>1 DEF Forward
<1>4. CASE ~ (trial = 0 /\ offset <= 0)
  <2>1. UNCHANGED <<invoices, payments>>
    BY <1>4 DEF Create
  <2> QED
    BY <1>3, <2>1, Passes DEF StatusOf
<1>5. CASE trial = 0 /\ offset <= 0
  <2>1. PICK x \in create_renewal_invoice(s, row) :
          /\ subs' = [subs EXCEPT ![s] = x.row]
          /\ invoices' = x.invoices /\ payments' = x.payments
    BY <1>5 DEF Create, row
  <2>2. subs'[s].status = "active"
    BY <1>1, <1>5, <2>1, RenewalOutcome DEF TypeOK
  <2> QED
    BY <1>1, <1>2, <1>3, <2>1, <2>2, Attempted
<1> QED
  BY <1>4, <1>5

\* The end of a trial, and a renewal, are attempts to renew.
LEMMA EndTrialPasses ==
  ASSUME IInv, IInv', NEW s \in Subs, EndTrial(s)
  PROVE  Calendar!Next
<1> DEFINE row == [subs[s] EXCEPT !.status = "active", !.next_due = day]
<1>0. /\ TypeOK /\ subs[s] \in Subscription /\ subs[s].status = "trialing"
      /\ subs[s].next_due <= subs[s].trial_end /\ subs[s].trial_end <= day
      /\ day \in Int /\ subs[s].next_due \in Int /\ subs[s].trial_end \in Int
  BY DEF IInv, TypeOK, Books, Links, EndTrial, TrialDue, Subscription
<1>1. row \in Subscription /\ row.status = "active" /\ row.next_due = day
  BY <1>0 DEF Subscription, SubscriptionStatus
<1>2. PICK x \in create_renewal_invoice(s, row) : Apply(s, subs[s], x)
  BY DEF EndTrial
<1> HIDE DEF row
<1>3. /\ x.row \in Subscription /\ x.row.status = "active"
      /\ x.row.next_due >= day /\ x.row.next_due \in Int
  BY <1>0, <1>1, RenewalOutcome DEF Subscription
<1> DEFINE new == Flushed(subs[s], subs[s], x.row)
<1>4. new.status = "active" /\ new.next_due = x.row.next_due
  BY <1>0, <1>3, FlushedRow
<1>5. subs' = [subs EXCEPT ![s] = new] /\ invoices' = x.invoices /\ payments' = x.payments
  BY <1>2 DEF Apply
<1> HIDE DEF new
<1>6. subs'[s] = new /\ \A u \in Subs \ {s} : subs'[u] = subs[u]
  BY <1>0, <1>5 DEF TypeOK
<1>7. Forward
  <2>1. \A u \in Subs : subs[u].next_due \in Int
    BY <1>0 DEF TypeOK, Subscription
  <2>2. new.next_due >= subs[s].next_due
    BY <1>0, <1>3, <1>4
  <2> QED
    BY <1>4, <1>6, <2>1, <2>2 DEF Forward
<1> QED
  BY <1>0, <1>1, <1>4, <1>5, <1>6, <1>7, Attempted

LEMMA RenewPasses ==
  ASSUME IInv, IInv', NEW s \in Subs, RenewDue(s)
  PROVE  Calendar!Next
<1>0. /\ TypeOK /\ subs[s] \in Subscription /\ batch[s] \in Subscription
      /\ subs[s].status = "active" /\ subs[s].next_due <= day
      /\ day \in Int /\ subs[s].next_due \in Int
  BY DEF IInv, BatchInv, TypeOK, RenewDue, Due, Subscription
<1>1. \A u \in Subs : subs[u].next_due \in Int
  BY <1>0 DEF TypeOK, Subscription
<1>2. CASE UNCHANGED <<rows, batch>>
  <2>1. Forward
    BY <1>1, <1>2 DEF Forward, rows
  <2> QED
    BY <1>2, <2>1, Passes DEF rows, StatusOf
<1>3. CASE \E x \in create_renewal_invoice(s, [batch[s] EXCEPT !.prepay = NoInvoice]) :
             Apply(s, batch[s], x)
  <2> DEFINE row == [batch[s] EXCEPT !.prepay = NoInvoice]
  <2>1. /\ row \in Subscription /\ row.status = batch[s].status
        /\ row.next_due = batch[s].next_due
    BY <1>0 DEF Subscription
  <2> PICK x \in create_renewal_invoice(s, row) : Apply(s, batch[s], x)
    BY <1>3
  <2> HIDE DEF row
  <2>2. /\ x.row \in Subscription /\ x.row.status = batch[s].status
        /\ x.row.next_due = batch[s].next_due \/ x.row.next_due > day
        /\ x.row.next_due \in Int
    BY <1>0, <2>1, RenewalOutcome DEF Subscription
  <2> DEFINE new == Flushed(subs[s], batch[s], x.row)
  <2>3. /\ new.status = "active"
        /\ new.next_due = IF x.row.next_due = batch[s].next_due THEN subs[s].next_due
                          ELSE x.row.next_due
    BY <1>0, <2>2, FlushedRow
  <2>4. subs' = [subs EXCEPT ![s] = new] /\ invoices' = x.invoices /\ payments' = x.payments
    BY DEF Apply
  <2> HIDE DEF new
  <2>5. subs'[s] = new /\ \A u \in Subs \ {s} : subs'[u] = subs[u]
    BY <1>0, <2>4 DEF TypeOK
  <2>6. Forward
    <3>1. new.next_due >= subs[s].next_due
      BY <1>0, <2>2, <2>3
    <3> QED
      BY <1>1, <2>3, <2>5, <3>1 DEF Forward
  <2> QED
    BY <1>0, <2>1, <2>3, <2>4, <2>5, <2>6, Attempted
<1> QED
  BY <1>2, <1>3 DEF RenewDue

\* An invoice that lapses, and one that is voided, whatever it has become.
LEMMA ClosePasses ==
  ASSUME IInv, IInv', NEW i \in Invoices, Expire(i) \/ cancel_invoice(i)
  PROVE  Calendar!Next
<1>0. PICK status \in {"expired", "cancelled"} :
        Close(i, status) /\ (status = "expired" => invoices[i].status = "pending")
  BY DEF Expire, cancel_invoice
<1>1. /\ TypeOK /\ UNCHANGED <<subs, payments>>
      /\ invoices' = [invoices EXCEPT ![i].status = status]
  BY <1>0 DEF IInv, Close
<1>2. invoices'[i].status = status /\ \A j \in Invoices \ {i} : invoices'[j] = invoices[j]
  BY <1>1 DEF TypeOK, Invoice
<1>3. \A p \in payments : p.invoice \in Invoices
  BY <1>1 DEF TypeOK, Payment
<1>4. CASE status = "expired"
  <2>1. Forward
    BY <1>1 DEF Forward, TypeOK, Subscription
  <2>2. ASSUME NEW p \in payments
        PROVE  \/ StatusOf(p)' = StatusOf(p)
               \/ StatusOf(p) \notin PaidStatuses /\ StatusOf(p)' \notin PaidStatuses \cup OpenStatuses
    BY <1>0, <1>1, <1>2, <1>3, <1>4 DEF StatusOf, PaidStatuses, OpenStatuses
  <2> QED
    BY <1>1, <2>1, <2>2, Passes
<1>5. CASE status = "cancelled"
  <2> DEFINE P == {p \in payments : p.invoice = i}
  <2>1. Calendar!Owed' = Calendar!Owed \ P /\ Calendar!Paid' = Calendar!Paid \ P
    BY <1>1, <1>2, <1>3, <1>5 DEF Calendar!Owed, Calendar!Paid, Calendar!PaidStatuses
  <2>2. Calendar!Void(i) /\ i \in DOMAIN invoices
    BY <1>1, <1>2, <1>5, <2>1 DEF Calendar!Void, TypeOK
  <2> QED
    BY <2>2 DEF Calendar!Next
<1> QED
  BY <1>4, <1>5

\* The rows stay, or the grace check commits their statuses.
LEMMA SweepPasses ==
  ASSUME IInv, IInv', UNCHANGED <<invoices, payments>>,
         \A s \in Subs : \/ subs'[s] = subs[s]
                         \/ subs'[s] = [subs[s] EXCEPT !.status = Current(s)]
  PROVE  Calendar!Next
<1>1. ASSUME NEW s \in Subs, subs[s].status # "none"
      PROVE  subs'[s].status # "none" /\ subs'[s].next_due >= subs[s].next_due
  <2>1. subs[s] \in Subscription /\ subs[s].next_due \in Int /\ Current(s) # "none"
    BY <1>1 DEF IInv, TypeOK, Current, Subscription
  <2>2. /\ subs'[s].next_due = subs[s].next_due
        /\ subs'[s].status \in {subs[s].status, Current(s)}
    BY <2>1 DEF Subscription
  <2> QED
    BY <1>1, <2>1, <2>2
<1> QED
  BY <1>1, Passes DEF Forward, StatusOf

-----------------------------------------------------------------------------
\* A payment: what was billed is paid, or periods are billed and paid at once.
LEMMA PaysPrepaid ==
  ASSUME IInv, IInv', NEW s \in Subs, NEW i \in Invoices, NEW status \in PaidStatuses,
         s = invoices[i].sub, invoices[i].periods > 0,
         invoices[i].status \notin PaidStatuses \cup {"none", "cancelled"},
         invoices' = [invoices EXCEPT ![i].status = status],
         handle_prepay_payment(s, i)
  PROVE  Calendar!Prepay(s, payments' \ payments)
<1> DEFINE n  == invoices[i].periods
           iv == subs[s].interval
           nd == subs[s].next_due
           P  == Prepaid(s, i)
           start(k) == nd + (k - 1) * iv
           end(k)   == nd + k * iv
           period(k) == [sub |-> s, invoice |-> i, start |-> start(k), end |-> end(k)]
<1>0. /\ TypeOK /\ Books /\ n \in Nat \ {0} /\ iv \in Nat \ {0} /\ nd \in Int
      /\ subs[s] \in Subscription /\ subs[s].status \notin {"none", "trialing"}
  BY DEF IInv, TypeOK, Invoice, Subscription, Books, Links
<1>1. \A p \in payments : p.invoice \in Invoices \ {i}
  BY <1>0 DEF TypeOK, Payment, Books, Links, StatusOf
<1>2. /\ payments' = payments \cup P
      /\ subs' = [subs EXCEPT ![s].next_due = nd + n * iv, ![s].prepay = NoInvoice,
                              ![s].status = Recovered(@)]
  BY <1>1 DEF handle_prepay_payment
<1>3. P = {period(k) : k \in 1 .. n}
  BY DEF Prepaid
<1>4. \A k \in 1 .. n :
        /\ start(k) \in Int /\ end(k) \in Int /\ start(k) < end(k)
        /\ k = 1 => start(k) = nd
        /\ k # 1 => k - 1 \in 1 .. n /\ end(k - 1) = start(k)
        /\ k # n => k + 1 \in 1 .. n /\ start(k + 1) = end(k)
  <2> SUFFICES ASSUME NEW k \in 1 .. n
               PROVE  /\ start(k) \in Int /\ end(k) \in Int /\ start(k) < end(k)
                      /\ k = 1 => start(k) = nd
                      /\ k # 1 => k - 1 \in 1 .. n /\ end(k - 1) = start(k)
                      /\ k # n => k + 1 \in 1 .. n /\ start(k + 1) = end(k)
    OBVIOUS
  <2>1. k - 1 \in Nat /\ k \in Nat /\ k - 1 < k /\ (k + 1) - 1 = k
        /\ (k # 1 => k - 1 \in 1 .. n) /\ (k # n => k + 1 \in 1 .. n)
    BY <1>0
  <2>2. (k - 1) * iv \in Nat /\ k * iv \in Nat /\ (k - 1) * iv < k * iv
    BY <1>0, <2>1, MultiplesOrdered
  <2>3. k = 1 => (k - 1) * iv = 0
    BY <1>0
  <2> HIDE DEF n, iv, nd
  <2> QED
    BY <1>0, <2>1, <2>2, <2>3
<1>5. /\ subs'[s].next_due = end(n)
      /\ subs'[s].status = Recovered(subs[s].status)
      /\ \A u \in Subs \ {s} : subs'[u] = subs[u]
  <2> DEFINE due == end(n)
  <2>1. subs' = [subs EXCEPT ![s] = [subs[s] EXCEPT !.next_due = due, !.prepay = NoInvoice,
                                                    !.status = Recovered(@)]]
    BY <1>2, <1>0 DEF TypeOK
  <2> HIDE DEF due
  <2>2. subs'[s].next_due = due /\ subs'[s].status = Recovered(subs[s].status)
    BY <2>1, <1>0 DEF TypeOK, Subscription
  <2> QED
    BY <1>0, <2>1, <2>2 DEF due, TypeOK
<1>6. end(n) >= nd
  <2>1. n * iv \in Nat
    BY <1>0, MultiplesOrdered
  <2> HIDE DEF n, iv, nd
  <2> QED
    BY <1>0, <2>1
<1> HIDE DEF start, end
<1>7. \A p \in P : \E k \in 1 .. n : p = period(k)
  BY <1>3
<1>8. \A k \in 1 .. n : period(k) \in P
  BY <1>3
<1>9. P # {} /\ P \cap payments = {}
  <2>1. 1 \in 1 .. n
    BY <1>0
  <2>2. \A p \in P : p.invoice = i
    BY <1>7
  <2> HIDE DEF P, n
  <2> QED
    BY <1>1, <1>8, <2>1, <2>2
<1>10. \A p \in P : /\ p.sub = s /\ p.invoice = i /\ p.start < p.end
                    /\ p.start = nd \/ \E q \in P : q.end = p.start
                    /\ p.end = subs'[s].next_due \/ \E q \in P : q.start = p.end
  <2> SUFFICES ASSUME NEW p \in P
               PROVE  /\ p.sub = s /\ p.invoice = i /\ p.start < p.end
                      /\ p.start = nd \/ \E q \in P : q.end = p.start
                      /\ p.end = subs'[s].next_due \/ \E q \in P : q.start = p.end
    OBVIOUS
  <2> PICK k \in 1 .. n : p = period(k)
    BY <1>7
  <2>1. p.sub = s /\ p.invoice = i /\ p.start = start(k) /\ p.end = end(k)
    OBVIOUS
  <2>2. k # 1 => \E q \in P : q.end = p.start
    BY <1>4, <1>8, <2>1
  <2>3. k # n => \E q \in P : q.start = p.end
    BY <1>4, <1>8, <2>1
  <2> HIDE DEF P, n, nd
  <2> QED
    BY <1>4, <1>5, <2>1, <2>2, <2>3
<1> HIDE DEF P, n, iv
<1>11. /\ invoices'[i].status = status
       /\ \A p \in payments : invoices'[p.invoice] = invoices[p.invoice]
  BY <1>0, <1>1 DEF TypeOK, Invoice
<1>12. Calendar!Owed' = Calendar!Owed /\ Calendar!Paid' = Calendar!Paid \cup P
  BY <1>2, <1>10, <1>11 DEF Calendar!Owed, Calendar!Paid, Calendar!PaidStatuses, PaidStatuses
<1>13. Calendar!Recover(s)
  BY <1>5 DEF Calendar!Recover, Recovered
<1>14. Forward
  <2>1. \A u \in Subs : subs[u].next_due \in Int
    BY <1>0 DEF TypeOK, Subscription
  <2> QED
    BY <1>0, <1>5, <1>6, <2>1 DEF Forward, Recovered
<1>15. Calendar!Add(P)
  BY <1>2, <1>14, Adds
<1>16. payments' \ payments = P
  BY <1>2, <1>9
<1> QED
  BY <1>0, <1>9, <1>10, <1>12, <1>13, <1>15, <1>16 DEF Calendar!Prepay

LEMMA SettlePasses ==
  ASSUME IInv, IInv', NEW i \in Invoices, Settle(i)
  PROVE  Calendar!Next
<1> PICK s \in Subs : s = invoices[i].sub
  BY DEF IInv, TypeOK, Invoice
<1>0. PICK status \in {"partially_paid", "paid", "late_paid"} :
        /\ can_transition(invoices[i].status, status)
        /\ invoices' = [invoices EXCEPT ![i].status = status]
        /\ IF status \in PaidStatuses
           THEN handle_subscription_payment(s, i)
           ELSE UNCHANGED <<subs, payments>>
  BY DEF Settle
<1>1. TypeOK /\ Books /\ invoices[i].status \notin PaidStatuses
  BY DEF IInv, Settle
<1>2. /\ status \notin PaidStatuses => status \in OpenStatuses /\ invoices[i].status \in OpenStatuses
      /\ invoices[i].status \notin {"none", "cancelled"}
  BY <1>0, <1>1 DEF can_transition, VALID_TRANSITIONS, OpenStatuses, PaidStatuses
<1>3. invoices'[i].status = status /\ \A j \in Invoices \ {i} : invoices'[j] = invoices[j]
  BY <1>0, <1>1 DEF TypeOK, Invoice
<1>4. /\ subs[s] \in Subscription /\ subs[s].status \notin {"none", "trialing"}
      /\ \A u \in Subs : subs[u].next_due \in Int
      /\ \A p \in payments : p.invoice \in Invoices /\ invoices[p.invoice].sub = p.sub
  BY <1>1, <1>2 DEF TypeOK, Subscription, Payment, Books, Links
<1>5. CASE status \notin PaidStatuses
  <2>1. Forward /\ payments' = payments
    BY <1>0, <1>4, <1>5 DEF Forward
  <2>2. \A p \in payments : \/ StatusOf(p)' = StatusOf(p)
                            \/ StatusOf(p) \in OpenStatuses /\ StatusOf(p)' \in OpenStatuses
    BY <1>2, <1>3, <1>4, <1>5 DEF StatusOf
  <2> QED
    BY <2>1, <2>2, Passes
<1>6. CASE status \in PaidStatuses /\ invoices[i].periods > 0
  <2>1. handle_prepay_payment(s, i)
    BY <1>0, <1>6 DEF handle_subscription_payment
  <2>2. Calendar!Prepay(s, payments' \ payments)
    BY <1>0, <1>1, <1>2, <1>6, <2>1, PaysPrepaid
  <2> QED
    BY <2>2 DEF Calendar!Next
<1>7. CASE status \in PaidStatuses /\ ~ (invoices[i].periods > 0)
  <2>1. subs' = [subs EXCEPT ![s].status = Recovered(@)] /\ payments' = payments
    BY <1>0, <1>7 DEF handle_subscription_payment
  <2>2. /\ subs'[s].status = Recovered(subs[s].status)
        /\ subs'[s].next_due = subs[s].next_due
        /\ \A u \in Subs \ {s} : subs'[u] = subs[u]
    BY <1>1, <1>4, <2>1 DEF TypeOK, Subscription
  <2>3. Forward
    BY <1>4, <2>2 DEF Forward, Recovered
  <2> DEFINE P == {p \in payments : p.invoice = i}
  <2>4. CASE P = {}
    <3>1. \A p \in payments : StatusOf(p)' = StatusOf(p)
      BY <1>3, <1>4, <2>4 DEF StatusOf
    <3> QED
      BY <2>1, <2>3, <3>1, Passes
  <2>5. CASE P # {}
    <3>1. PICK p \in P : TRUE
      BY <2>5
    <3>2. p \in payments /\ p.sub = s /\ p.invoice = i
      BY <1>4
    <3>3. \A q \in P : q.sub = s /\ q \notin Calendar!Paid
      BY <1>1, <1>4 DEF Calendar!Paid, Calendar!PaidStatuses, PaidStatuses
    <3>4. Calendar!Owed' = Calendar!Owed \ P /\ Calendar!Paid' = Calendar!Paid \cup P
      BY <1>1, <1>3, <1>4, <1>7, <2>1
         DEF Calendar!Owed, Calendar!Paid, Calendar!PaidStatuses, PaidStatuses
    <3>5. Calendar!Recover(s)
      BY <2>2 DEF Calendar!Recover, Recovered
    <3>6. Calendar!Pay(s, i)
      BY <2>1, <2>2, <2>3, <3>3, <3>4, <3>5, GoesOnward DEF Calendar!Pay
    <3> QED
      BY <3>2, <3>6 DEF Calendar!Next
  <2> QED
    BY <2>4, <2>5
<1> QED
  BY <1>5, <1>6, <1>7

\* Every step of the subscriptions is a step of the calendar.
LEMMA NextPasses == IInv /\ IInv' /\ [Next]_vars => [Calendar!Next]_(Calendar!vars)
<1> SUFFICES ASSUME IInv, IInv', Next PROVE Calendar!Next
  BY DEF vars, rows, Calendar!vars
<1>1. ASSUME NEW s \in Subs, Request(s) PROVE Calendar!Next
  BY <1>1, CreatePasses, RequestPasses DEF Request
<1>2. ASSUME NEW i \in Invoices, Settle(i) \/ Expire(i) \/ cancel_invoice(i) PROVE Calendar!Next
  BY <1>2, SettlePasses, ClosePasses
<1>3. ASSUME NEW s \in Subs, EndTrial(s) \/ RenewDue(s) PROVE Calendar!Next
  BY <1>3, EndTrialPasses, RenewPasses
<1>4. CASE UNCHANGED rows
  BY <1>4, SweepPasses DEF rows
<1>5. CASE GraceCommit
  BY <1>5, SweepPasses DEF GraceCommit
<1>6. /\ \A s \in Subs : GraceWrite(s) => UNCHANGED rows
      /\ StartSweep \/ TrialsDone \/ SelectDue \/ CommitBatch \/ GraceQuery \/ Crash \/ Tick
           => UNCHANGED rows
  BY DEF GraceWrite, StartSweep, TrialsDone, SelectDue, CommitBatch, GraceQuery, Crash, Tick
<1> QED
  BY <1>1, <1>2, <1>3, <1>4, <1>5, <1>6 DEF Next, Renewer

\* Requests, sweeps, stale copies, grace checks, crashes and payments add up
\* to an orderly calendar: a period is billed to an active subscriber who owes
\* nothing, prepaid periods follow upon each other, what is paid stays paid,
\* and due dates never move back.
THEOREM CalendarImplemented == Spec => ImplementsCalendar
<1>1. Init => Calendar!Init
  BY DEF Init, NoRow, Calendar!Init
<1> QED
  BY <1>1, NextPasses, Invariant, NextInv, PTL DEF Spec, ImplementsCalendar, Calendar!Spec
=============================================================================
