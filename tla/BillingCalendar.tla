--------------------------- MODULE BillingCalendar ---------------------------
(***************************************************************************)
(* What the billing of subscriptions promises, with no sweep, session,     *)
(* lock or grace check in sight.  A subscription has a due date that never *)
(* moves back.  A period is billed to a subscriber who is active and owes  *)
(* nothing, and the due date moves past its start; periods that are        *)
(* prepaid follow upon each other from the due date on.  No two periods of *)
(* a subscription start at the same time, and none is ever taken back.     *)
(* What is owed is paid or lapses.  What is paid stays paid unless its     *)
(* invoice is voided: by a cancellation, which may have been meant for an  *)
(* unpaid one.  Whoever has paid, and was not voided, is not past due.     *)
(* Subscriptions implements this module; of its rows only the columns      *)
(* named here matter.                                                      *)
(***************************************************************************)
EXTENDS InvoiceRules

CONSTANT Subs

VARIABLES subs,      \* subs[s]: its status, "none" before it exists, and next_due
          invoices,  \* invoices[i]: its status
          payments   \* the periods that are billed: sub, invoice, start and end

vars == <<subs, invoices, payments>>

Owed == {p \in payments : invoices[p.invoice].status \in {"pending", "partially_paid"}}
Paid == {p \in payments : invoices[p.invoice].status \in PaidStatuses}

Init == /\ \A s \in Subs : subs[s].status = "none"
        /\ \A i \in DOMAIN invoices : invoices[i].status = "none"
        /\ payments = {}

\* What every step does, whatever else it does.
Onward ==
  \A s \in Subs :
    /\ subs[s].status # "none" => subs'[s].status # "none" /\ subs'[s].next_due >= subs[s].next_due
    /\ subs'[s].status = "past_due" => \A p \in Paid' : p.sub # s

\* Time passes, or somebody does something else: nothing is billed or paid, and
\* some of what is owed may lapse.
Pass == /\ payments' = payments
        /\ invoices' = invoices \/ (Owed' \subseteq Owed /\ Paid' = Paid)
        /\ Onward

\* The periods P are billed, and no other starts when one of them does.
Add(P) == /\ payments' = payments \cup P
          /\ \A p \in P, q \in payments' : p.sub = q.sub /\ p.start = q.start => p = q
          /\ Onward

\* A renewal: others keep their rows.
Bill(p) ==
  /\ subs[p.sub].status \in {"none", "trialing", "active"}
  /\ \A q \in Owed : q.sub # p.sub
  /\ subs'[p.sub].status = "active" /\ p.start < subs'[p.sub].next_due
  /\ \A s \in Subs \ {p.sub} : subs'[s] = subs[s]
  /\ Add({p})
  /\ Owed' = Owed \cup {p} /\ Paid' = Paid

\* A payment brings a subscriber back, and changes nobody else's row.
Recover(s) ==
  /\ subs'[s].status = IF subs[s].status = "past_due" THEN "active" ELSE subs[s].status
  /\ \A u \in Subs \ {s} : subs'[u] = subs[u]

Prepay(s, P) ==
  /\ subs[s].status # "none"
  /\ P # {}
  /\ \A p \in P : /\ p.sub = s /\ p.start < p.end
                  /\ p.start = subs[s].next_due \/ \E q \in P : q.end = p.start
                  /\ p.end = subs'[s].next_due  \/ \E q \in P : q.start = p.end
  /\ Recover(s) /\ Add(P)
  /\ Owed' = Owed /\ Paid' = Paid \cup P

Pay(s, i) ==
  LET P == {p \in payments : p.invoice = i} IN
  /\ \A p \in P : p.sub = s /\ p \notin Paid
  /\ Owed' = Owed \ P /\ Paid' = Paid \cup P
  /\ Recover(s) /\ Onward
  /\ subs'[s].next_due = subs[s].next_due /\ UNCHANGED payments

\* A cancellation takes an invoice out of the books, paid or not, and changes
\* nothing else: its periods stay billed, and the subscription keeps its row.
Void(i) ==
  LET P == {p \in payments : p.invoice = i} IN
  /\ invoices'[i].status = "cancelled"
  /\ Owed' = Owed \ P /\ Paid' = Paid \ P
  /\ UNCHANGED <<subs, payments>>

Next == \/ Pass
        \/ \E i \in DOMAIN invoices : Void(i)
        \/ \E p \in payments' \ payments : Bill(p)
        \/ \E s \in Subs : Prepay(s, payments' \ payments)
        \/ \E p \in payments : Pay(p.sub, p.invoice)

Spec == Init /\ [][Next]_vars
=============================================================================
