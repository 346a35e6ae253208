-------------------------- MODULE SettlementProofs --------------------------
(***************************************************************************)
(* Theorems about Settlement for every set of invoices and transactions,   *)
(* every amount, threshold and bound.                                      *)
(***************************************************************************)
EXTENDS Settlement, TLAPS

-----------------------------------------------------------------------------
(* Lemmas about InvoiceRules and the helpers of Settlement. *)

\* An invoice without confirmed payments has a total of 0 (the coalesce of
\* sum_invoice_payments).
LEMMA EmptySum == ASSUME NEW i \in Invoice PROVE Sum[i][{}] = 0
BY SumAssumption

\* A recalculation yields a status, keeps a cancelled invoice cancelled, and
\* does not move an invoice between the open and the late part of its life.
LEMMA RecalculatedKeepsPhase ==
  ASSUME NEW s \in InvoiceStatus, NEW total, NEW required
  PROVE  /\ Recalculated(s, total, required) \in InvoiceStatus
         /\ PhaseOf(Recalculated(s, total, required)) = PhaseOf(s)
BY DEF Recalculated, TargetStatus, can_transition, VALID_TRANSITIONS, InvoiceStatus, PhaseOf

\* The status is right for the total: the transition table and the detour
\* over "paid" never stand in the way of the target.
LEMMA RecalculatedFits ==
  ASSUME NEW s \in InvoiceStatus, NEW total, NEW required
  PROVE  Fits(Recalculated(s, total, required), total, required)
BY DEF Fits, Recalculated, TargetStatus, can_transition, VALID_TRANSITIONS, InvoiceStatus

\* The invoice events of a change of status are invoice events.
LEMMA InvoiceEventsTyped ==
  ASSUME NEW s, NEW r, NEW old \in InvoiceEvents \cup {"none"}
  PROVE  /\ InvoiceEventsFor(s, r) \subseteq InvoiceEvents
         /\ (IF InvoiceEventsFor(s, r) = {} THEN old
             ELSE CHOOSE e \in InvoiceEventsFor(s, r) : TRUE) \in InvoiceEvents \cup {"none"}
<1>1. InvoiceEventsFor(s, r) \subseteq InvoiceEvents
  BY DEF InvoiceEventsFor, InvoiceEvents
<1>2. InvoiceEventsFor(s, r) # {} => (CHOOSE e \in InvoiceEventsFor(s, r) : TRUE) \in InvoiceEventsFor(s, r)
  OBVIOUS
<1> QED BY <1>1, <1>2

\* Dispatching keeps the types of what it writes.
LEMMA DispatchTyped ==
  ASSUME TypeOK, NEW t \in Tx, NEW i \in Invoice, NEW P, NEW s, NEW r,
         Dispatch(t, P, i, InvoiceEventsFor(s, r))
  PROVE  /\ notified' \in [Tx -> Counts]
         /\ told' \in [Invoice -> InvoiceEvents \cup {"none"}]
<1>1. \A e \in PaymentEvents : Bump(notified[t][e], e \in P) \in 0 .. 2
  <2> TAKE e \in PaymentEvents
  <2>1. notified[t][e] \in 0 .. 2
    BY DEF TypeOK, Counts
  <2> QED BY <2>1 DEF Bump
<1>2. [e \in PaymentEvents |-> Bump(notified[t][e], e \in P)] \in Counts
  BY <1>1 DEF Counts
<1>3. notified' \in [Tx -> Counts]
  BY <1>2 DEF Dispatch, TypeOK
<1>4. told' \in [Invoice -> InvoiceEvents \cup {"none"}]
  BY InvoiceEventsTyped DEF Dispatch, TypeOK
<1> QED BY <1>3, <1>4

\* A payment that is looked at has a status, and only grows in it.
LEMMA UpdatedStatusTyped ==
  ASSUME NEW b \in PaymentStatus \cup {"none"}, NEW sight
  PROVE  /\ UpdatedStatus(b, sight) \in PaymentStatus
         /\ b \in {"confirmed", "orphaned"} => UpdatedStatus(b, sight) = b
         /\ UpdatedStatus(b, sight) = "orphaned" => b = "orphaned"
BY DEF UpdatedStatus, PaymentStatus

-----------------------------------------------------------------------------
(***************************************************************************)
(* The inductive invariant needs to know that a payment row belongs to an  *)
(* invoice that exists and that its transaction really pays: then a        *)
(* transfer of another invoice cannot disturb the total of an exclusive    *)
(* one, and an invoice yet to be created has no payments.                  *)
(***************************************************************************)
RowsBelong ==
  \A t \in Tx : pay[t] # "none" =>
    /\ credited[t] \in Invoice
    /\ status[credited[t]] # "none"
    /\ Pays[t][credited[t]] > 0

\* No process remembers more misses than it has had in a row.
MissesCounted == \A p \in Process, t \in Tx : miss[p][t] <= streak[p][t]

IInv == TypeOK /\ RowsBelong /\ MissesCounted

\* The inductive invariant holds before there are any invoices.
LEMMA InitIInv == Init => IInv
BY AmountAssumption, BoundAssumption, NoInvoiceAssumption
DEF Init, IInv, TypeOK, RowsBelong, MissesCounted, Sight, Counts, InvoiceStatus

\* A recalculation of an invoice that exists keeps the type of the statuses,
\* and which invoices exist.
LEMMA RecalculateTyped ==
  ASSUME TypeOK, NEW i \in Invoice, status[i] # "none", Recalculate(i)
  PROVE  /\ status' \in [Invoice -> InvoiceStatus \cup {"none"}]
         /\ \A j \in Invoice : status'[j] = "none" <=> status[j] = "none"
         /\ \A j \in Invoice : PhaseOf(status'[j]) = PhaseOf(status[j])
<1>1. status[i] \in InvoiceStatus
  BY DEF TypeOK
<1> DEFINE r == Recalculated(status[i], Total(i)', Required[i])
<1>2. r \in InvoiceStatus /\ PhaseOf(r) = PhaseOf(status[i])
  BY <1>1, RecalculatedKeepsPhase
<1>3. status' = [status EXCEPT ![i] = r]
  BY DEF Recalculate
<1> HIDE DEF r
<1> QED BY <1>2, <1>3 DEF TypeOK, InvoiceStatus

\* Every step preserves it.
LEMMA NextIInv == IInv /\ [Next]_vars => IInv'
<1> SUFFICES ASSUME IInv, [Next]_vars PROVE IInv'
  OBVIOUS
<1> USE DEF IInv
<1>1. ASSUME NEW t \in Tx, WalletChanges(t) PROVE IInv'
  <2>1. TypeOK'
    BY <1>1 DEF WalletChanges, TypeOK, invoiceVars, paymentVars, pollVars
  <2> QED BY <1>1, <2>1 DEF WalletChanges, RowsBelong, MissesCounted, invoiceVars, paymentVars, pollVars
<1>2. ASSUME NEW p \in Process, NEW t \in Tx, PollMisses(p, t) PROVE IInv'
  <2>1. TypeOK' /\ MissesCounted'
    BY <1>2, BoundAssumption
    DEF PollMisses, CountsMiss, TypeOK, MissesCounted, invoiceVars, paymentVars
  <2> QED BY <1>2, <2>1 DEF PollMisses, RowsBelong, invoiceVars, paymentVars
<1>3. ASSUME NEW p \in Process, NEW t \in Tx, PollOrphans(p, t) PROVE IInv'
  <2> DEFINE i == credited[t]
  <2>1. i \in Invoice /\ status[i] # "none"
    BY <1>3 DEF PollOrphans, RowsBelong
  <2>2. Recalculate(i) /\ Dispatch(t, PaymentEventsFor("detected", "orphaned", status[i]),
                                    i, InvoiceEventsFor(status[i], status'[i]))
    BY <1>3 DEF PollOrphans
  <2> HIDE DEF i
  <2>3. TypeOK'
    BY <1>3, <2>1, <2>2, RecalculateTyped, DispatchTyped, BoundAssumption
    DEF PollOrphans, CountsMiss, TypeOK, PaymentStatus
  <2>4. RowsBelong'
    BY <1>3, <2>1, <2>2, RecalculateTyped DEF PollOrphans, RowsBelong, TypeOK
  <2>5. MissesCounted'
    BY <1>3, BoundAssumption DEF PollOrphans, CountsMiss, MissesCounted, TypeOK
  <2> QED BY <2>3, <2>4, <2>5
<1>4. ASSUME NEW p \in Process, NEW t \in Tx, PollFinds(p, t) PROVE IInv'
  <2> DEFINE i == credited[t]
             after == UpdatedStatus(pay[t], wallet[t])
  <2>1. i \in Invoice /\ status[i] # "none"
    BY <1>4 DEF PollFinds, RowsBelong
  <2>2. /\ Recalculate(i) \/ status' = status
        /\ pay' = [pay EXCEPT ![t] = after]
        /\ Dispatch(t, PaymentEventsFor("detected", after, status[i]),
                    i, InvoiceEventsFor(status[i], status'[i]))
    BY <1>4 DEF PollFinds
  <2>3. after \in PaymentStatus
    BY UpdatedStatusTyped DEF TypeOK
  <2> HIDE DEF i, after
  <2>4. TypeOK'
    BY <1>4, <2>1, <2>2, <2>3, RecalculateTyped, DispatchTyped, BoundAssumption
    DEF PollFinds, EndsMisses, TypeOK
  <2>5. RowsBelong'
    BY <1>4, <2>1, <2>2, RecalculateTyped DEF PollFinds, RowsBelong, TypeOK
  <2>6. MissesCounted'
    BY <1>4, BoundAssumption DEF PollFinds, EndsMisses, MissesCounted, TypeOK
  <2> QED BY <2>4, <2>5, <2>6
<1>5. ASSUME NEW i \in Invoice, ExpiryPasses(i) PROVE IInv'
  <2>1. TypeOK'
    BY <1>5 DEF ExpiryPasses, TypeOK, invoiceVars, paymentVars, pollVars
  <2> QED BY <1>5, <2>1 DEF ExpiryPasses, RowsBelong, MissesCounted, invoiceVars, paymentVars, pollVars
<1>6. ASSUME NEW i \in Invoice, create_invoice(i) PROVE IInv'
  <2>1. TypeOK'
    BY <1>6 DEF create_invoice, TypeOK, InvoiceStatus, paymentVars, pollVars
  <2> QED BY <1>6, <2>1 DEF create_invoice, TypeOK, RowsBelong, MissesCounted, paymentVars, pollVars
<1>7. ASSUME NEW i \in Invoice, cancel_invoice(i) PROVE IInv'
  <2>1. TypeOK'
    BY <1>7 DEF cancel_invoice, TypeOK, InvoiceStatus, paymentVars, pollVars
  <2> QED BY <1>7, <2>1 DEF cancel_invoice, TypeOK, RowsBelong, MissesCounted, paymentVars, pollVars
<1>8. ASSUME NEW t \in Tx, NEW i \in Invoice, ScanTransfer(t, i) PROVE IInv'
  <2> DEFINE after == UpdatedStatus(pay[t], wallet[t])
  <2>1. status[i] # "none" /\ Pays[t][i] > 0
    BY <1>8, AmountAssumption DEF ScanTransfer
  <2>2. /\ Recalculate(i) \/ status' = status
        /\ pay' = [pay EXCEPT ![t] = after]
        /\ credited' = IF pay[t] = "none" THEN [credited EXCEPT ![t] = i] ELSE credited
        /\ Dispatch(t, PaymentEventsFor(pay[t], after, status[i]),
                    i, InvoiceEventsFor(status[i], status'[i]))
    BY <1>8 DEF ScanTransfer
  <2>3. after \in PaymentStatus
    BY UpdatedStatusTyped DEF TypeOK
  <2> HIDE DEF after
  <2>4. /\ status' \in [Invoice -> InvoiceStatus \cup {"none"}]
        /\ \A j \in Invoice : status'[j] = "none" <=> status[j] = "none"
    BY <2>1, <2>2, RecalculateTyped DEF TypeOK
  <2>5. notified' \in [Tx -> Counts] /\ told' \in [Invoice -> InvoiceEvents \cup {"none"}]
    BY <2>2, DispatchTyped
  <2>6. TypeOK'
    <3>1. /\ pay' \in [Tx -> PaymentStatus \cup {"none"}]
          /\ credited' \in [Tx -> Invoice \cup {NoInvoice}]
      BY <2>2, <2>3 DEF TypeOK
    <3>2. UNCHANGED <<wallet, due, pollVars, restarts>>
      BY <1>8 DEF ScanTransfer
    <3> QED
      BY <2>4, <2>5, <3>1, <3>2 DEF TypeOK, pollVars
  <2>7. RowsBelong'
    BY <2>1, <2>2, <2>4 DEF RowsBelong, TypeOK
  <2>8. MissesCounted'
    BY <1>8 DEF ScanTransfer, MissesCounted, pollVars
  <2> QED BY <2>6, <2>7, <2>8
<1>9. CASE expire_pending_invoices
  <2>1. TypeOK'
    BY <1>9 DEF expire_pending_invoices, TypeOK, InvoiceStatus, InvoiceEvents, paymentVars, pollVars
  <2>2. \A j \in Invoice : status'[j] = "none" <=> status[j] = "none"
    BY <1>9 DEF expire_pending_invoices, Expirable, TypeOK
  <2> QED BY <1>9, <2>1, <2>2 DEF expire_pending_invoices, RowsBelong, MissesCounted, paymentVars, pollVars
<1>10. ASSUME NEW p \in Process, Restart(p) PROVE IInv'
  <2>1. TypeOK'
    BY <1>10, BoundAssumption DEF Restart, TypeOK, invoiceVars, paymentVars
  <2>2. MissesCounted'
    BY <1>10 DEF Restart, MissesCounted, TypeOK
  <2> QED BY <1>10, <2>1, <2>2 DEF Restart, RowsBelong, invoiceVars, paymentVars
<1>11. CASE UNCHANGED vars
  BY <1>11 DEF vars, TypeOK, RowsBelong, MissesCounted
<1> QED
  BY <1>1, <1>2, <1>3, <1>4, <1>5, <1>6, <1>7, <1>8, <1>9, <1>10, <1>11 DEF Next, Poll

\* So it always holds.
LEMMA Invariance == Spec => []IInv
BY InitIInv, NextIInv, PTL DEF Spec

\* Every variable keeps its type, whatever the environment does.
THEOREM TypeCorrect == Spec => []TypeOK
BY Invariance, PTL DEF IInv

-----------------------------------------------------------------------------
(***************************************************************************)
(* The status agrees with the total.  A step either leaves the confirmed   *)
(* payments and the status of an exclusive invoice alone, or recalculates  *)
(* that invoice from the payments it leaves behind.                        *)
(***************************************************************************)
LEMMA SameTotal ==
  ASSUME NEW i \in Invoice, ConfirmedPayments(i)' = ConfirmedPayments(i)
  PROVE  Total(i)' = Total(i)
BY DEF Total

\* No row changes, and no status of an invoice that exists.
LEMMA UndisturbedAgrees ==
  ASSUME StatusAgreesWithTotal, pay' = pay, credited' = credited, status' = status
  PROVE  StatusAgreesWithTotal'
<1>1. \A i \in Invoice : ConfirmedPayments(i)' = ConfirmedPayments(i)
  BY DEF ConfirmedPayments, PaymentsOf
<1>2. \A i \in Invoice : Total(i)' = Total(i)
  BY <1>1, SameTotal
<1> QED BY <1>2 DEF StatusAgreesWithTotal, Exclusive

\* The row of t changes, and with it at most the total of one invoice, i,
\* which is recalculated.
LEMMA RecalculatedAgrees ==
  ASSUME IInv, StatusAgreesWithTotal, NEW i \in Invoice, status[i] # "none", Recalculate(i),
         \A j \in Invoice \ {i} : Exclusive(j) => ConfirmedPayments(j)' = ConfirmedPayments(j)
  PROVE  StatusAgreesWithTotal'
<1> SUFFICES ASSUME NEW j \in Invoice, Exclusive(j)
             PROVE  Fits(status'[j], Total(j)', Required[j])
  BY DEF StatusAgreesWithTotal, Exclusive
<1> DEFINE r == Recalculated(status[i], Total(i)', Required[i])
<1>1. status' = [status EXCEPT ![i] = r]
  BY DEF Recalculate
<1>2. Fits(r, Total(i)', Required[i])
  BY RecalculatedFits DEF IInv, TypeOK
<1> HIDE DEF r
<1>3. CASE j = i
  BY <1>1, <1>2, <1>3 DEF IInv, TypeOK
<1>4. CASE j # i
  <2>1. Total(j)' = Total(j)
    BY <1>4, SameTotal
  <2>2. status'[j] = status[j]
    BY <1>1, <1>4 DEF IInv, TypeOK
  <2> QED BY <2>1, <2>2 DEF StatusAgreesWithTotal
<1> QED BY <1>3, <1>4

\* Without rows there is nothing to agree.
LEMMA InitAgrees == Init => StatusAgreesWithTotal
BY DEF Init, StatusAgreesWithTotal, Fits

\* Every step keeps the statuses in agreement with the totals.
LEMMA NextAgrees == IInv /\ StatusAgreesWithTotal /\ [Next]_vars => StatusAgreesWithTotal'
<1> SUFFICES ASSUME IInv, StatusAgreesWithTotal, [Next]_vars PROVE StatusAgreesWithTotal'
  OBVIOUS
<1>1. ASSUME NEW t \in Tx, WalletChanges(t) \/ \E p \in Process : PollMisses(p, t)
      PROVE StatusAgreesWithTotal'
  BY <1>1, UndisturbedAgrees DEF WalletChanges, PollMisses, invoiceVars, paymentVars
<1>2. ASSUME NEW p \in Process, NEW t \in Tx, PollOrphans(p, t) PROVE StatusAgreesWithTotal'
  <2> DEFINE i == credited[t]
  <2>1. i \in Invoice /\ status[i] # "none" /\ Recalculate(i)
    BY <1>2 DEF PollOrphans, IInv, RowsBelong
  <2>2. \A j \in Invoice \ {i} : ConfirmedPayments(j)' = ConfirmedPayments(j)
    BY <1>2 DEF PollOrphans, ConfirmedPayments, PaymentsOf, IInv, TypeOK
  <2> HIDE DEF i
  <2> QED BY <2>1, <2>2, RecalculatedAgrees
<1>3. ASSUME NEW p \in Process, NEW t \in Tx, PollFinds(p, t) PROVE StatusAgreesWithTotal'
  <2> DEFINE i == credited[t]
             after == UpdatedStatus(pay[t], wallet[t])
  <2>1. i \in Invoice /\ status[i] # "none" /\ credited' = credited /\ pay[t] = "detected"
    BY <1>3 DEF PollFinds, IInv, RowsBelong
  <2>2. pay' = [pay EXCEPT ![t] = after]
    BY <1>3 DEF PollFinds
  <2>3. CASE after = "confirmed"
    <3>1. Recalculate(i)
      BY <1>3, <2>3 DEF PollFinds
    <3> HIDE DEF after
    <3>2. \A j \in Invoice \ {i} : ConfirmedPayments(j)' = ConfirmedPayments(j)
      BY <2>1, <2>2 DEF ConfirmedPayments, PaymentsOf, IInv, TypeOK
    <3> HIDE DEF i
    <3> QED BY <2>1, <3>1, <3>2, RecalculatedAgrees
  <2>4. CASE after # "confirmed"
    <3>1. status' = status
      BY <1>3, <2>4 DEF PollFinds
    <3>2. after = "detected"
      BY <2>1, <2>4 DEF UpdatedStatus
    <3>3. pay' = pay
      BY <2>1, <2>2, <3>2 DEF IInv, TypeOK
    <3> QED BY <2>1, <3>1, <3>3, UndisturbedAgrees
  <2> QED BY <2>3, <2>4
<1>4. ASSUME NEW i \in Invoice, ExpiryPasses(i) PROVE StatusAgreesWithTotal'
  BY <1>4, UndisturbedAgrees DEF ExpiryPasses, invoiceVars, paymentVars
<1>5. ASSUME NEW i \in Invoice, create_invoice(i) PROVE StatusAgreesWithTotal'
  <2>1. pay' = pay /\ credited' = credited /\ status' = [status EXCEPT ![i] = "pending"]
    BY <1>5 DEF create_invoice, paymentVars
  <2>2. ConfirmedPayments(i)' = {}
    BY <1>5, <2>1 DEF create_invoice, ConfirmedPayments, PaymentsOf, IInv, RowsBelong
  <2>3. Total(i)' = 0
    BY <2>2, EmptySum DEF Total
  <2>4. \A j \in Invoice : Total(j)' = Total(j)
    BY <2>1, SameTotal DEF ConfirmedPayments, PaymentsOf
  <2> QED BY <2>1, <2>3, <2>4 DEF StatusAgreesWithTotal, Fits, Exclusive, IInv, TypeOK
<1>6. ASSUME NEW i \in Invoice, cancel_invoice(i) PROVE StatusAgreesWithTotal'
  <2>1. pay' = pay /\ credited' = credited /\ status' = [status EXCEPT ![i] = "cancelled"]
    BY <1>6 DEF cancel_invoice, paymentVars
  <2>2. \A j \in Invoice : Total(j)' = Total(j)
    BY <2>1, SameTotal DEF ConfirmedPayments, PaymentsOf
  <2> QED BY <2>1, <2>2 DEF StatusAgreesWithTotal, Fits, Exclusive, IInv, TypeOK
<1>7. ASSUME NEW t \in Tx, NEW i \in Invoice, ScanTransfer(t, i) PROVE StatusAgreesWithTotal'
  <2> DEFINE after == UpdatedStatus(pay[t], wallet[t])
  <2>1. status[i] # "none" /\ Pays[t][i] > 0
    BY <1>7, AmountAssumption DEF ScanTransfer
  <2>2. /\ pay' = [pay EXCEPT ![t] = after]
        /\ credited' = IF pay[t] = "none" THEN [credited EXCEPT ![t] = i] ELSE credited
    BY <1>7 DEF ScanTransfer
  <2>3. CASE pay[t] = "none" \/ after = "confirmed"
    <3>1. Recalculate(i)
      BY <1>7, <2>3 DEF ScanTransfer
    <3>2. ASSUME NEW j \in Invoice \ {i}, Exclusive(j)
          PROVE  ConfirmedPayments(j)' = ConfirmedPayments(j)
      <4>1. pay[t] # "none" => credited[t] # j
        BY <2>1, <3>2 DEF Exclusive, IInv, RowsBelong
      <4> HIDE DEF after
      <4> QED BY <2>2, <3>2, <4>1 DEF ConfirmedPayments, PaymentsOf, IInv, TypeOK
    <3> QED BY <2>1, <3>1, <3>2, RecalculatedAgrees
  <2>4. CASE pay[t] # "none" /\ after # "confirmed"
    <3>1. status' = status
      BY <1>7, <2>4 DEF ScanTransfer
    <3>2. after = pay[t]
      BY <2>4 DEF UpdatedStatus, IInv, TypeOK, PaymentStatus
    <3>3. pay' = pay /\ credited' = credited
      BY <2>2, <2>4, <3>2 DEF IInv, TypeOK
    <3> QED BY <3>1, <3>3, UndisturbedAgrees
  <2> QED BY <2>3, <2>4
<1>8. CASE expire_pending_invoices
  <2>1. pay' = pay /\ credited' = credited
    BY <1>8 DEF expire_pending_invoices, paymentVars
  <2>2. \A j \in Invoice : Total(j)' = Total(j)
    BY <2>1, SameTotal DEF ConfirmedPayments, PaymentsOf
  <2>3. ASSUME NEW j \in Invoice, Expirable(j) PROVE Fits("expired", Total(j)', Required[j])
    <3>1. ConfirmedPayments(j) = {}
      BY <2>3 DEF Expirable, ActivePayments, ConfirmedPayments
    <3>2. Total(j)' = 0
      BY <2>2, <3>1, EmptySum DEF Total
    <3> QED BY <3>2, AmountAssumption DEF Fits
  <2> QED BY <1>8, <2>2, <2>3 DEF expire_pending_invoices, StatusAgreesWithTotal, Exclusive
<1>9. CASE \E p \in Process : Restart(p)
  BY <1>9, UndisturbedAgrees DEF Restart, invoiceVars, paymentVars
<1>10. CASE UNCHANGED vars
  BY <1>10, UndisturbedAgrees DEF vars
<1> QED
  BY <1>1, <1>2, <1>3, <1>4, <1>5, <1>6, <1>7, <1>8, <1>9, <1>10 DEF Next, Poll

\* For any number of invoices and transactions and any amounts, the status
\* of an invoice that shares no transaction with another one always agrees
\* with the total of its confirmed payments.
THEOREM SettlementCorrect == Spec => []StatusAgreesWithTotal
BY Invariance, InitAgrees, NextAgrees, PTL DEF Spec

-----------------------------------------------------------------------------
(***************************************************************************)
(* Orphans.  The miss count of a process never exceeds the number of its   *)
(* own polls in a row that did not find the transaction, so it reaches the *)
(* threshold only after that many.                                         *)
(***************************************************************************)
\* A count one short of its limit, or at it, is at the limit after one more.
LEMMA CountedUp ==
  ASSUME NEW s \in Int, NEW n \in Int, n - 1 <= s, s <= n
  PROVE  (IF s < n THEN s + 1 ELSE s) = n
OBVIOUS

LEMMA NextOrphaned == IInv /\ OrphanedAfterMisses /\ [Next]_vars => OrphanedAfterMisses'
<1> SUFFICES ASSUME IInv, OrphanedAfterMisses, [Next]_vars PROVE OrphanedAfterMisses'
  OBVIOUS
<1> USE DEF OrphanedAfterMisses
<1>1. ASSUME NEW p \in Process, NEW t \in Tx, PollMisses(p, t) PROVE OrphanedAfterMisses'
  BY <1>1 DEF PollMisses, CountsMiss, IInv, TypeOK, paymentVars
<1>2. ASSUME NEW p \in Process, NEW t \in Tx, PollOrphans(p, t) PROVE OrphanedAfterMisses'
  <2>1. /\ pay' = [pay EXCEPT ![t] = "orphaned"]
        /\ streak' = [streak EXCEPT ![p][t] = IF @ < OrphanThreshold THEN @ + 1 ELSE @]
        /\ miss[p][t] + 1 >= OrphanThreshold
    BY <1>2 DEF PollOrphans, CountsMiss
  <2>2. miss[p][t] <= streak[p][t]
    BY DEF IInv, MissesCounted
  <2>3. streak'[p][t] = OrphanThreshold
    <3>1. /\ streak \in [Process -> [Tx -> 0 .. OrphanThreshold]]
          /\ streak[p][t] \in 0 .. OrphanThreshold /\ miss[p][t] \in 0 .. OrphanThreshold - 1
      BY DEF IInv, TypeOK
    <3>2. OrphanThreshold \in Int /\ streak[p][t] \in Int /\ miss[p][t] \in Int
      BY <3>1, BoundAssumption
    <3>3. streak[p][t] >= OrphanThreshold - 1 /\ streak[p][t] <= OrphanThreshold
      BY <2>1, <2>2, <3>1, <3>2
    <3>4. streak'[p][t] = IF streak[p][t] < OrphanThreshold THEN streak[p][t] + 1 ELSE streak[p][t]
      BY <2>1, <3>1
    <3> QED BY <3>2, <3>3, <3>4, CountedUp
  <2>4. ASSUME NEW u \in Tx \ {t}, NEW q \in Process
        PROVE  pay'[u] = pay[u] /\ streak'[q][u] = streak[q][u]
    <3>1. pay'[u] = pay[u]
      BY <2>1 DEF IInv, TypeOK
    <3>2. streak \in [Process -> [Tx -> 0 .. OrphanThreshold]]
      BY DEF IInv, TypeOK
    <3>3. streak'[q][u] = streak[q][u]
      BY <2>1, <3>2
    <3> QED BY <3>1, <3>3
  <2>5. ASSUME NEW u \in Tx, pay'[u] = "orphaned"
        PROVE  \E q \in Process : streak'[q][u] = OrphanThreshold
    <3>1. CASE u = t
      BY <2>3, <3>1
    <3>2. CASE u # t
      <4>1. PICK q \in Process : streak[q][u] = OrphanThreshold
        BY <2>1, <2>5, <3>2 DEF IInv, TypeOK
      <4> QED BY <2>4, <3>2, <4>1
    <3> QED BY <3>1, <3>2
  <2> QED BY <2>5
<1>3. ASSUME NEW p \in Process, NEW t \in Tx, PollFinds(p, t) PROVE OrphanedAfterMisses'
  <2> DEFINE after == UpdatedStatus(pay[t], wallet[t])
  <2>1. /\ pay' = [pay EXCEPT ![t] = after] /\ streak' = [streak EXCEPT ![p][t] = 0]
        /\ pay[t] = "detected"
    BY <1>3 DEF PollFinds, EndsMisses
  <2>2. after # "orphaned"
    BY <2>1 DEF UpdatedStatus
  <2> HIDE DEF after
  <2> QED BY <2>1, <2>2 DEF IInv, TypeOK
<1>4. ASSUME NEW t \in Tx, NEW i \in Invoice, ScanTransfer(t, i) PROVE OrphanedAfterMisses'
  <2> DEFINE after == UpdatedStatus(pay[t], wallet[t])
  <2>1. pay' = [pay EXCEPT ![t] = after] /\ streak' = streak
    BY <1>4 DEF ScanTransfer, pollVars
  <2>2. after = "orphaned" => pay[t] = "orphaned"
    BY DEF UpdatedStatus
  <2> HIDE DEF after
  <2> QED BY <2>1, <2>2 DEF IInv, TypeOK
<1>5. ASSUME NEW i \in Invoice, create_invoice(i) \/ cancel_invoice(i) \/ ExpiryPasses(i)
      PROVE  OrphanedAfterMisses'
  BY <1>5 DEF create_invoice, cancel_invoice, ExpiryPasses, paymentVars, pollVars
<1>6. ASSUME NEW t \in Tx, WalletChanges(t) PROVE OrphanedAfterMisses'
  BY <1>6 DEF WalletChanges, paymentVars, pollVars
<1>7. CASE expire_pending_invoices \/ (\E p \in Process : Restart(p)) \/ UNCHANGED vars
  BY <1>7 DEF expire_pending_invoices, Restart, vars, paymentVars, pollVars
<1> QED BY <1>1, <1>2, <1>3, <1>4, <1>5, <1>6, <1>7 DEF Next, Poll

\* No payment is given up before one process has missed it OrphanThreshold
\* polls in a row, however restarts, hits and misses alternate, and however many
\* processes poll in between.
THEOREM OrphansAreMissed == Spec => []OrphanedAfterMisses
<1>1. Init => OrphanedAfterMisses
  BY DEF Init, OrphanedAfterMisses
<1> QED BY <1>1, NextOrphaned, Invariance, PTL DEF Spec

-----------------------------------------------------------------------------
(***************************************************************************)
(* Announcements.  What a step queues for the transaction it handles is    *)
(* decided by the payment's status before and after; the rows of all other *)
(* transactions keep their counts.                                         *)
(***************************************************************************)
Announced == AnnouncedOnce /\ CancelledPaymentsAnnounced

\* A step that touches no row and cancels no invoice with payments keeps the announcements.
LEMMA QuietStep ==
  ASSUME IInv, Announced, pay' = pay, credited' = credited, notified' = notified,
         \A j \in Invoice : status'[j] = "cancelled" =>
            status[j] = "cancelled" \/ ActivePayments(j) = {}
  PROVE  Announced'
<1>1. \A j \in Invoice : ActivePayments(j)' = ActivePayments(j)
  BY DEF ActivePayments, PaymentsOf
<1> QED BY <1>1 DEF Announced, AnnouncedOnce, CancelledPaymentsAnnounced

\* A recalculation neither cancels an invoice nor brings one back.
LEMMA CancelledStays ==
  ASSUME IInv, NEW i \in Invoice, status[i] # "none", Recalculate(i) \/ status' = status,
         NEW j \in Invoice
  PROVE  status'[j] = "cancelled" <=> status[j] = "cancelled"
<1>1. status[i] \in InvoiceStatus
  BY DEF IInv, TypeOK
<1>2. Recalculated(status[i], Total(i)', Required[i]) = "cancelled" <=> status[i] = "cancelled"
  BY <1>1 DEF Recalculated, TargetStatus
<1> QED BY <1>2 DEF Recalculate, IInv, TypeOK

\* One transaction is handled; its row may be new.
LEMMA HandledStep ==
  ASSUME IInv, Announced, NEW t \in Tx, NEW i \in Invoice, NEW after \in PaymentStatus,
         status[i] # "none", Recalculate(i) \/ status' = status,
         pay' = [pay EXCEPT ![t] = after],
         credited' = IF pay[t] = "none" THEN [credited EXCEPT ![t] = i] ELSE credited,
         after = pay[t] \/ pay[t] \in {"none", "detected"},
         Dispatch(t, PaymentEventsFor(pay[t], after, status[i]),
                  i, InvoiceEventsFor(status[i], status'[i]))
  PROVE  Announced'
<1> DEFINE P == PaymentEventsFor(pay[t], after, status[i])
           n == notified[t]
<1>1. notified' = [notified EXCEPT ![t] = [e \in PaymentEvents |-> Bump(n[e], e \in P)]]
  BY DEF Dispatch
<1>2. n["payment.detected"] \in 0 .. 2 /\ n["payment.confirmed"] \in 0 .. 2
      /\ n["invoice.exception_payment"] \in 0 .. 2
  BY DEF IInv, TypeOK, Counts, PaymentEvents
<1>3. /\ "payment.detected" \in P <=> pay[t] = "none"
      /\ "payment.confirmed" \in P <=> pay[t] = "detected" /\ after = "confirmed"
      /\ "invoice.exception_payment" \in P <=> pay[t] = "none" /\ status[i] = "cancelled"
  BY DEF PaymentEventsFor
<1>4. /\ n["payment.detected"] = (IF pay[t] = "none" THEN 0 ELSE 1)
      /\ n["payment.confirmed"] <= (IF pay[t] = "confirmed" THEN 1 ELSE 0)
      /\ n["invoice.exception_payment"] <= (IF pay[t] = "none" THEN 0 ELSE 1)
  BY DEF Announced, AnnouncedOnce
<1> HIDE DEF P
<1>5. /\ notified'[t]["payment.detected"] = Bump(n["payment.detected"], "payment.detected" \in P)
      /\ notified'[t]["payment.confirmed"] = Bump(n["payment.confirmed"], "payment.confirmed" \in P)
      /\ notified'[t]["invoice.exception_payment"]
           = Bump(n["invoice.exception_payment"], "invoice.exception_payment" \in P)
  BY <1>1 DEF IInv, TypeOK, PaymentEvents
<1>6. \A u \in Tx \ {t} : notified'[u] = notified[u] /\ pay'[u] = pay[u] /\ credited'[u] = credited[u]
  BY <1>1 DEF IInv, TypeOK
<1>7. pay'[t] = after
  BY DEF IInv, TypeOK
<1>8. AnnouncedOnce'
  <2>1. /\ notified'[t]["payment.detected"] = (IF pay'[t] = "none" THEN 0 ELSE 1)
        /\ notified'[t]["payment.confirmed"] <= (IF pay'[t] = "confirmed" THEN 1 ELSE 0)
        /\ notified'[t]["invoice.exception_payment"] <= (IF pay'[t] = "none" THEN 0 ELSE 1)
    <3> HIDE DEF n
    <3> QED BY <1>2, <1>3, <1>4, <1>5, <1>7 DEF Bump, PaymentStatus
  <2> QED BY <2>1, <1>6 DEF Announced, AnnouncedOnce
<1>9. CancelledPaymentsAnnounced'
  <2> SUFFICES ASSUME NEW j \in Invoice, status'[j] = "cancelled", NEW u \in ActivePayments(j)'
               PROVE  notified'[u]["invoice.exception_payment"] = 1
    BY DEF CancelledPaymentsAnnounced
  <2>1. status[j] = "cancelled"
    BY CancelledStays
  <2>2. CASE u # t
    BY <1>6, <2>1, <2>2 DEF Announced, CancelledPaymentsAnnounced, ActivePayments, PaymentsOf
  <2>3. CASE u = t
    <3>1. CASE pay[t] = "none"
      <4>1. credited'[t] = i
        BY <3>1 DEF IInv, TypeOK
      <4>2. i = j
        BY <2>3, <4>1 DEF ActivePayments, PaymentsOf
      <4> HIDE DEF n
      <4> QED BY <1>2, <1>3, <1>4, <1>5, <2>1, <2>3, <3>1, <4>2 DEF Bump
    <3>2. CASE pay[t] # "none"
      <4>1. credited'[t] = credited[t] /\ credited[t] = j /\ pay[t] # "orphaned"
        BY <1>7, <2>3, <3>2 DEF ActivePayments, PaymentsOf
      <4>2. t \in ActivePayments(j)
        BY <3>2, <4>1 DEF ActivePayments, PaymentsOf, IInv, TypeOK, PaymentStatus
      <4>3. n["invoice.exception_payment"] = 1
        BY <2>1, <4>2 DEF Announced, CancelledPaymentsAnnounced
      <4> HIDE DEF n
      <4> QED BY <1>2, <1>3, <1>5, <2>3, <3>2, <4>3 DEF Bump
    <3> QED BY <3>1, <3>2
  <2> QED BY <2>2, <2>3
<1> QED BY <1>8, <1>9 DEF Announced

\* Every step keeps the announcements right.
LEMMA NextAnnounced == IInv /\ Announced /\ [Next]_vars => Announced'
<1> SUFFICES ASSUME IInv, Announced, [Next]_vars PROVE Announced'
  OBVIOUS
<1>1. ASSUME NEW t \in Tx, WalletChanges(t) \/ \E p \in Process : PollMisses(p, t)
      PROVE Announced'
  BY <1>1, QuietStep DEF WalletChanges, PollMisses, invoiceVars, paymentVars
<1>2. ASSUME NEW p \in Process, NEW t \in Tx, PollOrphans(p, t) PROVE Announced'
  <2> DEFINE i == credited[t]
  <2>1. /\ pay[t] = "detected" /\ pay' = [pay EXCEPT ![t] = "orphaned"] /\ credited' = credited
        /\ i \in Invoice /\ status[i] # "none" /\ Recalculate(i)
        /\ Dispatch(t, PaymentEventsFor(pay[t], "orphaned", status[i]),
                    i, InvoiceEventsFor(status[i], status'[i]))
    BY <1>2 DEF PollOrphans, IInv, RowsBelong
  <2> HIDE DEF i
  <2> QED BY <2>1, HandledStep DEF PaymentStatus
<1>3. ASSUME NEW p \in Process, NEW t \in Tx, PollFinds(p, t) PROVE Announced'
  <2> DEFINE i == credited[t]
             after == UpdatedStatus(pay[t], wallet[t])
  <2>1. /\ pay[t] = "detected" /\ pay' = [pay EXCEPT ![t] = after] /\ credited' = credited
        /\ i \in Invoice /\ status[i] # "none" /\ (Recalculate(i) \/ status' = status)
        /\ Dispatch(t, PaymentEventsFor(pay[t], after, status[i]),
                    i, InvoiceEventsFor(status[i], status'[i]))
    BY <1>3 DEF PollFinds, IInv, RowsBelong
  <2>2. after \in PaymentStatus
    BY UpdatedStatusTyped DEF IInv, TypeOK
  <2> HIDE DEF i, after
  <2> QED BY <2>1, <2>2, HandledStep
<1>4. ASSUME NEW t \in Tx, NEW i \in Invoice, ScanTransfer(t, i) PROVE Announced'
  <2> DEFINE after == UpdatedStatus(pay[t], wallet[t])
  <2>1. /\ pay' = [pay EXCEPT ![t] = after]
        /\ credited' = IF pay[t] = "none" THEN [credited EXCEPT ![t] = i] ELSE credited
        /\ status[i] # "none" /\ (Recalculate(i) \/ status' = status)
        /\ Dispatch(t, PaymentEventsFor(pay[t], after, status[i]),
                    i, InvoiceEventsFor(status[i], status'[i]))
    BY <1>4 DEF ScanTransfer
  <2>2. after \in PaymentStatus /\ (after = pay[t] \/ pay[t] \in {"none", "detected"})
    BY UpdatedStatusTyped DEF UpdatedStatus, IInv, TypeOK
  <2> HIDE DEF after
  <2> QED BY <2>1, <2>2, HandledStep
<1>5. ASSUME NEW i \in Invoice, create_invoice(i) PROVE Announced'
  BY <1>5, QuietStep DEF create_invoice, paymentVars, IInv, TypeOK
<1>6. ASSUME NEW i \in Invoice, cancel_invoice(i) PROVE Announced'
  BY <1>6, QuietStep DEF cancel_invoice, paymentVars, IInv, TypeOK
<1>7. ASSUME NEW i \in Invoice, ExpiryPasses(i) PROVE Announced'
  BY <1>7, QuietStep DEF ExpiryPasses, invoiceVars, paymentVars
<1>8. CASE expire_pending_invoices
  BY <1>8, QuietStep DEF expire_pending_invoices, paymentVars
<1>9. CASE (\E p \in Process : Restart(p)) \/ UNCHANGED vars
  BY <1>9, QuietStep DEF Restart, vars, invoiceVars, paymentVars
<1> QED BY <1>1, <1>2, <1>3, <1>4, <1>5, <1>6, <1>7, <1>8, <1>9 DEF Next, Poll

\* So they are always right.
LEMMA AnnouncedInvariant == Spec => []Announced
<1>1. Init => Announced
  BY DEF Init, Announced, AnnouncedOnce, CancelledPaymentsAnnounced, PaymentEvents
<1> QED BY <1>1, NextAnnounced, Invariance, PTL DEF Spec

\* Detection is announced exactly once per payment, confirmation and exception
\* at most once, whatever scans and polls repeat.
THEOREM EventsOnce == Spec => []AnnouncedOnce
BY AnnouncedInvariant, PTL DEF Announced

\* A payment standing on a cancelled invoice has been announced as an exception.
THEOREM CancelledAnnounced == Spec => []CancelledPaymentsAnnounced
BY AnnouncedInvariant, PTL DEF Announced

-----------------------------------------------------------------------------
(***************************************************************************)
(* Settlement implements PaymentLedger: confirming a payment credits it,   *)
(* creating, cancelling and expiring an invoice open and close it, and     *)
(* everything else is invisible in the ledger.                             *)
(***************************************************************************)
Phases == [i \in Invoice |-> PhaseOf(status[i])]
Credits == [i \in Invoice |-> ConfirmedPayments(i)]

\* The row of t changes its status, and no invoice changes its phase: the
\* ledger credits t if it was confirmed just now, and stutters otherwise.
LEMMA HandledSimulates ==
  ASSUME IInv, NEW t \in Tx, NEW i \in Invoice, NEW after \in PaymentStatus,
         status[i] # "none", Recalculate(i) \/ status' = status,
         pay' = [pay EXCEPT ![t] = after],
         credited' = IF pay[t] = "none" THEN [credited EXCEPT ![t] = i] ELSE credited,
         after = pay[t] \/ pay[t] \in {"none", "detected"}
  PROVE  Ledger!Next \/ UNCHANGED Ledger!vars
<1>1. Phases' = Phases
  <2>1. \A j \in Invoice : PhaseOf(status'[j]) = PhaseOf(status[j])
    BY RecalculateTyped DEF IInv
  <2> QED BY <2>1 DEF Phases
<1> DEFINE c == credited'[t]
<1>2. /\ c \in Invoice /\ status[c] # "none"
      /\ pay'[t] = after
      /\ \A u \in Tx \ {t} : pay'[u] = pay[u] /\ credited'[u] = credited[u]
      /\ pay[t] # "none" => c = credited[t]
  BY DEF IInv, TypeOK, RowsBelong
<1>3. CASE after = "confirmed" /\ pay[t] # "confirmed"
  <2>1. \A j \in Invoice : t \notin Credits[j]
    BY <1>3 DEF Credits, ConfirmedPayments
  <2>2. Credits' = [Credits EXCEPT ![c] = @ \cup {t}]
    <3>1. \A j \in Invoice : ConfirmedPayments(j)' =
            IF j = c THEN ConfirmedPayments(j) \cup {t} ELSE ConfirmedPayments(j)
      BY <1>2, <1>3 DEF ConfirmedPayments, PaymentsOf
    <3> QED BY <3>1 DEF Credits
  <2>3. Phases[c] # "unborn"
    BY <1>2 DEF Phases, PhaseOf, IInv, TypeOK, InvoiceStatus
  <2>4. Ledger!Credit(c, t)
    BY <1>1, <2>1, <2>2, <2>3 DEF Ledger!Credit, Phases, Credits
  <2> QED BY <1>2, <2>4 DEF Ledger!Next
<1>4. CASE ~ (after = "confirmed" /\ pay[t] # "confirmed")
  <2>1. \A j \in Invoice : ConfirmedPayments(j)' = ConfirmedPayments(j)
    BY <1>2, <1>4 DEF ConfirmedPayments, PaymentsOf, PaymentStatus
  <2> QED BY <1>1, <2>1 DEF Ledger!vars, Phases
<1> QED BY <1>3, <1>4

\* Neither a row nor a phase changes.
LEMMA QuietSimulates ==
  ASSUME pay' = pay, credited' = credited, status' = status
  PROVE  UNCHANGED Ledger!vars
BY DEF Ledger!vars, ConfirmedPayments, PaymentsOf

\* Every step is a step of the ledger or leaves it alone.
LEMMA NextSimulates == IInv /\ [Next]_vars => [Ledger!Next]_(Ledger!vars)
<1> SUFFICES ASSUME IInv, [Next]_vars PROVE Ledger!Next \/ UNCHANGED Ledger!vars
  OBVIOUS
<1>1. ASSUME NEW t \in Tx, WalletChanges(t) \/ \E p \in Process : PollMisses(p, t)
      PROVE UNCHANGED Ledger!vars
  BY <1>1, QuietSimulates DEF WalletChanges, PollMisses, invoiceVars, paymentVars
<1>2. ASSUME NEW p \in Process, NEW t \in Tx, PollOrphans(p, t) PROVE Ledger!Next \/ UNCHANGED Ledger!vars
  <2> DEFINE i == credited[t]
  <2>1. /\ pay[t] = "detected" /\ pay' = [pay EXCEPT ![t] = "orphaned"] /\ credited' = credited
        /\ i \in Invoice /\ status[i] # "none" /\ Recalculate(i)
    BY <1>2 DEF PollOrphans, IInv, RowsBelong
  <2> HIDE DEF i
  <2> QED BY <2>1, HandledSimulates DEF PaymentStatus
<1>3. ASSUME NEW p \in Process, NEW t \in Tx, PollFinds(p, t) PROVE Ledger!Next \/ UNCHANGED Ledger!vars
  <2> DEFINE i == credited[t]
             after == UpdatedStatus(pay[t], wallet[t])
  <2>1. /\ pay[t] = "detected" /\ pay' = [pay EXCEPT ![t] = after] /\ credited' = credited
        /\ i \in Invoice /\ status[i] # "none" /\ (Recalculate(i) \/ status' = status)
    BY <1>3 DEF PollFinds, IInv, RowsBelong
  <2>2. after \in PaymentStatus
    BY UpdatedStatusTyped DEF IInv, TypeOK
  <2> HIDE DEF i, after
  <2> QED BY <2>1, <2>2, HandledSimulates
<1>4. ASSUME NEW t \in Tx, NEW i \in Invoice, ScanTransfer(t, i)
      PROVE  Ledger!Next \/ UNCHANGED Ledger!vars
  <2> DEFINE after == UpdatedStatus(pay[t], wallet[t])
  <2>1. /\ pay' = [pay EXCEPT ![t] = after]
        /\ credited' = IF pay[t] = "none" THEN [credited EXCEPT ![t] = i] ELSE credited
        /\ status[i] # "none" /\ (Recalculate(i) \/ status' = status)
    BY <1>4 DEF ScanTransfer
  <2>2. after \in PaymentStatus /\ (after = pay[t] \/ pay[t] \in {"none", "detected"})
    BY UpdatedStatusTyped DEF UpdatedStatus, IInv, TypeOK
  <2> HIDE DEF after
  <2> QED BY <2>1, <2>2, HandledSimulates
<1>5. ASSUME NEW i \in Invoice, create_invoice(i) PROVE Ledger!Next
  <2>1. Credits' = Credits
    BY <1>5 DEF create_invoice, paymentVars, Credits, ConfirmedPayments, PaymentsOf
  <2>2. Phases[i] = "unborn" /\ Phases' = [Phases EXCEPT ![i] = "open"]
    BY <1>5 DEF create_invoice, Phases, PhaseOf, IInv, TypeOK
  <2> QED BY <2>1, <2>2 DEF Ledger!Next, Ledger!Open, Phases, Credits
<1>6. ASSUME NEW i \in Invoice, cancel_invoice(i) PROVE Ledger!Next
  <2>1. Credits' = Credits /\ Credits[i] = {}
    BY <1>6 DEF cancel_invoice, paymentVars, Credits, ConfirmedPayments, ActivePayments, PaymentsOf
  <2>2. Phases[i] = "open" /\ Phases' = [j \in Invoice |-> IF j \in {i} THEN "void" ELSE Phases[j]]
    BY <1>6 DEF cancel_invoice, Phases, PhaseOf, IInv, TypeOK
  <2>3. Ledger!Close({i}, "void")
    BY <2>1, <2>2 DEF Ledger!Close, Phases, Credits
  <2> QED BY <2>3 DEF Ledger!Next
<1>7. ASSUME NEW i \in Invoice, ExpiryPasses(i) PROVE UNCHANGED Ledger!vars
  BY <1>7, QuietSimulates DEF ExpiryPasses, invoiceVars, paymentVars
<1>8. CASE expire_pending_invoices
  <2> DEFINE E == {j \in Invoice : Expirable(j)}
  <2>1. Credits' = Credits
    BY <1>8 DEF expire_pending_invoices, paymentVars, Credits, ConfirmedPayments, PaymentsOf
  <2>2. \A j \in E : Phases[j] = "open" /\ Credits[j] = {}
    BY DEF Expirable, Phases, PhaseOf, Credits, ConfirmedPayments, ActivePayments
  <2>3. Phases' = [j \in Invoice |-> IF j \in E THEN "late" ELSE Phases[j]]
    BY <1>8 DEF expire_pending_invoices, Phases, PhaseOf
  <2>4. Ledger!Close(E, "late")
    BY <2>1, <2>2, <2>3 DEF Ledger!Close, Phases, Credits
  <2>5. E \in SUBSET Invoice
    OBVIOUS
  <2> QED BY <2>4, <2>5 DEF Ledger!Next
<1>9. CASE (\E p \in Process : Restart(p)) \/ UNCHANGED vars
  BY <1>9, QuietSimulates DEF Restart, vars, invoiceVars, paymentVars
<1> QED BY <1>1, <1>2, <1>3, <1>4, <1>5, <1>6, <1>7, <1>8, <1>9 DEF Next, Poll

\* Money is credited once, to one invoice, and never taken back; a cancelled
\* invoice stays cancelled.
THEOREM LedgerImplemented == Spec => ImplementsLedger
<1>1. Init => Ledger!Init
  BY DEF Init, Ledger!Init, PhaseOf, ConfirmedPayments, PaymentsOf
<1> QED BY <1>1, NextSimulates, Invariance, PTL DEF Spec, ImplementsLedger, Ledger!Spec

-----------------------------------------------------------------------------
(***************************************************************************)
(* The merchant.  Totals only grow, as confirmed payments stay; so a status *)
(* that was earned once is never taken back, and the event of a change is   *)
(* that of the status it leads to.                                          *)
(***************************************************************************)
Earned(s, total, required) ==
  /\ s \in {"paid", "late_paid"} => total >= required
  /\ s = "overpaid"              => total > required
  /\ s = "partially_paid"        => total > 0
StatusesEarned == \A i \in Invoice : Earned(status[i], Total(i), Required[i])

LEMMA TotalTyped == IInv => \A i \in Invoice : Total(i) \in Nat
BY SumAssumption DEF Total, ConfirmedPayments, PaymentsOf

\* A recalculation from a total that has grown keeps what is paid paid.
LEMMA NothingReverted ==
  ASSUME NEW s \in InvoiceStatus, NEW old \in Nat, NEW n \in Nat, NEW required \in Nat \ {0},
         old <= n, Earned(s, old, required)
  PROVE  LET r == Recalculated(s, n, required)
         IN /\ Earned(r, n, required)
            /\ s \in PaidStatuses => r \in PaidStatuses
            /\ s # r => r \notin {"pending", "cancelled"}
BY DEF Earned, Recalculated, TargetStatus, can_transition, VALID_TRANSITIONS, InvoiceStatus,
       PaidStatuses

LEMMA EventFollows ==
  ASSUME NEW s \in InvoiceStatus, NEW r \in InvoiceStatus, s # r,
         r \notin {"pending", "cancelled"}, s \in PaidStatuses => r \in PaidStatuses
  PROVE  InvoiceEventsFor(s, r) = {EventOf(r)}
BY DEF InvoiceEventsFor, EventOf, PaidStatuses, RevertedTargets, InvoiceStatus

LEMMA SameStatusNoEvent == ASSUME NEW s PROVE InvoiceEventsFor(s, s) = {}
BY DEF InvoiceEventsFor, PaidStatuses, RevertedTargets

InSync == MerchantInSync /\ StatusesEarned

\* One transaction is handled: no confirmed payment goes away.
LEMMA HandledInSync ==
  ASSUME IInv, InSync, NEW t \in Tx, NEW i \in Invoice, NEW after \in PaymentStatus, NEW P,
         status[i] # "none", Recalculate(i) \/ status' = status,
         pay' = [pay EXCEPT ![t] = after],
         credited' = IF pay[t] = "none" THEN [credited EXCEPT ![t] = i] ELSE credited,
         after = pay[t] \/ pay[t] \in {"none", "detected"},
         Dispatch(t, P, i, InvoiceEventsFor(status[i], status'[i])),
         IInv'
  PROVE  InSync'
<1>1. ASSUME NEW j \in Invoice PROVE Total(j) \in Nat /\ Total(j)' \in Nat /\ Total(j) <= Total(j)'
  <2> DEFINE S == ConfirmedPayments(j)
             R == ConfirmedPayments(j)'
  <2>1. /\ pay'[t] = after /\ pay[t] # "none" => credited'[t] = credited[t]
        /\ \A u \in Tx : u # t => pay'[u] = pay[u] /\ credited'[u] = credited[u]
    BY DEF IInv, TypeOK
  <2>2. R = S \/ (R = S \cup {t} /\ t \notin S)
    BY <2>1 DEF ConfirmedPayments, PaymentsOf, PaymentStatus
  <2>3. S \in SUBSET Tx /\ R \in SUBSET Tx
    BY DEF ConfirmedPayments, PaymentsOf
  <2>4. Total(j) = Sum[j][S] /\ Total(j)' = Sum[j][R]
    BY DEF Total
  <2> HIDE DEF S, R
  <2>5. Sum[j][S] \in Nat /\ Sum[j][R] \in Nat /\ Pays[t][j] \in Nat
    BY <2>3, SumAssumption, AmountAssumption
  <2>6. R # S => Sum[j][R] = Sum[j][S] + Pays[t][j]
    BY <2>2, <2>3, SumAssumption
  <2>7. Sum[j][S] <= Sum[j][R]
    BY <2>5, <2>6
  <2> QED BY <2>4, <2>5, <2>7
<1>2. \A j \in Invoice \ {i} : status'[j] = status[j] /\ told'[j] = told[j]
  BY DEF Recalculate, Dispatch, IInv, TypeOK
<1>3. ASSUME NEW j \in Invoice \ {i}
      PROVE  told'[j] = EventOf(status'[j]) /\ Earned(status'[j], Total(j)', Required[j])
  <2>1. told[j] = EventOf(status[j]) /\ Earned(status[j], Total(j), Required[j])
    BY DEF InSync, MerchantInSync, StatusesEarned
  <2>2. Earned(status[j], Total(j)', Required[j])
    BY <1>1, <2>1, AmountAssumption DEF Earned
  <2> QED BY <1>2, <2>1, <2>2
<1>4. told'[i] = EventOf(status'[i]) /\ Earned(status'[i], Total(i)', Required[i])
  <2> DEFINE s == status[i]
             r == status'[i]
             events == InvoiceEventsFor(s, r)
  <2>1. /\ s \in InvoiceStatus /\ told[i] = EventOf(s) /\ Earned(s, Total(i), Required[i])
        /\ Required[i] \in Nat \ {0}
        /\ told'[i] = IF events = {} THEN told[i] ELSE CHOOSE e \in events : TRUE
    BY AmountAssumption DEF IInv, TypeOK, InSync, MerchantInSync, StatusesEarned, Dispatch
  <2>2. r = s \/ r = Recalculated(s, Total(i)', Required[i])
    BY DEF Recalculate, IInv, TypeOK
  <2>3. r \in InvoiceStatus
    BY <2>1, <2>2, RecalculatedKeepsPhase
  <2> HIDE DEF s, r, events
  <2>4. /\ Earned(r, Total(i)', Required[i])
        /\ s \in PaidStatuses => r \in PaidStatuses
        /\ s # r => r \notin {"pending", "cancelled"}
    <3>1. CASE r = s
      BY <1>1, <2>1, <3>1 DEF Earned
    <3>2. CASE r = Recalculated(s, Total(i)', Required[i])
      BY <1>1, <2>1, <3>2, NothingReverted
    <3> QED BY <2>2, <3>1, <3>2
  <2>5. told'[i] = EventOf(r)
    <3>1. CASE r = s
      <4>1. events = {}
        BY <3>1, SameStatusNoEvent DEF events
      <4> QED BY <2>1, <3>1, <4>1
    <3>2. CASE r # s
      <4>1. events = {EventOf(r)}
        BY <2>1, <2>3, <2>4, <3>2, EventFollows DEF events
      <4> QED BY <2>1, <4>1
    <3> QED BY <3>1, <3>2
  <2> QED BY <2>4, <2>5 DEF r
<1> QED BY <1>3, <1>4 DEF InSync, MerchantInSync, StatusesEarned

\* No row changes; an invoice changes its status only from or to one that
\* asks for no payments, and tells so.
LEMMA QuietInSync ==
  ASSUME InSync, pay' = pay, credited' = credited,
         \A j \in Invoice : \/ status'[j] = status[j] /\ told'[j] = told[j]
                            \/ /\ status'[j] \in {"pending", "cancelled", "expired"}
                               /\ told'[j] = EventOf(status'[j])
  PROVE  InSync'
<1>1. \A j \in Invoice : Total(j)' = Total(j)
  BY SameTotal DEF ConfirmedPayments, PaymentsOf
<1> QED BY <1>1 DEF InSync, MerchantInSync, StatusesEarned, Earned

LEMMA NextInSync == IInv /\ IInv' /\ InSync /\ [Next]_vars => InSync'
<1> SUFFICES ASSUME IInv, IInv', InSync, [Next]_vars PROVE InSync'
  OBVIOUS
<1>1. ASSUME NEW t \in Tx, WalletChanges(t) \/ \E p \in Process : PollMisses(p, t)
      PROVE InSync'
  BY <1>1, QuietInSync DEF WalletChanges, PollMisses, invoiceVars, paymentVars
<1>2. ASSUME NEW p \in Process, NEW t \in Tx, PollOrphans(p, t) PROVE InSync'
  <2> DEFINE i == credited[t]
             P == PaymentEventsFor("detected", "orphaned", status[i])
  <2>1. /\ pay[t] = "detected" /\ pay' = [pay EXCEPT ![t] = "orphaned"] /\ credited' = credited
        /\ i \in Invoice /\ status[i] # "none" /\ Recalculate(i)
        /\ Dispatch(t, P, i, InvoiceEventsFor(status[i], status'[i]))
    BY <1>2 DEF PollOrphans, IInv, RowsBelong
  <2> HIDE DEF i, P
  <2> QED BY <2>1, HandledInSync DEF PaymentStatus
<1>3. ASSUME NEW p \in Process, NEW t \in Tx, PollFinds(p, t) PROVE InSync'
  <2> DEFINE i == credited[t]
             after == UpdatedStatus(pay[t], wallet[t])
             P == PaymentEventsFor("detected", after, status[i])
  <2>1. /\ pay[t] = "detected" /\ pay' = [pay EXCEPT ![t] = after] /\ credited' = credited
        /\ i \in Invoice /\ status[i] # "none" /\ (Recalculate(i) \/ status' = status)
        /\ Dispatch(t, P, i, InvoiceEventsFor(status[i], status'[i]))
    BY <1>3 DEF PollFinds, IInv, RowsBelong
  <2>2. after \in PaymentStatus
    BY UpdatedStatusTyped DEF IInv, TypeOK
  <2> HIDE DEF i, after, P
  <2> QED BY <2>1, <2>2, HandledInSync
<1>4. ASSUME NEW t \in Tx, NEW i \in Invoice, ScanTransfer(t, i) PROVE InSync'
  <2> DEFINE after == UpdatedStatus(pay[t], wallet[t])
             P == PaymentEventsFor(pay[t], after, status[i])
  <2>1. /\ pay' = [pay EXCEPT ![t] = after]
        /\ credited' = IF pay[t] = "none" THEN [credited EXCEPT ![t] = i] ELSE credited
        /\ status[i] # "none" /\ (Recalculate(i) \/ status' = status)
        /\ Dispatch(t, P, i, InvoiceEventsFor(status[i], status'[i]))
    BY <1>4 DEF ScanTransfer
  <2>2. after \in PaymentStatus /\ (after = pay[t] \/ pay[t] \in {"none", "detected"})
    BY UpdatedStatusTyped DEF UpdatedStatus, IInv, TypeOK
  <2> HIDE DEF after, P
  <2> QED BY <2>1, <2>2, HandledInSync
<1>5. ASSUME NEW i \in Invoice, create_invoice(i) \/ cancel_invoice(i) PROVE InSync'
  <2>1. /\ pay' = pay /\ credited' = credited /\ told' = told
        /\ status[i] \in {"none", "pending"}
        /\ \E s \in {"pending", "cancelled"} : status' = [status EXCEPT ![i] = s]
    BY <1>5 DEF create_invoice, cancel_invoice, paymentVars
  <2>2. told[i] = "none"
    BY <2>1 DEF InSync, MerchantInSync, EventOf
  <2>3. ASSUME NEW j \in Invoice
        PROVE  \/ status'[j] = status[j] /\ told'[j] = told[j]
               \/ /\ status'[j] \in {"pending", "cancelled", "expired"}
                  /\ told'[j] = EventOf(status'[j])
    BY <2>1, <2>2 DEF EventOf, IInv, TypeOK
  <2> QED BY <2>1, <2>3, QuietInSync
<1>6. ASSUME NEW i \in Invoice, ExpiryPasses(i) PROVE InSync'
  BY <1>6, QuietInSync DEF ExpiryPasses, invoiceVars, paymentVars
<1>7. CASE expire_pending_invoices
  <2>1. pay' = pay /\ credited' = credited
    BY <1>7 DEF expire_pending_invoices, paymentVars
  <2>2. ASSUME NEW j \in Invoice
        PROVE  \/ status'[j] = status[j] /\ told'[j] = told[j]
               \/ /\ status'[j] \in {"pending", "cancelled", "expired"}
                  /\ told'[j] = EventOf(status'[j])
    BY <1>7 DEF expire_pending_invoices, EventOf
  <2> QED BY <2>1, <2>2, QuietInSync
<1>8. CASE (\E p \in Process : Restart(p)) \/ UNCHANGED vars
  BY <1>8, QuietInSync DEF Restart, vars, invoiceVars, paymentVars
<1> QED BY <1>1, <1>2, <1>3, <1>4, <1>5, <1>6, <1>7, <1>8 DEF Next, Poll

\* The last invoice event queued for an invoice names the status it has, also
\* where transactions pay several invoices (payment_service.py:586-617).
THEOREM MerchantFollows == Spec => []MerchantInSync
<1>1. Init => InSync
  BY DEF Init, InSync, MerchantInSync, StatusesEarned, Earned, EventOf
<1>2. InSync => MerchantInSync
  BY DEF InSync
<1> QED BY <1>1, <1>2, NextInSync, Invariance, PTL DEF Spec
=============================================================================
