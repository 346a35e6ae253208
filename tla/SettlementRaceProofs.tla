------------------------ MODULE SettlementRaceProofs ------------------------
(***************************************************************************)
(* Proofs about SettlementRace, for any transactions and amounts: what is   *)
(* committed fits the payments, every detection is announced once, and the  *)
(* merchant knows the status, however cycles, rollbacks, cancel requests    *)
(* and the expirer interleave.                                              *)
(***************************************************************************)
EXTENDS SettlementRace, TLAPS

Items == [t : Tx, before : PaymentStatus \cup {"none"}, statusBefore : InvoiceStatus]

\* CommittedStatusFits, of any status and total.
Fits(s, total) ==
  /\ s = "paid"           => total = Required
  /\ s = "overpaid"       => total > Required
  /\ s = "partially_paid" => total \in 1 .. Required - 1
  /\ s = "pending"        => total = 0
  /\ s = "late_paid"      => total >= Required
  /\ s = "expired"        => total < Required

EventOf(s) == CASE s = "paid"           -> "invoice.paid"
                [] s = "overpaid"       -> "invoice.overpaid"
                [] s = "partially_paid" -> "invoice.partially_paid"
                [] s = "late_paid"      -> "invoice.late_paid"
                [] s = "expired"        -> "invoice.expired"
                [] OTHER                -> "none"
InSync(s, event) == s # "cancelled" => event = EventOf(s)

\* The announcements of a set of rows.
Announced(rows, count) == \A t \in Tx : count[t] = (IF rows[t] = "none" THEN 0 ELSE 1)

\* What the others may make of a status while the engine does not look.
LeadsTo(a, b) == a = b \/ b = "cancelled" \/ (a = "pending" /\ b = "expired")

\* What becomes of a payment row when its transfer is looked at.
Moves(before, after) ==
  \/ before \in {"none", "detected"} /\ after \in {"detected", "confirmed"}
  \/ before = "detected" /\ after = "orphaned"
  \/ before \in {"confirmed", "orphaned"} /\ after = before

\* The payments as they were before the transfer in hand, and the last event
\* there will be if the cycle is committed.
Before == [wpay EXCEPT ![item.t] = item.before]
LastTold == IF wtold = "clean" THEN told ELSE wtold

CommittedInv ==
  /\ Fits(status, TotalOf(pay)) /\ Announced(pay, found) /\ InSync(status, told)

\* The status the engine has read may be behind the real one, but only so far
\* that what it derives from it is still right.
CycleInv ==
  /\ step = "idle" => wstatus = "clean" /\ wtold = "clean" /\ cached = "none"
  /\ InSync(Visible, LastTold)
  /\ cached # "none" => LeadsTo(cached, Visible)
  /\ step = "open" => Fits(Visible, TotalOf(wpay)) /\ Announced(wpay, wfound)

ItemInv ==
  /\ step \in {"loaded", "refreshed"} =>
       /\ item \in Items /\ Moves(item.before, wpay[item.t]) /\ Announced(Before, wfound)
  /\ step = "loaded" => /\ Fits(Visible, TotalOf(Before))
                        /\ LeadsTo(item.statusBefore, Visible)
  /\ step = "refreshed" /\ seen # "none" =>
       /\ Fits(seen, TotalOf(Before))
       /\ LeadsTo(item.statusBefore, seen) /\ LeadsTo(seen, Visible)
  /\ step = "refreshed" /\ seen = "none" =>
       /\ Fits(Visible, TotalOf(wpay)) /\ LeadsTo(item.statusBefore, Visible)
       /\ ~ Recalculates(item.before, wpay[item.t])

Inv == TypeOK /\ CommittedInv /\ CycleInv /\ ItemInv

-----------------------------------------------------------------------------
(* Lemmas about statuses and totals. *)

\* The columns that need no more than their types to be shown.
LEMMA Types ==
  ASSUME TypeOK
  PROVE  /\ pay \in Rows /\ wpay \in Rows
         /\ status \in InvoiceStatus /\ Visible \in InvoiceStatus
         /\ cached \in InvoiceStatus \cup {"none"} /\ seen \in InvoiceStatus \cup {"none"}
BY DEF TypeOK, Visible

LEMMA StatusNames == /\ "none" \notin InvoiceStatus /\ "clean" \notin InvoiceStatus
                     /\ "clean" \notin InvoiceEvents /\ "none" \notin InvoiceEvents
BY DEF InvoiceStatus, InvoiceEvents

LEMMA TotalTyped == ASSUME NEW rows PROVE TotalOf(rows) \in Nat
BY RaceAssumption DEF TotalOf

\* Without active payments there is nothing to add up.
LEMMA NothingActive ==
  ASSUME NEW rows \in Rows, \A t \in Tx : rows[t] # "confirmed" PROVE TotalOf(rows) = 0
<1>1. {t \in Tx : rows[t] = "confirmed"} = {}
  OBVIOUS
<1> QED
  BY <1>1, RaceAssumption DEF TotalOf

\* A payment that moves on leaves the total as it was, or adds to it.
LEMMA TotalGrows ==
  ASSUME NEW rows \in Rows, NEW t \in Tx, NEW b \in PaymentStatus \cup {"none"},
         Moves(b, rows[t])
  PROVE  /\ TotalOf([rows EXCEPT ![t] = b]) <= TotalOf(rows)
         /\ b = "confirmed" \/ rows[t] # "confirmed" =>
              TotalOf([rows EXCEPT ![t] = b]) = TotalOf(rows)
<1> DEFINE old == [rows EXCEPT ![t] = b]
           S == {u \in Tx : old[u] = "confirmed"}
           R == {u \in Tx : rows[u] = "confirmed"}
<1>1. old[t] = b /\ \A u \in Tx : u # t => old[u] = rows[u]
  BY DEF Rows
<1>2. CASE b = "confirmed" \/ rows[t] # "confirmed"
  <2>1. S = R
    BY <1>1, <1>2 DEF Moves
  <2>2. TotalOf(old) = TotalOf(rows)
    BY <2>1 DEF TotalOf
  <2>3. TotalOf(rows) \in Nat
    BY TotalTyped
  <2> HIDE DEF old
  <2>4. TotalOf(old) <= TotalOf(rows) /\ TotalOf(old) = TotalOf(rows)
    BY <2>2, <2>3
  <2> QED
    BY <2>4 DEF old
<1>3. CASE b # "confirmed" /\ rows[t] = "confirmed"
  <2>1. R = S \cup {t} /\ S \in SUBSET Tx /\ t \in Tx \ S
    BY <1>1, <1>3
  <2>2. Sum[R] = Sum[S] + Amount[t] /\ Sum[S] \in Nat /\ Amount[t] \in Nat
    BY <2>1, RaceAssumption
  <2>3. Sum[S] <= Sum[R]
    BY <2>2
  <2> QED
    BY <1>3, <2>3 DEF TotalOf
<1> QED
  BY <1>2, <1>3

LEMMA LeadsTransitive ==
  ASSUME NEW a, NEW b, NEW c, LeadsTo(a, b), LeadsTo(b, c) PROVE LeadsTo(a, c)
BY DEF LeadsTo

\* What the others do to a status does not spoil its fit.
LEMMA LeadsFits ==
  ASSUME NEW a, NEW b, NEW n \in Nat, LeadsTo(a, b), Fits(a, n) PROVE Fits(b, n)
BY RaceAssumption DEF LeadsTo, Fits

\* The transition table never stands in the way of a status that fits.
LEMMA RecalculatedFits ==
  ASSUME NEW s \in InvoiceStatus, NEW n \in Nat
  PROVE  /\ Recalculated(s, n, Required) \in InvoiceStatus
         /\ Fits(Recalculated(s, n, Required), n)
         /\ s = "cancelled" <=> Recalculated(s, n, Required) = "cancelled"
BY RaceAssumption
DEF Fits, Recalculated, TargetStatus, can_transition, VALID_TRANSITIONS, InvoiceStatus

\* As totals only grow, no status is taken back.
LEMMA NothingReverted ==
  ASSUME NEW s \in InvoiceStatus, NEW old \in Nat, NEW n \in Nat, old <= n, Fits(s, old)
  PROVE  /\ s \in PaidStatuses => Recalculated(s, n, Required) \in PaidStatuses
         /\ s # "pending" => Recalculated(s, n, Required) # "pending"
         /\ Recalculated(s, n, Required) = "expired" => s = "expired"
BY RaceAssumption
DEF Fits, Recalculated, TargetStatus, can_transition, VALID_TRANSITIONS, InvoiceStatus,
    PaidStatuses

\* The event that is queued for a change, if any.
Queued(old, events) == IF events = {} THEN old ELSE CHOOSE e \in events : TRUE

LEMMA OneEvent == ASSUME NEW e, NEW old PROVE Queued(old, {e}) = e
BY DEF Queued

\* The event of a change that reverts nothing is the event of the new status.
LEMMA EventFollows ==
  ASSUME NEW s \in InvoiceStatus, NEW r \in InvoiceStatus, NEW old, s # r,
         r \notin {"pending", "cancelled"},
         s \in PaidStatuses => r \in PaidStatuses
  PROVE  InvoiceEventsFor(s, r) = {EventOf(r)}
BY DEF InvoiceEventsFor, EventOf, PaidStatuses, RevertedTargets, InvoiceStatus

LEMMA EventsTyped ==
  ASSUME NEW s, NEW r, NEW old \in InvoiceEvents \cup {"clean"}
  PROVE  Queued(old, InvoiceEventsFor(s, r)) \in InvoiceEvents \cup {"clean"}
<1>1. InvoiceEventsFor(s, r) \subseteq InvoiceEvents
  BY DEF InvoiceEventsFor, InvoiceEvents
<1>2. InvoiceEventsFor(s, r) # {} =>
        (CHOOSE e \in InvoiceEventsFor(s, r) : TRUE) \in InvoiceEventsFor(s, r)
  OBVIOUS
<1> QED
  BY <1>1, <1>2 DEF Queued

-----------------------------------------------------------------------------
(* The steps. *)

LEMMA Starts == Init => Inv
<1> SUFFICES ASSUME Init PROVE Inv
  OBVIOUS
<1>1. TypeOK
  BY DEF Init, TypeOK, InvoiceStatus, Rows
<1>2. pay \in Rows /\ \A t \in Tx : pay[t] = "none"
  BY DEF Init, Rows
<1>3. TotalOf(pay) = 0
  BY <1>2, NothingActive
<1>4. CommittedInv
  BY <1>3 DEF Init, CommittedInv, Fits, Announced, InSync, EventOf
<1>5. CycleInv /\ ItemInv
  BY <1>4 DEF Init, CycleInv, ItemInv, CommittedInv, Visible, LastTold
<1> QED
  BY <1>1, <1>4, <1>5 DEF Inv

LEMMA BeginKeeps == ASSUME Inv, BeginCycle PROVE Inv'
<1>1. TypeOK'
  BY DEF Inv, BeginCycle, TypeOK, committed
<1>2. CommittedInv'
  BY DEF Inv, BeginCycle, CommittedInv, committed
<1>3. CycleInv'
  BY DEF Inv, BeginCycle, CommittedInv, CycleInv, committed, Visible, LastTold
<1>4. ItemInv'
  BY DEF BeginCycle, ItemInv
<1> QED
  BY <1>1, <1>2, <1>3, <1>4 DEF Inv

LEMMA LoadKeeps == ASSUME Inv, NEW t \in Tx, LoadInvoice(t) PROVE Inv'
<1>0. /\ step = "open" /\ step' = "loaded" /\ UNCHANGED <<status, pay, found, told>>
      /\ UNCHANGED <<wstatus, wfound, wtold, cached, seen, cancel>>
      /\ TypeOK /\ wpay \in Rows
  BY Types DEF Inv, LoadInvoice, committed
<1>1. PICK s \in {Visible, cached} \ {"none"} :
        item' = [t |-> t, before |-> wpay[t], statusBefore |-> s]
  BY DEF LoadInvoice
<1>2. LeadsTo(s, Visible) /\ s \in InvoiceStatus
  BY <1>1, Types DEF Inv, CycleInv, LeadsTo
<1>3. wpay' \in Rows /\ Moves(wpay[t], wpay'[t]) /\ \A u \in Tx : u # t => wpay'[u] = wpay[u]
  <2>1. wpay[t] \in PaymentStatus \cup {"none"}
    BY <1>0 DEF Rows
  <2>2. CASE wpay' = wpay /\ wpay[t] \in {"confirmed", "orphaned"}
    BY <1>0, <2>2 DEF Moves
  <2>3. ASSUME NEW x \in PaymentStatus, wpay' = [wpay EXCEPT ![t] = x], Moves(wpay[t], x)
        PROVE  wpay' \in Rows /\ Moves(wpay[t], wpay'[t])
                 /\ \A u \in Tx : u # t => wpay'[u] = wpay[u]
    BY <1>0, <2>3 DEF Rows
  <2>4. CASE wpay[t] \in {"none", "detected"} /\ \E x \in {"detected", "confirmed"} :
               wpay' = [wpay EXCEPT ![t] = x]
    BY <2>3, <2>4 DEF Moves, PaymentStatus
  <2>5. CASE wpay[t] = "detected" /\ wpay' = [wpay EXCEPT ![t] = "orphaned"]
    BY <2>3, <2>5 DEF Moves, PaymentStatus
  <2> QED
    BY <2>2, <2>4, <2>5 DEF LoadInvoice
<1>4. item' \in Items /\ item'.t = t /\ item'.before = wpay[t] /\ item'.statusBefore = s
  BY <1>0, <1>1, <1>2 DEF Items, Rows
<1>5. Before' = wpay
  BY <1>0, <1>3, <1>4 DEF Before, Rows
<1>6. TypeOK'
  BY <1>0, <1>3, <1>4 DEF TypeOK, Items
<1>7. CommittedInv'
  BY <1>0 DEF Inv, CommittedInv
<1>8. Visible' = Visible /\ LastTold' = LastTold
  BY <1>0 DEF Visible, LastTold
<1>9. CycleInv'
  BY <1>0, <1>8 DEF Inv, CycleInv
<1>10. ItemInv'
  BY <1>0, <1>2, <1>3, <1>4, <1>5, <1>8 DEF Inv, CycleInv, ItemInv
<1> QED
  BY <1>6, <1>7, <1>9, <1>10 DEF Inv

LEMMA RefreshKeeps == ASSUME Inv, RefreshInvoice PROVE Inv'
<1>0. /\ step = "loaded" /\ step' = "refreshed"
      /\ UNCHANGED <<status, pay, found, told, wstatus, wpay, wfound, wtold, cached, item, cancel>>
      /\ TypeOK /\ wpay \in Rows /\ item \in Items /\ item.t \in Tx
      /\ item.before \in PaymentStatus \cup {"none"}
      /\ Moves(item.before, wpay[item.t])
      /\ seen' = IF Recalculates(item.before, wpay[item.t]) THEN Visible ELSE "none"
  BY Types DEF Inv, RefreshInvoice, ItemInv, committed, working, Items
<1>1. TypeOK'
  BY <1>0, Types DEF TypeOK
<1>2. CommittedInv'
  BY <1>0 DEF Inv, CommittedInv
<1>3. Visible' = Visible /\ LastTold' = LastTold /\ Before' = Before
  BY <1>0 DEF Visible, LastTold, Before
<1>4. CycleInv'
  BY <1>0, <1>3 DEF Inv, CycleInv
<1>5. ItemInv'
  <2>1. CASE Recalculates(item.before, wpay[item.t])
    <3>1. seen' = Visible /\ Visible # "none"
      BY <1>0, <2>1, Types, StatusNames
    <3> QED
      BY <1>0, <1>3, <3>1 DEF Inv, ItemInv, LeadsTo
  <2>2. CASE ~ Recalculates(item.before, wpay[item.t])
    <3>1. item.before # "none" /\ wpay[item.t] # "confirmed"
      BY <2>2 DEF Recalculates
    <3>2. TotalOf(Before) = TotalOf(wpay)
      BY <1>0, <3>1, TotalGrows DEF Before
    <3> QED
      BY <1>0, <1>3, <2>2, <3>2 DEF Inv, ItemInv
  <2> QED
    BY <2>1, <2>2
<1> QED
  BY <1>1, <1>2, <1>4, <1>5 DEF Inv

\* What the engine derives from the status it has seen is right for the
\* payments, and the event it queues tells the status that stands.
LEMMA FinishKeeps == ASSUME Inv, FinishItem PROVE Inv'
<1> DEFINE total == TotalOf(wpay)
           target == Recalculated(seen, total, Required)
           writes == seen # "none" /\ target # seen
           now == IF writes THEN target
                  ELSE IF GivenUp(item.before, wpay[item.t]) THEN seen ELSE Visible
           s == item.statusBefore
<1>0. /\ step = "refreshed" /\ step' = "open" /\ item' = NoItem /\ seen' = "none"
      /\ UNCHANGED <<status, pay, found, told, wpay, cancel>>
      /\ TypeOK /\ wpay \in Rows /\ item \in Items /\ item.t \in Tx /\ s \in InvoiceStatus
      /\ item.before \in PaymentStatus \cup {"none"}
      /\ Moves(item.before, wpay[item.t])
  BY Types DEF Inv, FinishItem, ItemInv, committed, Items
<1>1. total \in Nat /\ TotalOf(Before) \in Nat /\ TotalOf(Before) <= total
  BY <1>0, TotalTyped, TotalGrows DEF Before
<1>2. /\ wstatus' = (IF writes THEN target ELSE wstatus)
      /\ wtold' = Queued(wtold, InvoiceEventsFor(s, now))
      /\ wfound' = [wfound EXCEPT ![item.t] = IF item.before = "none" /\ @ < 2 THEN @ + 1 ELSE @]
      /\ cached' = now
  BY DEF FinishItem, Queued
<1> HIDE DEF total, s
<1>3. /\ seen # "none" => seen \in InvoiceStatus
      /\ Visible \in InvoiceStatus
  BY <1>0, Types
<1>4. seen # "none" => /\ Fits(seen, TotalOf(Before)) /\ LeadsTo(s, seen) /\ LeadsTo(seen, Visible)
                       /\ target \in InvoiceStatus /\ Fits(target, total)
                       /\ (seen = "cancelled" <=> target = "cancelled")
                       /\ (seen \in PaidStatuses => target \in PaidStatuses)
                       /\ (seen # "pending" => target # "pending")
                       /\ (target = "expired" => seen = "expired")
  BY <1>0, <1>1, <1>3, RecalculatedFits, NothingReverted DEF Inv, ItemInv, s
<1>5. seen = "none" => Fits(Visible, total) /\ LeadsTo(s, Visible)
  BY <1>0 DEF Inv, ItemInv, s, total
<1>6. ~ writes => /\ now \in InvoiceStatus /\ LeadsTo(s, now) /\ LeadsTo(now, Visible)
                  /\ Fits(Visible, total)
  <2> SUFFICES ASSUME ~ writes PROVE /\ now \in InvoiceStatus /\ LeadsTo(s, now)
                                     /\ LeadsTo(now, Visible) /\ Fits(Visible, total)
    OBVIOUS
  <2>1. CASE seen = "none"
    <3>1. ~ GivenUp(item.before, wpay[item.t])
      BY <1>0, <2>1 DEF Inv, ItemInv, Recalculates
    <3>2. now = Visible
      BY <3>1
    <3> QED
      BY <1>3, <1>5, <2>1, <3>2 DEF LeadsTo
  <2>2. CASE seen # "none"
    <3>1. Fits(Visible, total)
      BY <1>1, <1>4, <2>2, LeadsFits
    <3>2. LeadsTo(s, Visible)
      BY <1>4, <2>2, LeadsTransitive
    <3>3. now \in {seen, Visible}
      OBVIOUS
    <3> HIDE DEF now
    <3> QED
      BY <1>3, <1>4, <2>2, <3>1, <3>2, <3>3 DEF LeadsTo
  <2> QED
    BY <2>1, <2>2
<1>7. writes => now = target /\ now # seen /\ now \in InvoiceStatus
  BY <1>4
<1>8. Visible' = IF writes THEN target ELSE Visible
  <2>1. CASE writes
    <3>1. target # "clean"
      BY <1>4, <2>1, StatusNames
    <3> QED
      BY <1>2, <2>1, <3>1 DEF Visible
  <2>2. CASE ~ writes
    BY <1>0, <1>2, <2>2 DEF Visible
  <2> QED
    BY <2>1, <2>2
<1>9. Visible \in InvoiceStatus /\ InSync(Visible, LastTold)
  BY <1>3 DEF Inv, CycleInv
<1> HIDE DEF target, writes, now
<1>10. wtold' \in InvoiceEvents \cup {"clean"}
  BY <1>0, <1>2, EventsTyped DEF TypeOK
<1>11. TypeOK'
  <2>1. wstatus' \in InvoiceStatus \cup {"clean"} /\ cached' \in InvoiceStatus
    BY <1>0, <1>2, <1>4, <1>6, <1>7 DEF TypeOK, writes
  <2>2. wfound' \in [Tx -> 0 .. 2]
    <3>1. wfound \in [Tx -> 0 .. 2]
      BY <1>0 DEF TypeOK
    <3>2. (IF item.before = "none" /\ wfound[item.t] < 2 THEN wfound[item.t] + 1
                                                          ELSE wfound[item.t]) \in 0 .. 2
      BY <1>0, <3>1
    <3> QED
      BY <1>2, <3>1, <3>2
  <2> QED
    BY <1>0, <1>10, <2>1, <2>2 DEF TypeOK
<1>12. CommittedInv'
  BY <1>0 DEF Inv, CommittedInv
<1>13. Announced(wpay, wfound')
  <2>1. wfound \in [Tx -> 0 .. 2] /\ Announced(Before, wfound)
    BY <1>0 DEF TypeOK, Inv, ItemInv
  <2>2. /\ wfound'[item.t] = IF item.before = "none" /\ wfound[item.t] < 2
                               THEN wfound[item.t] + 1 ELSE wfound[item.t]
        /\ \A u \in Tx : u # item.t => wfound'[u] = wfound[u]
    BY <1>0, <1>2, <2>1
  <2>3. Before[item.t] = item.before /\ \A u \in Tx : u # item.t => Before[u] = wpay[u]
    BY <1>0 DEF Before, Rows
  <2>4. wfound[item.t] = IF item.before = "none" THEN 0 ELSE 1
    BY <1>0, <2>1, <2>3 DEF Announced
  <2>5. wpay[item.t] # "none"
    BY <1>0 DEF Moves
  <2>6. wfound'[item.t] = 1
    BY <2>2, <2>4
  <2> QED
    BY <2>1, <2>2, <2>3, <2>5, <2>6 DEF Announced
<1>14. InSync(Visible', LastTold')
  <2>1. CASE writes
    <3>1. seen # "none" /\ target # seen
      BY <2>1 DEF writes
    <3>2. CASE target = "cancelled"
      BY <1>8, <2>1, <3>2 DEF InSync
    <3>3. CASE target # "cancelled"
      <4>1. target # "pending"
        <5>1. CASE seen = "pending"
          BY <3>1, <5>1
        <5>2. CASE seen # "pending"
          BY <1>4, <3>1, <5>2
        <5> QED
          BY <5>1, <5>2
      <4>2. seen # "cancelled"
        BY <1>4, <3>1, <3>3
      <4>3. s = seen \/ (s = "pending" /\ seen = "expired")
        BY <1>4, <3>1, <4>2 DEF LeadsTo
      <4>4. s # target /\ (s \in PaidStatuses => target \in PaidStatuses)
        BY <1>4, <3>1, <4>1, <4>3 DEF PaidStatuses
      <4>5. InvoiceEventsFor(s, target) = {EventOf(target)}
        BY <1>0, <1>4, <3>1, <3>3, <4>1, <4>4, EventFollows
      <4>6. wtold' = EventOf(target)
        BY <1>2, <1>7, <2>1, <4>5, OneEvent
      <4>7. EventOf(target) # "clean"
        BY DEF EventOf
      <4> QED
        BY <1>8, <2>1, <4>6, <4>7 DEF InSync, LastTold
    <3> QED
      BY <3>2, <3>3
  <2>2. CASE ~ writes
    <3>1. Visible' = Visible
      BY <1>8, <2>2
    <3>2. CASE Visible = "cancelled"
      BY <3>1, <3>2 DEF InSync
    <3>3. CASE Visible # "cancelled" /\ s = now
      <4>1. InvoiceEventsFor(s, now) = {}
        BY <3>3 DEF InvoiceEventsFor, PaidStatuses, RevertedTargets
      <4>2. wtold' = wtold
        BY <1>2, <4>1 DEF Queued
      <4> QED
        BY <1>0, <1>9, <3>1, <4>2 DEF LastTold
    <3>4. CASE Visible # "cancelled" /\ s # now
      <4>1. s = "pending" /\ now = "expired"
        BY <1>6, <2>2, <3>4 DEF LeadsTo
      <4>2. Visible = "expired"
        BY <1>6, <2>2, <3>4, <4>1 DEF LeadsTo
      <4>3. InvoiceEventsFor(s, now) = {"invoice.expired"}
        BY <4>1 DEF InvoiceEventsFor, PaidStatuses, RevertedTargets
      <4>4. wtold' = "invoice.expired"
        BY <1>2, <4>3, OneEvent
      <4> QED
        BY <3>1, <4>2, <4>4 DEF InSync, LastTold, EventOf
    <3> QED
      BY <3>2, <3>3, <3>4
  <2> QED
    BY <2>1, <2>2
<1>15. Fits(Visible', total) /\ LeadsTo(now, Visible')
  BY <1>4, <1>6, <1>7, <1>8 DEF writes, LeadsTo
<1>16. CycleInv'
  BY <1>0, <1>2, <1>13, <1>14, <1>15 DEF CycleInv, total
<1>17. ItemInv'
  BY <1>0 DEF ItemInv
<1> QED
  BY <1>11, <1>12, <1>16, <1>17 DEF Inv

LEMMA CommitKeeps == ASSUME Inv, CommitCycle PROVE Inv'
<1>0. /\ step = "open" /\ step' = "idle" /\ wstatus' = "clean" /\ wtold' = "clean"
      /\ cached' = "none" /\ status' = Visible /\ pay' = wpay /\ found' = wfound
      /\ told' = LastTold /\ UNCHANGED <<wpay, wfound, item, seen, cancel>>
  BY DEF CommitCycle, LastTold
<1>1. TypeOK'
  BY <1>0, Types DEF Inv, TypeOK, LastTold
<1>2. CommittedInv'
  BY <1>0 DEF Inv, CycleInv, CommittedInv
<1>3. Visible' = status' /\ LastTold' = told'
  BY <1>0 DEF Visible, LastTold
<1>4. CycleInv'
  BY <1>0, <1>2, <1>3 DEF CycleInv, CommittedInv
<1>5. ItemInv'
  BY <1>0 DEF ItemInv
<1> QED
  BY <1>1, <1>2, <1>4, <1>5 DEF Inv

LEMMA RollBackKeeps == ASSUME Inv, RollBack PROVE Inv'
<1>0. /\ step' = "idle" /\ wstatus' = "clean" /\ wtold' = "clean" /\ cached' = "none"
      /\ wpay' = pay /\ wfound' = found /\ item' = NoItem /\ seen' = "none"
      /\ UNCHANGED <<status, pay, found, told, cancel>>
  BY DEF RollBack, committed
<1>1. TypeOK'
  BY <1>0 DEF Inv, TypeOK
<1>2. CommittedInv'
  BY <1>0 DEF Inv, CommittedInv
<1>3. Visible' = status' /\ LastTold' = told'
  BY <1>0 DEF Visible, LastTold
<1>4. CycleInv'
  BY <1>0, <1>2, <1>3 DEF CycleInv, CommittedInv
<1>5. ItemInv'
  BY <1>0 DEF ItemInv
<1> QED
  BY <1>1, <1>2, <1>4, <1>5 DEF Inv

\* The others write only a row that the engine has not written, and so that
\* what it has read of it leads to what is there now.
LEMMA OthersKeep ==
  ASSUME Inv, ~ LockedByEngine, LeadsTo(status, status'), status' \in InvoiceStatus,
         told' = told \/ (status = "pending" /\ told' = "invoice.expired"),
         InSync(status', told'), Fits(status', TotalOf(pay)),
         cancel' \in {"idle", "checked"},
         UNCHANGED <<pay, found, step, wstatus, wpay, wfound, wtold, cached, item, seen>>
  PROVE  Inv'
<1>1. Visible = status /\ Visible' = status' /\ wstatus = "clean" /\ wstatus' = "clean"
  BY DEF LockedByEngine, Visible
<1>2. TypeOK'
  BY DEF Inv, TypeOK, InvoiceEvents
<1>3. CommittedInv'
  BY DEF Inv, CommittedInv
<1>4. \A a : LeadsTo(a, Visible) => LeadsTo(a, Visible')
  BY <1>1, LeadsTransitive
<1>5. \A n \in Nat : Fits(Visible, n) => Fits(Visible', n)
  BY <1>1, LeadsFits
<1>6. Before' = Before
  BY DEF Before
<1>7. InSync(Visible', LastTold')
  <2>1. CASE wtold = "clean"
    BY <1>1, <2>1 DEF LastTold
  <2>2. CASE wtold # "clean"
    <3>1. LastTold = wtold /\ LastTold' = wtold /\ wtold \in InvoiceEvents
      BY <2>2 DEF LastTold, Inv, TypeOK
    <3>2. InSync(status, wtold)
      BY <1>1, <3>1 DEF Inv, CycleInv
    <3>3. status # "pending"
      BY <3>1, <3>2, StatusNames DEF InSync, EventOf
    <3>4. status' \in {status, "cancelled"}
      BY <3>3 DEF LeadsTo
    <3> QED
      BY <1>1, <3>1, <3>2, <3>4 DEF InSync
  <2> QED
    BY <2>1, <2>2
<1>8. CycleInv'
  BY <1>1, <1>4, <1>5, <1>7, TotalTyped DEF Inv, CycleInv
<1>9. ItemInv'
  BY <1>1, <1>4, <1>5, <1>6, TotalTyped DEF Inv, ItemInv
<1> QED
  BY <1>2, <1>3, <1>8, <1>9 DEF Inv

LEMMA CancelKeeps == ASSUME Inv, CancelChecks \/ CancelWrites PROVE Inv'
<1>1. CASE CancelChecks
  <2>1. /\ cancel' = "checked"
        /\ UNCHANGED <<status, pay, found, told, step, wstatus, wpay, wfound, wtold, cached,
                       item, seen>>
    BY <1>1 DEF CancelChecks, committed, working
  <2>2. Visible' = Visible /\ LastTold' = LastTold /\ Before' = Before
    BY <2>1 DEF Visible, LastTold, Before
  <2> QED
    BY <2>1, <2>2 DEF Inv, TypeOK, CommittedInv, CycleInv, ItemInv
<1>2. CASE CancelWrites
  BY <1>2, OthersKeep
  DEF CancelWrites, working, LeadsTo, InSync, Fits, InvoiceStatus
<1> QED
  BY <1>1, <1>2

LEMMA ExpireKeeps == ASSUME Inv, ExpireUpdates PROVE Inv'
<1>1. TotalOf(pay) = 0
  <2>1. pay \in Rows /\ \A t \in Tx : pay[t] # "confirmed"
    BY Types DEF Inv, ExpireUpdates, Active
  <2> QED
    BY <2>1, NothingActive
<1>2. Fits("expired", TotalOf(pay)) /\ InSync("expired", "invoice.expired")
  BY <1>1, RaceAssumption DEF Fits, InSync, EventOf
<1>3. cancel' \in {"idle", "checked"}
  BY DEF Inv, TypeOK, ExpireUpdates
<1> QED
  BY <1>2, <1>3, OthersKeep DEF ExpireUpdates, working, LeadsTo, InvoiceStatus

LEMMA Stutters == ASSUME Inv, UNCHANGED vars PROVE Inv'
<1>1. UNCHANGED <<status, pay, found, told, step, wstatus, wpay, wfound, wtold, cached, item,
                  seen, cancel>>
  BY DEF vars, committed, working
<1>2. Visible' = Visible /\ LastTold' = LastTold /\ Before' = Before
  BY <1>1 DEF Visible, LastTold, Before
<1> QED
  BY <1>1, <1>2 DEF Inv, TypeOK, CommittedInv, CycleInv, ItemInv

LEMMA Keeps == Inv /\ [Next]_vars => Inv'
<1> SUFFICES ASSUME Inv, [Next]_vars PROVE Inv'
  OBVIOUS
<1>1. CASE Engine
  BY <1>1, BeginKeeps, LoadKeeps, RefreshKeeps, FinishKeeps, CommitKeeps, RollBackKeeps
  DEF Engine
<1>2. CASE CancelChecks \/ CancelWrites \/ ExpireUpdates
  BY <1>2, CancelKeeps, ExpireKeeps
<1>3. CASE UNCHANGED vars
  BY <1>3, Stutters
<1> QED
  BY <1>1, <1>2, <1>3 DEF Next

LEMMA Inductive == Spec => []Inv
<1>1. Init => Inv
  BY Starts
<1>2. Inv /\ [Next]_vars => Inv'
  BY Keeps
<1> QED
  BY <1>1, <1>2, PTL DEF Spec

-----------------------------------------------------------------------------

\* The rows, the engine's transaction and the request keep their types
\* (detection_engine.py:157-244, invoice_service.py:339-390).
THEOREM RaceTypeCorrect == Spec => []TypeOK
<1>1. Inv => TypeOK
  BY DEF Inv
<1> QED
  BY <1>1, Inductive, PTL

\* Every committed status fits the committed payments, for any number of
\* payments of any amount and any interleaving of engine, cancel request and
\* expirer (payment_service.py:374-445).
THEOREM CommittedFits == Spec => []CommittedStatusFits
<1>1. Inv => CommittedStatusFits
  BY DEF Inv, CommittedInv, CommittedStatusFits, Fits
<1> QED
  BY <1>1, Inductive, PTL

\* A detected payment is announced exactly once, whatever is rolled back and
\* scanned again (detection_engine.py:107-131).
THEOREM DetectionsAnnounced == Spec => []DetectionAnnouncedOnce
<1>1. Inv => DetectionAnnouncedOnce
  BY DEF Inv, CommittedInv, Announced, DetectionAnnouncedOnce
<1> QED
  BY <1>1, Inductive, PTL

\* The last invoice event that was queued tells the status of an invoice that
\* is not cancelled, although it is derived from a status that may be stale
\* (payment_service.py:600-617).
THEOREM MerchantKnows == Spec => []MerchantInSync
<1>1. Inv => MerchantInSync
  BY DEF Inv, CommittedInv, InSync, EventOf, MerchantInSync
<1> QED
  BY <1>1, Inductive, PTL
=============================================================================
