--------------------------- MODULE DatabaseProofs ---------------------------
(***************************************************************************)
(* Proofs about what becomes of the database: of its rows, which the        *)
(* cleaner deletes (Retention), and of its schema, which the migrations     *)
(* change (Migrations).                                                     *)
(*                                                                         *)
(* Nothing that is referred to is deleted, and what can still be paid keeps *)
(* its address, for any number of rows and any size of batches.  The schema *)
(* is that of its version, payments are unique once they are said to be,    *)
(* and only the revisions that say so can be refused, for any number of     *)
(* interruptions and reversals.                                             *)
(***************************************************************************)
EXTENDS Retention, Migrations, TLAPS

InvoiceType == [status : {"none", "open", "ended", "gone"}, old : BOOLEAN, addr : BOOLEAN,
                refs : SUBSET Referrers]
DeliveryType == [age : {"none", "new", "old", "gone"}, invoice : Invoices \cup {None},
                 letter : BOOLEAN]
TxType == [step : {"idle", "addresses", "targets", "picked", "letters", "deliveries", "commit"},
           addresses : SUBSET Invoices, invoices : SUBSET Invoices,
           letters : SUBSET Deliveries, deliveries : SUBSET Deliveries]

\* The steps after the DELETE of the invoices, which has locked their rows.
Late == {"letters", "deliveries", "commit"}

\* What the cleaner has deleted: rows that are over, with no referrer but a late
\* payment, and none at all once the keys have been checked; and deliveries
\* whose letters are deleted.
Deleted ==
  /\ \A i \in tx.addresses : invoice[i].status = "ended" /\ invoice[i].refs \subseteq {"payments"}
  /\ \A i \in tx.invoices : invoice[i].status = "ended"
  /\ tx.step \in Late => \A i \in tx.invoices : ~ Referred(i)
  /\ \A d \in tx.deliveries : delivery[d].letter => d \in tx.letters
  /\ tx.step # "commit" => tx.deliveries = {}

Inv == TypeOK /\ Deleted /\ NothingDangles /\ OpenHasAddress

-----------------------------------------------------------------------------

LEMMA Types ==
  ASSUME Inv
  PROVE  /\ invoice \in [Invoices -> InvoiceType]
         /\ delivery \in [Deliveries -> DeliveryType]
         /\ tx \in TxType
BY DEF Inv, TypeOK, InvoiceType, DeliveryType, TxType

LEMMA IdleTyped == Idle \in TxType /\ Idle.addresses = {} /\ Idle.invoices = {}
                     /\ Idle.step = "idle" /\ Idle.deliveries = {}
BY DEF Idle, TxType

\* The form in which the types are shown again.
LEMMA TypesAgain ==
  ASSUME invoice' \in [Invoices -> InvoiceType], delivery' \in [Deliveries -> DeliveryType],
         tx' \in TxType, found' \in Invoices \cup {None}, failures' \in 0 .. MaxFailures
  PROVE  TypeOK'
BY DEF TypeOK, InvoiceType, DeliveryType, TxType

LEMMA Starts == Init => Inv
<1> SUFFICES ASSUME Init PROVE Inv
  OBVIOUS
<1>1. NoInvoice \in InvoiceType /\ NoInvoice.status = "none"
  BY DEF NoInvoice, InvoiceType
<1>2. NoDelivery \in DeliveryType /\ NoDelivery.letter = FALSE
  BY DEF NoDelivery, DeliveryType
<1>3. TypeOK
  BY <1>1, <1>2, IdleTyped, RetentionAssumption
     DEF Init, TypeOK, InvoiceType, DeliveryType, TxType
<1>4. Deleted
  BY IdleTyped DEF Init, Deleted, Late
<1>5. NothingDangles
  BY <1>1, <1>2 DEF Init, NothingDangles
<1>6. OpenHasAddress
  BY <1>1 DEF Init, OpenHasAddress, Row
<1> QED
  BY <1>3, <1>4, <1>5, <1>6 DEF Inv

-----------------------------------------------------------------------------
(* The rest of the application. *)

\* What Queued does, row by row.
LEMMA QueuedRows ==
  ASSUME Inv, NEW i \in Invoices, Queued(i)
  PROVE  /\ delivery' \in [Deliveries -> DeliveryType]
         /\ \A d \in Deliveries :
              /\ Kept(d)' => (Kept(d) /\ delivery'[d].invoice = delivery[d].invoice)
                               \/ delivery'[d].invoice = i
              /\ delivery'[d].letter => Kept(d)'
              /\ delivery'[d].letter = delivery[d].letter
<1>0. delivery \in [Deliveries -> DeliveryType]
  BY Types
<1>1. CASE UNCHANGED delivery
  BY <1>0, <1>1 DEF Inv, NothingDangles, Kept
<1>2. ASSUME NEW c \in Deliveries, delivery[c].age = "none",
             delivery' = [delivery EXCEPT ![c].age = "new", ![c].invoice = i]
      PROVE  /\ delivery' \in [Deliveries -> DeliveryType]
             /\ \A d \in Deliveries :
                  /\ Kept(d)' => (Kept(d) /\ delivery'[d].invoice = delivery[d].invoice)
                                   \/ delivery'[d].invoice = i
                  /\ delivery'[d].letter => Kept(d)'
                  /\ delivery'[d].letter = delivery[d].letter
  <2>1. delivery'[c].age = "new" /\ delivery'[c].invoice = i
        /\ delivery'[c].letter = delivery[c].letter
    BY <1>0, <1>2 DEF DeliveryType
  <2>2. \A d \in Deliveries : d # c => delivery'[d] = delivery[d]
    BY <1>0, <1>2
  <2>3. delivery' \in [Deliveries -> DeliveryType]
    BY <1>0, <1>2 DEF DeliveryType
  <2>4. \A d \in Deliveries : delivery[d].letter => Kept(d)
    BY DEF Inv, NothingDangles
  <2> QED
    BY <2>1, <2>2, <2>3, <2>4 DEF Kept
<1> QED
  BY <1>1, <1>2 DEF Queued

\* One row of an invoice is written, and deliveries of it may be queued.
LEMMA InvoiceWritten ==
  ASSUME Inv, NEW i \in Invoices, NEW row \in InvoiceType, Queued(i), tx' = tx,
         invoice' = [invoice EXCEPT ![i] = row],
         row.status # "gone",
         tx.step \in Late => i \notin tx.invoices,
         i \in tx.addresses => row.status = "ended" /\ row.refs \subseteq {"payments"},
         i \in tx.invoices => row.status = "ended",
         row.status = "open" \/ row.refs \ {"payments"} # {} => row.addr \/ row.status = "none",
         found' \in Invoices \cup {None}, failures' \in 0 .. MaxFailures
  PROVE  Inv'
<1>0. invoice \in [Invoices -> InvoiceType] /\ tx \in TxType
  BY Types
<1>1. /\ invoice' \in [Invoices -> InvoiceType] /\ invoice'[i] = row
      /\ \A j \in Invoices : j # i => invoice'[j] = invoice[j]
  BY <1>0
<1>2. /\ delivery' \in [Deliveries -> DeliveryType]
      /\ \A d \in Deliveries :
           /\ Kept(d)' => (Kept(d) /\ delivery'[d].invoice = delivery[d].invoice)
                            \/ delivery'[d].invoice = i
           /\ delivery'[d].letter => Kept(d)'
           /\ delivery'[d].letter = delivery[d].letter
  BY QueuedRows
<1>3. TypeOK'
  BY <1>0, <1>1, <1>2, TypesAgain
<1>4. tx.addresses \subseteq Invoices /\ tx.invoices \subseteq Invoices
      /\ tx.deliveries \subseteq Deliveries
  BY <1>0 DEF TxType
<1>5. Deleted'
  <2>1. \A j \in tx.addresses : invoice'[j].status = "ended" /\ invoice'[j].refs \subseteq {"payments"}
    BY <1>1, <1>4 DEF Inv, Deleted
  <2>2. \A j \in tx.invoices : invoice'[j].status = "ended"
    BY <1>1, <1>4 DEF Inv, Deleted
  <2>3. ASSUME tx.step \in Late, NEW j \in tx.invoices PROVE ~ Referred(j)'
    <3>1. j # i /\ j \in Invoices /\ invoice'[j] = invoice[j] /\ ~ Referred(j)
      BY <1>1, <1>4, <2>3 DEF Inv, Deleted
    <3> QED
      BY <1>2, <3>1 DEF Referred
  <2>4. /\ \A d \in tx.deliveries : delivery'[d].letter => d \in tx.letters
        /\ tx.step # "commit" => tx.deliveries = {}
    BY <1>2, <1>4 DEF Inv, Deleted
  <2> QED
    BY <2>1, <2>2, <2>3, <2>4 DEF Deleted
<1>6. NothingDangles'
  <2>1. ASSUME NEW j \in Invoices, invoice'[j].status = "gone"
        PROVE  invoice'[j].refs = {} /\ \A d \in Deliveries : Kept(d)' => delivery'[d].invoice # j
    <3>1. j # i /\ invoice'[j] = invoice[j]
      BY <1>1, <2>1
    <3> QED
      BY <1>2, <2>1, <3>1 DEF Inv, NothingDangles
  <2> QED
    BY <1>2, <2>1 DEF NothingDangles
<1>7. OpenHasAddress'
  BY <1>1 DEF Inv, OpenHasAddress, Row
<1> QED
  BY <1>3, <1>5, <1>6, <1>7 DEF Inv

LEMMA CreateKeeps ==
  ASSUME Inv, NEW i \in Invoices, NEW purpose \in Purposes, create_invoice(i, purpose)
  PROVE  Inv'
<1> DEFINE row == [NoInvoice EXCEPT !.status = "open", !.addr = TRUE, !.refs = RefsOf[purpose]]
<1>1. RefsOf[purpose] \in SUBSET Referrers
  BY RetentionAssumption DEF RefsOf, Referrers
<1>2. row \in InvoiceType /\ row.status = "open" /\ row.addr
  BY <1>1 DEF NoInvoice, InvoiceType
<1>3. invoice' = [invoice EXCEPT ![i] = row] /\ tx' = tx /\ Queued(i)
  BY DEF create_invoice, Queued
<1>4. i \notin tx.invoices /\ i \notin tx.addresses
  BY DEF Inv, Deleted, create_invoice
<1>5. found' \in Invoices \cup {None} /\ failures' \in 0 .. MaxFailures
  BY DEF Inv, TypeOK, create_invoice
<1> HIDE DEF row
<1> QED
  BY <1>2, <1>3, <1>4, <1>5, InvoiceWritten

LEMMA EndKeeps == ASSUME Inv, NEW i \in Invoices, EndInvoice(i) PROVE Inv'
<1> DEFINE row == [invoice[i] EXCEPT !.status = "ended"]
<1>0. invoice[i] \in InvoiceType /\ invoice \in [Invoices -> InvoiceType]
  BY Types
<1>1. row \in InvoiceType /\ row.status = "ended" /\ row.addr = invoice[i].addr
  BY <1>0 DEF InvoiceType
<1>2. invoice' = [invoice EXCEPT ![i] = row] /\ tx' = tx /\ Queued(i)
  BY <1>0 DEF EndInvoice
<1>3. i \notin tx.invoices /\ i \notin tx.addresses
  BY DEF Inv, Deleted, EndInvoice
<1>4. found' \in Invoices \cup {None} /\ failures' \in 0 .. MaxFailures
  BY DEF Inv, TypeOK, EndInvoice
<1>5. invoice[i].addr
  BY DEF Inv, OpenHasAddress, EndInvoice
<1> HIDE DEF row
<1> QED
  BY <1>1, <1>2, <1>3, <1>4, <1>5, InvoiceWritten

LEMMA ClearKeeps == ASSUME Inv, NEW i \in Invoices, ClearPrepay(i) PROVE Inv'
<1>0. invoice[i] \in InvoiceType /\ invoice \in [Invoices -> InvoiceType]
  BY Types
<1>1. PICK paid \in SUBSET {"subscription_payments"} :
        invoice' = [invoice EXCEPT ![i].refs = (@ \ {"subscriptions"}) \cup paid]
  BY DEF ClearPrepay
<1> DEFINE row == [invoice[i] EXCEPT !.refs = (invoice[i].refs \ {"subscriptions"}) \cup paid]
<1>2. invoice' = [invoice EXCEPT ![i] = row] /\ tx' = tx
  BY <1>0, <1>1 DEF ClearPrepay
<1>3. Queued(i)
  BY DEF ClearPrepay, Queued
<1>4. "subscriptions" \in invoice[i].refs
  BY DEF ClearPrepay
<1>5. invoice[i].status # "gone"
  BY <1>4 DEF Inv, NothingDangles
<1>6. (invoice[i].refs \ {"subscriptions"}) \cup paid \in SUBSET Referrers
  BY <1>0 DEF InvoiceType, Referrers
<1>7. row \in InvoiceType /\ row.status = invoice[i].status /\ row.addr = invoice[i].addr
  BY <1>0, <1>6 DEF InvoiceType
<1>8. i \notin tx.addresses
  BY <1>4 DEF Inv, Deleted
<1>9. /\ tx.step \in Late => i \notin tx.invoices
      /\ i \in tx.invoices => invoice[i].status = "ended"
  BY <1>4 DEF Inv, Deleted, Referred
<1>10. invoice[i].addr \/ invoice[i].status = "none"
  BY <1>4, <1>5 DEF Inv, OpenHasAddress, Row
<1>11. found' \in Invoices \cup {None} /\ failures' \in 0 .. MaxFailures
  BY DEF Inv, TypeOK, ClearPrepay
<1> HIDE DEF row
<1> QED
  BY <1>2, <1>3, <1>5, <1>7, <1>8, <1>9, <1>10, <1>11, InvoiceWritten

LEMMA AgeKeeps == ASSUME Inv, NEW i \in Invoices, InvoiceAges(i) PROVE Inv'
<1> DEFINE row == [invoice[i] EXCEPT !.old = TRUE]
<1>0. invoice[i] \in InvoiceType /\ invoice \in [Invoices -> InvoiceType]
  BY Types
<1>1. /\ row \in InvoiceType /\ row.status = "ended" /\ row.addr = invoice[i].addr
      /\ row.refs = invoice[i].refs
  BY <1>0 DEF InvoiceType, InvoiceAges
<1>2. invoice' = [invoice EXCEPT ![i] = row] /\ tx' = tx
  BY <1>0 DEF InvoiceAges
<1>3. Queued(i)
  BY DEF InvoiceAges, Queued
<1>4. /\ tx.step \notin Late
      /\ i \in tx.addresses => invoice[i].refs \subseteq {"payments"}
  BY DEF Inv, Deleted, InvoiceAges, Late
<1>5. invoice[i].refs \ {"payments"} # {} => invoice[i].addr
  BY DEF Inv, OpenHasAddress, InvoiceAges, Row
<1>6. found' \in Invoices \cup {None} /\ failures' \in 0 .. MaxFailures
  BY DEF Inv, TypeOK, InvoiceAges
<1> HIDE DEF row
<1> QED
  BY <1>1, <1>2, <1>3, <1>4, <1>5, <1>6, InvoiceWritten

\* A late payment: of an invoice the cleaner has not locked, or of none.
LEMMA PaymentKeeps == ASSUME Inv, RecordPayment PROVE Inv'
<1>0. /\ found \in Invoices /\ tx' = tx /\ found' = None /\ failures' = failures
      /\ failures \in 0 .. MaxFailures /\ invoice \in [Invoices -> InvoiceType]
  BY Types DEF RecordPayment, Inv, TypeOK
<1>1. CASE UNCHANGED <<invoice, delivery>>
  <2>1. TypeOK'
    BY <1>0, <1>1, Types, TypesAgain
  <2> QED
    BY <1>0, <1>1, <2>1
       DEF Inv, Deleted, NothingDangles, OpenHasAddress, Referred, Kept, Row
<1>2. CASE /\ Touchable(found) /\ Queued(found)
           /\ invoice' = [invoice EXCEPT ![found].refs = @ \cup {"payments"},
                                         ![found].old = FALSE]
  <2> DEFINE refs == invoice[found].refs \cup {"payments"}
             row == [invoice[found] EXCEPT !.refs = refs, !.old = FALSE]
  <2>1. invoice[found] \in InvoiceType
    BY <1>0
  <2>2. refs \in SUBSET Referrers
    BY <2>1 DEF InvoiceType, Referrers
  <2>3. invoice' = [invoice EXCEPT ![found] = row]
    BY <1>0, <1>2
  <2>4. refs \subseteq invoice[found].refs \cup {"payments"} /\ invoice[found].refs \subseteq refs
    OBVIOUS
  <2> HIDE DEF refs
  <2>5. /\ row \in InvoiceType /\ row.refs = refs /\ row.status = invoice[found].status
        /\ row.addr = invoice[found].addr
    BY <2>1, <2>2 DEF InvoiceType
  <2>6. Row(found) /\ (tx.step \in Late => found \notin tx.invoices)
    BY <1>2 DEF Touchable, Late
  <2>7. /\ found \in tx.invoices => invoice[found].status = "ended"
        /\ found \in tx.addresses => /\ invoice[found].status = "ended"
                                      /\ refs \subseteq {"payments"}
    BY <2>4 DEF Inv, Deleted
  <2>8. invoice[found].status = "open" \/ refs \ {"payments"} # {} => invoice[found].addr
    BY <1>0, <2>4, <2>6 DEF Inv, OpenHasAddress
  <2>9. invoice[found].status # "gone"
    BY <2>6 DEF Row
  <2> HIDE DEF row
  <2> QED
    BY <1>0, <1>2, <2>3, <2>5, <2>6, <2>7, <2>8, <2>9, InvoiceWritten
<1> QED
  BY <1>1, <1>2 DEF RecordPayment

\* Deliveries that stay what they are to the invoices.
LEMMA DeliveriesWritten ==
  ASSUME Inv, invoice' = invoice, tx' = tx,
         delivery' \in [Deliveries -> DeliveryType],
         \A d \in Deliveries :
           /\ Kept(d)' => Kept(d) /\ delivery'[d].invoice = delivery[d].invoice
           /\ delivery'[d].letter => Kept(d)'
           /\ d \in tx.deliveries => delivery'[d].letter = delivery[d].letter,
         found' \in Invoices \cup {None}, failures' \in 0 .. MaxFailures
  PROVE  Inv'
<1>1. TypeOK'
  BY Types, TypesAgain
<1>2. Deleted'
  <2>1. ASSUME NEW j \in Invoices, ~ Referred(j) PROVE ~ Referred(j)'
    BY <2>1 DEF Referred
  <2>2. tx.invoices \subseteq Invoices /\ tx.deliveries \subseteq Deliveries
    BY Types DEF TxType
  <2> QED
    BY <2>1, <2>2 DEF Inv, Deleted
<1>3. NothingDangles'
  BY DEF Inv, NothingDangles
<1>4. OpenHasAddress'
  BY DEF Inv, OpenHasAddress, Row
<1> QED
  BY <1>1, <1>2, <1>3, <1>4 DEF Inv

LEMMA LetterKeeps == ASSUME Inv, NEW d \in Deliveries, MoveToDlq(d) PROVE Inv'
<1>0. delivery[d] \in DeliveryType /\ delivery \in [Deliveries -> DeliveryType]
  BY Types
<1> DEFINE row == [delivery[d] EXCEPT !.letter = TRUE]
<1>1. /\ row \in DeliveryType /\ row.letter = TRUE /\ row.age = delivery[d].age
      /\ row.invoice = delivery[d].invoice
  BY <1>0 DEF DeliveryType
<1>2. delivery' = [delivery EXCEPT ![d] = row] /\ invoice' = invoice /\ tx' = tx
  BY <1>0 DEF MoveToDlq
<1>3. found' \in Invoices \cup {None} /\ failures' \in 0 .. MaxFailures
  BY DEF Inv, TypeOK, MoveToDlq
<1>4. Kept(d) /\ d \notin tx.deliveries
  BY DEF MoveToDlq
<1> HIDE DEF row
<1>5. delivery'[d] = row /\ \A c \in Deliveries : c # d => delivery'[c] = delivery[c]
  BY <1>0, <1>2
<1>6. delivery' \in [Deliveries -> DeliveryType]
  BY <1>0, <1>1, <1>2
<1>7. \A c \in Deliveries : delivery[c].letter => Kept(c)
  BY DEF Inv, NothingDangles
<1>8. ASSUME NEW c \in Deliveries
      PROVE  /\ Kept(c)' => Kept(c) /\ delivery'[c].invoice = delivery[c].invoice
             /\ delivery'[c].letter => Kept(c)'
             /\ c \in tx.deliveries => delivery'[c].letter = delivery[c].letter
  BY <1>1, <1>4, <1>5, <1>7 DEF Kept
<1> QED
  BY <1>2, <1>3, <1>6, <1>8, DeliveriesWritten

LEMMA DeliveryAgesKeeps == ASSUME Inv, NEW d \in Deliveries, DeliveryAges(d) PROVE Inv'
<1>0. delivery[d] \in DeliveryType /\ delivery \in [Deliveries -> DeliveryType]
  BY Types
<1> DEFINE row == [delivery[d] EXCEPT !.age = "old"]
<1>1. /\ row \in DeliveryType /\ row.age = "old" /\ row.invoice = delivery[d].invoice
      /\ row.letter = delivery[d].letter
  BY <1>0 DEF DeliveryType
<1>2. delivery' = [delivery EXCEPT ![d] = row] /\ invoice' = invoice /\ tx' = tx
  BY <1>0 DEF DeliveryAges
<1>3. found' \in Invoices \cup {None} /\ failures' \in 0 .. MaxFailures
  BY DEF Inv, TypeOK, DeliveryAges
<1>4. Kept(d)
  BY DEF DeliveryAges, Kept
<1> HIDE DEF row
<1>5. delivery'[d] = row /\ \A c \in Deliveries : c # d => delivery'[c] = delivery[c]
  BY <1>0, <1>2
<1>6. delivery' \in [Deliveries -> DeliveryType]
  BY <1>0, <1>1, <1>2
<1>7. \A c \in Deliveries : delivery[c].letter => Kept(c)
  BY DEF Inv, NothingDangles
<1>8. ASSUME NEW c \in Deliveries
      PROVE  /\ Kept(c)' => Kept(c) /\ delivery'[c].invoice = delivery[c].invoice
             /\ delivery'[c].letter => Kept(c)'
             /\ c \in tx.deliveries => delivery'[c].letter = delivery[c].letter
  BY <1>1, <1>4, <1>5, <1>7 DEF Kept
<1> QED
  BY <1>2, <1>3, <1>6, <1>8, DeliveriesWritten

-----------------------------------------------------------------------------
(* The cleaner. *)

\* A step that writes no row, and has deleted only what it may.
LEMMA OnlyTx ==
  ASSUME Inv, invoice' = invoice, delivery' = delivery, tx' \in TxType,
         \A i \in tx'.addresses : /\ invoice[i].status = "ended"
                                  /\ invoice[i].refs \subseteq {"payments"},
         \A i \in tx'.invoices : invoice[i].status = "ended",
         tx'.step \in Late => \A i \in tx'.invoices : ~ Referred(i),
         \A d \in tx'.deliveries : delivery[d].letter => d \in tx'.letters,
         tx'.step # "commit" => tx'.deliveries = {},
         found' \in Invoices \cup {None}, failures' \in 0 .. MaxFailures
  PROVE  Inv'
<1>1. TypeOK'
  BY Types, TypesAgain
<1>2. Deleted'
  BY DEF Deleted, Referred, Kept
<1>3. NothingDangles' /\ OpenHasAddress'
  BY DEF Inv, NothingDangles, OpenHasAddress, Kept, Row
<1> QED
  BY <1>1, <1>2, <1>3 DEF Inv

LEMMA BatchOf == ASSUME NEW S, NEW B \in Batches(S) PROVE B \subseteq S
BY DEF Batches

LEMMA TargetsAreOver ==
  /\ Targets \subseteq Invoices
  /\ \A i \in Targets : invoice[i].status = "ended" /\ invoice[i].refs \subseteq {"payments"}
BY DEF Targets

LEMMA FindKeeps ==
  ASSUME Inv, NEW i \in Invoices, find_invoice_by_subaddress_index(i) PROVE Inv'
<1>1. /\ invoice' = invoice /\ delivery' = delivery /\ tx' = tx /\ found' = i
      /\ failures' \in 0 .. MaxFailures
  BY DEF find_invoice_by_subaddress_index, Inv, TypeOK
<1> QED
  BY <1>1, Types, OnlyTx DEF Inv, Deleted

LEMMA RollBackKeeps ==
  ASSUME Inv, RollBack, invoice' = invoice, delivery' = delivery,
         found' \in Invoices \cup {None}, failures' \in 0 .. MaxFailures
  PROVE  Inv'
<1>1. tx' \in TxType /\ tx'.addresses = {} /\ tx'.invoices = {} /\ tx'.deliveries = {}
  BY IdleTyped DEF RollBack
<1> QED
  BY <1>1, OnlyTx

LEMMA CleanerKeeps ==
  ASSUME Inv,
         BeginCycle \/ DeleteAddresses \/ PickInvoices \/ DeleteInvoices \/ DeleteLetters
           \/ DeleteDeliveries
  PROVE  Inv'
<1>0. /\ invoice' = invoice /\ delivery' = delivery /\ tx \in TxType
      /\ found' \in Invoices \cup {None} /\ failures' \in 0 .. MaxFailures
  BY Types DEF Inv, TypeOK, BeginCycle, DeleteAddresses, PickInvoices, DeleteInvoices,
               DeleteLetters, DeleteDeliveries
<1>1. ASSUME BeginCycle PROVE Inv'
  <2>1. /\ tx' \in TxType /\ tx'.step = "addresses" /\ tx'.addresses = tx.addresses
        /\ tx'.invoices = tx.invoices /\ tx'.deliveries = {}
    BY <1>0, <1>1 DEF BeginCycle, Inv, Deleted, Goto, TxType
  <2> QED
    BY <1>0, <2>1, OnlyTx DEF Inv, Deleted, Late
<1>2. ASSUME DeleteAddresses PROVE Inv'
  <2>1. PICK B \in Batches(Targets) :
          tx' = [tx EXCEPT !.addresses = {i \in B : invoice[i].addr}, !.step = "targets"]
    BY <1>2 DEF DeleteAddresses
  <2> DEFINE A == {i \in B : invoice[i].addr}
  <2>2. A \subseteq Targets /\ A \subseteq Invoices
    BY BatchOf, TargetsAreOver
  <2> HIDE DEF A
  <2>3. tx' = [tx EXCEPT !.addresses = A, !.step = "targets"]
    BY <2>1 DEF A
  <2>4. /\ tx' \in TxType /\ tx'.step = "targets" /\ tx'.addresses = A
        /\ tx'.invoices = tx.invoices /\ tx'.deliveries = tx.deliveries
        /\ tx.deliveries = {}
    BY <1>0, <1>2, <2>2, <2>3 DEF TxType, Inv, Deleted, DeleteAddresses
  <2> QED
    BY <1>0, <2>2, <2>4, OnlyTx, TargetsAreOver DEF Inv, Deleted, Late
<1>3. ASSUME PickInvoices PROVE Inv'
  <2>1. PICK B \in Batches(Targets) : tx' = [tx EXCEPT !.invoices = B, !.step = "picked"]
    BY <1>3 DEF PickInvoices
  <2>2. B \subseteq Targets /\ B \subseteq Invoices
    BY BatchOf, TargetsAreOver
  <2>3. /\ tx' \in TxType /\ tx'.step = "picked" /\ tx'.invoices = B
        /\ tx'.addresses = tx.addresses /\ tx'.deliveries = tx.deliveries
        /\ tx.deliveries = {}
    BY <1>0, <1>3, <2>1, <2>2 DEF TxType, Inv, Deleted, PickInvoices
  <2> QED
    BY <1>0, <2>2, <2>3, OnlyTx, TargetsAreOver DEF Inv, Deleted, Late
<1>4. ASSUME DeleteInvoices PROVE Inv'
  <2>1. CASE \E i \in tx.invoices : Referred(i)
    BY <1>0, <1>4, <2>1, RollBackKeeps DEF DeleteInvoices
  <2>2. CASE \A i \in tx.invoices : ~ Referred(i)
    <3>1. /\ tx' \in TxType /\ tx'.addresses = tx.addresses /\ tx'.invoices = tx.invoices
          /\ tx'.deliveries = {}
      BY <1>0, <1>4, <2>2 DEF DeleteInvoices, Goto, TxType, Inv, Deleted
    <3> QED
      BY <1>0, <2>2, <3>1, OnlyTx DEF Inv, Deleted
  <2> QED
    BY <2>1, <2>2
<1>5. ASSUME DeleteLetters PROVE Inv'
  <2>1. PICK B \in Batches(Past) :
          tx' = [tx EXCEPT !.letters = {d \in B : delivery[d].letter}, !.step = "deliveries"]
    BY <1>5 DEF DeleteLetters
  <2> DEFINE L == {d \in B : delivery[d].letter}
  <2>2. L \subseteq Deliveries
    BY BatchOf DEF Past
  <2> HIDE DEF L
  <2>3. tx' = [tx EXCEPT !.letters = L, !.step = "deliveries"]
    BY <2>1 DEF L
  <2>4. /\ tx' \in TxType /\ tx'.addresses = tx.addresses /\ tx'.invoices = tx.invoices
        /\ tx'.deliveries = tx.deliveries
    BY <1>0, <2>2, <2>3 DEF TxType
  <2>5. tx.step \in Late /\ tx.deliveries = {}
    BY <1>5 DEF DeleteLetters, Late, Inv, Deleted
  <2> QED
    BY <1>0, <2>4, <2>5, OnlyTx DEF Inv, Deleted
<1>6. ASSUME DeleteDeliveries PROVE Inv'
  <2>1. PICK B \in Batches(Past) :
          IF LetterLeft(B) THEN RollBack
                           ELSE tx' = [tx EXCEPT !.deliveries = B, !.step = "commit"]
    BY <1>6 DEF DeleteDeliveries
  <2>2. CASE LetterLeft(B)
    BY <1>0, <2>1, <2>2, RollBackKeeps
  <2>3. CASE /\ ~ LetterLeft(B)
             /\ tx' = [tx EXCEPT !.deliveries = B, !.step = "commit"]
    <3>1. B \subseteq Deliveries
      BY BatchOf DEF Past
    <3>2. /\ tx' \in TxType /\ tx'.addresses = tx.addresses /\ tx'.invoices = tx.invoices
          /\ tx'.deliveries = B /\ tx'.letters = tx.letters /\ tx'.step = "commit"
      BY <1>0, <2>3, <3>1 DEF TxType
    <3>3. tx.step \in Late
      BY <1>6 DEF DeleteDeliveries, Late
    <3> QED
      BY <1>0, <2>3, <3>2, <3>3, OnlyTx DEF Inv, Deleted, LetterLeft
  <2> QED
    BY <2>1, <2>2, <2>3
<1> QED
  BY <1>1, <1>2, <1>3, <1>4, <1>5, <1>6

\* What has been deleted, as it is written.
LEMMA CommitKeeps == ASSUME Inv, Commit PROVE Inv'
<1>0. /\ invoice \in [Invoices -> InvoiceType] /\ delivery \in [Deliveries -> DeliveryType]
      /\ tx \in TxType
  BY Types
<1>1. /\ found' \in Invoices \cup {None} /\ failures' \in 0 .. MaxFailures
      /\ tx' = Idle /\ tx.step \in Late
  BY DEF Commit, Inv, TypeOK, Late
<1>2. \A i \in tx.invoices : invoice[i].refs = {}
                               /\ \A d \in Deliveries : Kept(d) => delivery[d].invoice # i
  BY <1>1 DEF Inv, Deleted, Referred
<1>3. ASSUME NEW i \in Invoices
      PROVE  /\ invoice'[i] \in InvoiceType /\ invoice'[i].refs = invoice[i].refs
             /\ i \in tx.invoices => invoice'[i].status = "gone"
             /\ i \notin tx.invoices => invoice'[i].status = invoice[i].status
             /\ i \notin tx.invoices \cup tx.addresses => invoice'[i].addr = invoice[i].addr
  <2> DEFINE gone == [invoice[i] EXCEPT !.status = "gone", !.addr = FALSE]
             bare == [invoice[i] EXCEPT !.addr = FALSE]
  <2>1. /\ gone \in InvoiceType /\ gone.refs = invoice[i].refs /\ gone.status = "gone"
        /\ bare \in InvoiceType /\ bare.refs = invoice[i].refs
        /\ bare.status = invoice[i].status
    BY <1>0 DEF InvoiceType
  <2>2. CASE i \in tx.invoices
    <3>1. invoice'[i] = gone
      BY <2>2 DEF Commit
    <3> QED
      BY <2>1, <2>2, <3>1
  <2>3. CASE i \in tx.addresses \ tx.invoices
    <3>1. invoice'[i] = bare
      BY <2>3 DEF Commit
    <3> QED
      BY <2>1, <2>3, <3>1
  <2>4. CASE i \notin tx.invoices \cup tx.addresses
    <3>1. invoice'[i] = invoice[i]
      BY <2>4 DEF Commit
    <3> QED
      BY <1>0, <2>4, <3>1
  <2> QED
    BY <2>2, <2>3, <2>4
<1>4. ASSUME NEW d \in Deliveries
      PROVE  /\ delivery'[d] \in DeliveryType
             /\ Kept(d)' => Kept(d) /\ delivery'[d].invoice = delivery[d].invoice
             /\ delivery'[d].letter => Kept(d)'
  <2> DEFINE letter == delivery[d].letter /\ d \notin tx.letters
             left == [delivery[d] EXCEPT !.letter = letter]
             gone == [NoDelivery EXCEPT !.age = "gone", !.letter = letter]
  <2>0. letter \in BOOLEAN /\ (letter => Kept(d))
    BY <1>0 DEF DeliveryType, Inv, NothingDangles
  <2>1. CASE d \in tx.deliveries
    <3>1. letter = FALSE
      BY <2>1 DEF Inv, Deleted
    <3>2. delivery'[d] = gone
      BY <2>1 DEF Commit, NoDelivery
    <3> HIDE DEF letter
    <3>3. gone \in DeliveryType /\ gone.age = "gone" /\ gone.letter = letter
      BY <2>0 DEF NoDelivery, DeliveryType
    <3> QED
      BY <3>1, <3>2, <3>3 DEF Kept
  <2>2. CASE d \notin tx.deliveries
    <3>1. delivery'[d] = left
      BY <2>2 DEF Commit
    <3> HIDE DEF letter
    <3>2. /\ left \in DeliveryType /\ left.age = delivery[d].age /\ left.letter = letter
          /\ left.invoice = delivery[d].invoice
      BY <1>0, <2>0 DEF DeliveryType
    <3> QED
      BY <2>0, <3>1, <3>2 DEF Kept
  <2> QED
    BY <2>1, <2>2
<1>5. TypeOK'
  <2>1. invoice' \in [Invoices -> InvoiceType]
    BY <1>3 DEF Commit
  <2>2. delivery' \in [Deliveries -> DeliveryType]
    BY <1>4 DEF Commit
  <2> QED
    BY <1>1, <2>1, <2>2, IdleTyped, TypesAgain
<1>6. Deleted'
  BY <1>1, IdleTyped DEF Deleted, Late
<1>7. NothingDangles'
  <2>1. ASSUME NEW i \in Invoices, invoice'[i].status = "gone"
        PROVE  /\ invoice'[i].refs = {}
               /\ \A d \in Deliveries : Kept(d)' => delivery'[d].invoice # i
    <3>1. /\ invoice[i].refs = {}
          /\ \A d \in Deliveries : Kept(d) => delivery[d].invoice # i
      BY <1>2, <1>3, <2>1 DEF Inv, NothingDangles
    <3> QED
      BY <1>3, <1>4, <3>1
  <2> QED
    BY <1>4, <2>1 DEF NothingDangles
<1>8. OpenHasAddress'
  <2>1. \A i \in tx.addresses : /\ invoice[i].status = "ended"
                                /\ invoice[i].refs \subseteq {"payments"}
    BY DEF Inv, Deleted
  <2> QED
    BY <1>3, <2>1 DEF Inv, OpenHasAddress, Row
<1> QED
  BY <1>5, <1>6, <1>7, <1>8 DEF Inv

LEMMA FailKeeps == ASSUME Inv, Fail PROVE Inv'
<1>1. /\ invoice' = invoice /\ delivery' = delivery /\ found' \in Invoices \cup {None}
      /\ RollBack
  BY DEF Fail, Inv, TypeOK
<1>2. failures' \in 0 .. MaxFailures
  BY RetentionAssumption DEF Fail, Inv, TypeOK
<1> QED
  BY <1>1, <1>2, RollBackKeeps

LEMMA Stutters == ASSUME Inv, UNCHANGED vars PROVE Inv'
BY DEF vars, Inv, TypeOK, Deleted, NothingDangles, OpenHasAddress, Referred, Kept, Row

LEMMA Keeps == Inv /\ [Next]_vars => Inv'
<1> SUFFICES ASSUME Inv, [Next]_vars PROVE Inv'
  OBVIOUS
<1>1. ASSUME NEW i \in Invoices,
             \/ \E p \in Purposes : create_invoice(i, p)
             \/ EndInvoice(i) \/ ClearPrepay(i) \/ InvoiceAges(i)
             \/ find_invoice_by_subaddress_index(i)
      PROVE  Inv'
  BY <1>1, CreateKeeps, EndKeeps, ClearKeeps, AgeKeeps, FindKeeps
<1>2. ASSUME NEW d \in Deliveries, MoveToDlq(d) \/ DeliveryAges(d) PROVE Inv'
  BY <1>2, LetterKeeps, DeliveryAgesKeeps
<1>3. CASE Clean
  BY <1>3, CleanerKeeps, CommitKeeps DEF Clean
<1>4. CASE RecordPayment \/ Fail \/ UNCHANGED vars
  BY <1>4, PaymentKeeps, FailKeeps, Stutters
<1> QED
  BY <1>1, <1>2, <1>3, <1>4 DEF Next

-----------------------------------------------------------------------------

\* In every reachable state the rows have their types, the cleaner's
\* transaction has deleted only rows that are over and that nobody can come to
\* refer to, nothing dangles, and what can be paid has its address
\* (data_retention.py:51-196).
THEOREM Inductive == Spec => []Inv
<1>1. Init => Inv
  BY Starts
<1>2. Inv /\ [Next]_vars => Inv'
  BY Keeps
<1> QED
  BY <1>1, <1>2, PTL DEF Spec

\* Nothing refers to an invoice that was deleted, and no dead letter to a
\* delivery that was, whatever is recorded, queued or fails between two
\* statements of the cleaner (data_retention.py:39, 51-196).
THEOREM DeletedIsUnreferred == Spec => []NothingDangles
<1>1. Inv => NothingDangles
  BY DEF Inv
<1> QED
  BY <1>1, Inductive, PTL

\* An open invoice, and one that a subscription refers to, keeps the address
\* by which the engine finds it (data_retention.py:69-98).
THEOREM OpenKeepsAddress == Spec => []OpenHasAddress
<1>1. Inv => OpenHasAddress
  BY DEF Inv
<1> QED
  BY <1>1, Inductive, PTL

-----------------------------------------------------------------------------
(* Schemas, and how they fit a version. *)

\* The objects there are.
Unlisted == {"past_due", "dead_lettered", "trialing", RetryColumn}
Provided == UNION {Provides[r] : r \in 1 .. LastRevision}
Objects == Provided \cup Unlisted
Schemas == [has : SUBSET Objects, fk : [ForeignKeys -> Policy], idx : [IndexNames -> Index]]

\* The revision that a foreign key comes with, and its policy at a version.
KeyRevision(f) == CASE f \in FirstKeys -> 1
                    [] f = "subscription_renewal_events.invoice_id" -> 6
                    [] f = "subscriptions.prepay_invoice_id" -> 8
                    [] OTHER -> 5
PolicyAt(f, v) == IF KeyRevision(f) > v THEN "absent"
                  ELSE IF v >= 14 THEN FK_CHANGES[f] ELSE "NO ACTION"

\* A schema is that of a version, but for enum values, indexes and what a
\* revision commits ahead of its stamp.
Fits(s, v) ==
  /\ \A r \in 1 .. LastRevision : \A x \in Provides[r] : x \in s.has <=> r <= v
  /\ \A f \in DOMAIN FK_CHANGES : s.fk[f] = PolicyAt(f, v)
  /\ v = 0 => s = NoSchema
  /\ v = 15 => RetryColumn \in s.has
  /\ Present(s, PaymentIndex) => s.idx[PaymentIndex].unique

\* What a statement can be.
Others == IndexNames \ {PaymentIndex}
WellFormed(st) ==
  \/ /\ st.op \in {"create", "drop"}
     /\ st.names \subseteq Objects /\ st.keys \subseteq ForeignKeys /\ st.indexes \subseteq Others
  \/ st.op = "ensure" /\ st.names \subseteq Objects
  \/ st.op \in {"wipe", "commit", "replacekeys", "restorekeys"}
  \/ /\ st.op = "build" /\ st.index \in IndexNames /\ st.unique \in BOOLEAN
     /\ st.index = PaymentIndex => st.unique
  \/ st.op = "dropindex" /\ st.index \in Others
  \/ st.op = "rename" /\ st.from \in Others /\ st.to \in Others
  \/ st.op = "useindex" /\ st.index \in IndexNames /\ st.constraint \in Objects

LEMMA Revisions == LastRevision = 15 /\ DOMAIN FK_CHANGES \subseteq ForeignKeys
BY DEF LastRevision, Upgrade, ForeignKeys

LEMMA PolicyTyped == \A f \in DOMAIN FK_CHANGES : FK_CHANGES[f] \in Policy
BY DEF FK_CHANGES, Policy

LEMMA EffectTyped ==
  ASSUME NEW s \in Schemas, NEW st, WellFormed(st)
  PROVE  /\ Effect(st, s) \in Schemas
         /\ \/ Effect(st, s).idx[PaymentIndex] = s.idx[PaymentIndex]
            \/ Effect(st, s).idx[PaymentIndex] = NoIndex
<1> USE DEF Schemas
<1>0. /\ NoIndex \in Index /\ [state |-> "valid", unique |-> FALSE] \in Index
      /\ PaymentIndex \in IndexNames
  BY DEF NoIndex, Index, IndexState, IndexNames
<1>1. \A f : DefaultPolicy(f) \in Policy
  BY DEF DefaultPolicy, Policy
<1>2. CASE st.op = "create"
  <2> DEFINE e == [has |-> s.has \cup st.names, fk |-> Keyed(s, st.keys, DefaultPolicy),
                   idx |-> With(s, st.indexes, [state |-> "valid", unique |-> FALSE])]
  <2>1. Effect(st, s) = e
    BY <1>2 DEF Effect
  <2>2. e.has \in SUBSET Objects
    BY <1>2 DEF WellFormed
  <2>3. e.fk \in [ForeignKeys -> Policy]
    BY <1>1 DEF Keyed
  <2>4. e.idx \in [IndexNames -> Index]
    BY <1>0 DEF With
  <2>5. e.idx[PaymentIndex] = s.idx[PaymentIndex]
    BY <1>0, <1>2 DEF With, WellFormed, Others
  <2> QED
    BY <2>1, <2>2, <2>3, <2>4, <2>5
<1>3. CASE st.op = "drop"
  <2> DEFINE e == [has |-> s.has \ (st.names \cup Columns(st.names)),
                   fk |-> Keyed(s, st.keys, LAMBDA f : "absent"),
                   idx |-> With(s, st.indexes, NoIndex)]
  <2>1. Effect(st, s) = e
    BY <1>3 DEF Effect
  <2>2. e.has \in SUBSET Objects
    OBVIOUS
  <2>3. e.fk \in [ForeignKeys -> Policy]
    BY DEF Keyed, Policy
  <2>4. e.idx \in [IndexNames -> Index]
    BY <1>0 DEF With
  <2>5. e.idx[PaymentIndex] = s.idx[PaymentIndex]
    BY <1>0, <1>3 DEF With, WellFormed, Others
  <2> QED
    BY <2>1, <2>2, <2>3, <2>4, <2>5
<1>4. CASE st.op = "ensure"
  BY <1>0, <1>4 DEF Effect, WellFormed
<1>5. CASE st.op \in {"commit", "build"}
  BY <1>5 DEF Effect
<1>6. CASE st.op = "wipe"
  BY <1>0, <1>6 DEF Effect, NoSchema, Policy
<1>7. CASE st.op = "replacekeys"
  <2> DEFINE e == [s EXCEPT !.fk = Keyed(s, DOMAIN FK_CHANGES, LAMBDA f : FK_CHANGES[f])]
  <2>1. Effect(st, s) = e
    BY <1>7 DEF Effect
  <2>2. e.fk \in [ForeignKeys -> Policy]
    BY PolicyTyped DEF Keyed
  <2> QED
    BY <2>1, <2>2
<1>8. CASE st.op = "restorekeys"
  <2> DEFINE e == [s EXCEPT !.fk = Keyed(s, DOMAIN FK_CHANGES, DefaultPolicy)]
  <2>1. Effect(st, s) = e
    BY <1>8 DEF Effect
  <2>2. e.fk \in [ForeignKeys -> Policy]
    BY <1>1 DEF Keyed
  <2> QED
    BY <2>1, <2>2
<1>9. CASE st.op = "dropindex"
  <2>1. Effect(st, s) = [s EXCEPT !.idx[st.index] = NoIndex] /\ st.index \in Others
    BY <1>9 DEF Effect, WellFormed
  <2> QED
    BY <1>0, <2>1 DEF Others
<1>10. CASE st.op = "rename"
  <2> DEFINE i == [s.idx EXCEPT ![st.to] = s.idx[st.from]]
             e == [has |-> s.has, fk |-> s.fk, idx |-> [i EXCEPT ![st.from] = NoIndex]]
  <2>1. st.from \in Others /\ st.to \in Others
    BY <1>10 DEF WellFormed
  <2>2. Effect(st, s) = [s EXCEPT !.idx[st.to] = s.idx[st.from], !.idx[st.from] = NoIndex]
    BY <1>10 DEF Effect
  <2>3. i \in [IndexNames -> Index] /\ i[PaymentIndex] = s.idx[PaymentIndex]
    BY <1>0, <2>1 DEF Others
  <2>4. Effect(st, s) = e
    BY <2>2
  <2> HIDE DEF i
  <2> QED
    BY <1>0, <2>1, <2>3, <2>4 DEF Others
<1>11. CASE st.op = "useindex"
  <2> DEFINE h == s.has \cup {st.constraint}
             e == [has |-> h, fk |-> s.fk, idx |-> [s.idx EXCEPT ![st.index] = NoIndex]]
  <2>1. st.index \in IndexNames /\ h \in SUBSET Objects
    BY <1>11 DEF WellFormed
  <2>2. Effect(st, s) = [s EXCEPT !.has = @ \cup {st.constraint}, !.idx[st.index] = NoIndex]
    BY <1>11 DEF Effect
  <2>3. Effect(st, s) = e
    BY <2>2
  <2> HIDE DEF h
  <2> QED
    BY <1>0, <2>1, <2>3
<1> QED
  BY <1>2, <1>3, <1>4, <1>5, <1>6, <1>7, <1>8, <1>9, <1>10, <1>11 DEF WellFormed

-----------------------------------------------------------------------------
(* Statements that bring a revision's objects, and statements that take them. *)

\* What a statement lists is what the revision provides, its keys and more.
Lists(st, r) ==
  /\ st.names \subseteq Objects /\ st.keys \subseteq ForeignKeys
  /\ \A q \in 1 .. LastRevision : \A x \in Provides[q] : x \in st.names <=> q = r
  /\ \A f \in DOMAIN FK_CHANGES : f \in st.keys <=> KeyRevision(f) = r
Creates(st, r) == st.op = "create" /\ st.indexes = {} /\ Lists(st, r)
Drops(st, r) == st.op = "drop" /\ st.indexes \subseteq Others /\ Lists(st, r)
\* It lists nothing more.
ListsOnly(st, r) == st.names \subseteq Provides[r] /\ st.keys \subseteq DOMAIN FK_CHANGES

LEMMA CreatesEffect ==
  ASSUME NEW s \in Schemas, NEW st, NEW r, Creates(st, r)
  PROVE  /\ WellFormed(st)
         /\ Effect(st, s).has = s.has \cup st.names
         /\ \A f \in DOMAIN FK_CHANGES :
              Effect(st, s).fk[f] = IF f \in st.keys THEN "NO ACTION" ELSE s.fk[f]
         /\ Effect(st, s).idx = s.idx
<1>1. WellFormed(st)
  BY DEF Creates, Lists, WellFormed
<1> DEFINE k == [f \in ForeignKeys |-> IF f \in st.keys THEN DefaultPolicy(f) ELSE s.fk[f]]
           i == [n \in IndexNames |-> IF n \in {} THEN [state |-> "valid", unique |-> FALSE]
                                                ELSE s.idx[n]]
<1>2. Effect(st, s) = [has |-> s.has \cup st.names, fk |-> k, idx |-> i]
  BY DEF Effect, Creates, Keyed, With
<1>3. i = s.idx
  BY DEF Schemas
<1>4. \A f \in DOMAIN FK_CHANGES : f \in ForeignKeys /\ DefaultPolicy(f) = "NO ACTION"
  BY DEF DefaultPolicy, ForeignKeys, FK_CHANGES, RetryKey, RetryColumn, FirstKeys, LaterKeys
<1>5. \A f \in DOMAIN FK_CHANGES : k[f] = IF f \in st.keys THEN "NO ACTION" ELSE s.fk[f]
  BY <1>4
<1> HIDE DEF k, i
<1>6. /\ Effect(st, s).has = s.has \cup st.names /\ Effect(st, s).fk = k
      /\ Effect(st, s).idx = i
  BY <1>2
<1> QED
  BY <1>1, <1>3, <1>5, <1>6

LEMMA KeyRevisions ==
  ASSUME NEW f \in DOMAIN FK_CHANGES
  PROVE  /\ KeyRevision(f) \in Nat /\ KeyRevision(f) > 0 /\ KeyRevision(f) < 9
         /\ KeyRevision(f) \in {1, 5, 6, 8}
BY DEF KeyRevision

\* The policies of a version and of the one before it.
LEMMA Policies ==
  ASSUME NEW f \in DOMAIN FK_CHANGES, NEW r \in 2 .. 15, r # 14
  PROVE  /\ PolicyAt(f, r - 1) = IF KeyRevision(f) = r THEN "absent" ELSE PolicyAt(f, r)
         /\ KeyRevision(f) = r => PolicyAt(f, r) = "NO ACTION"
<1>1. PICK n \in Nat : n = KeyRevision(f) /\ n < 9
  BY KeyRevisions
<1>2. /\ n > r - 1 <=> (n > r \/ n = r)
      /\ r - 1 >= 14 <=> r >= 14
      /\ n = r => ~ r >= 14 /\ ~ n > r
  BY <1>1
<1> QED
  BY <1>1, <1>2 DEF PolicyAt

LEMMA CreateFits ==
  ASSUME NEW s \in Schemas, NEW r \in 2 .. 13, NEW st, Creates(st, r), Fits(s, r - 1)
  PROVE  Fits(Effect(st, s), r)
<1> DEFINE e == Effect(st, s)
<1>0. /\ e.has = s.has \cup st.names /\ e.idx = s.idx
      /\ \A f \in DOMAIN FK_CHANGES : e.fk[f] = IF f \in st.keys THEN "NO ACTION" ELSE s.fk[f]
  BY CreatesEffect
<1> HIDE DEF e
<1>1. ASSUME NEW q \in 1 .. LastRevision, NEW x \in Provides[q] PROVE x \in e.has <=> q <= r
  <2>1. x \in s.has <=> q <= r - 1
    BY DEF Fits
  <2>2. x \in st.names <=> q = r
    BY DEF Creates, Lists
  <2>3. q <= r <=> (q <= r - 1 \/ q = r)
    BY Revisions
  <2> QED
    BY <1>0, <2>1, <2>2, <2>3
<1>2. ASSUME NEW f \in DOMAIN FK_CHANGES PROVE e.fk[f] = PolicyAt(f, r)
  <2>1. s.fk[f] = PolicyAt(f, r - 1)
    BY DEF Fits
  <2>2. f \in st.keys <=> KeyRevision(f) = r
    BY DEF Creates, Lists
  <2> QED
    <3>0. r \in 2 .. 15 /\ r # 14
      OBVIOUS
    <3>1. PolicyAt(f, r - 1) = IF KeyRevision(f) = r THEN "absent" ELSE PolicyAt(f, r)
      BY <3>0, Policies
    <3>2. KeyRevision(f) = r => PolicyAt(f, r) = "NO ACTION"
      BY <3>0, Policies
    <3> QED
      BY <1>0, <2>1, <2>2, <3>1, <3>2
<1>3. Present(e, PaymentIndex) => e.idx[PaymentIndex].unique
  BY <1>0 DEF Fits, Present
<1> QED
  BY <1>1, <1>2, <1>3 DEF Fits, e

\* A column that no revision provides may come ahead of its stamp.
LEMMA CreateAhead ==
  ASSUME NEW s \in Schemas, NEW st, Creates(st, 15), Fits(s, 14)
  PROVE  Fits(Effect(st, s), 14)
<1> DEFINE e == Effect(st, s)
<1>0. /\ e.has = s.has \cup st.names /\ e.idx = s.idx
      /\ \A f \in DOMAIN FK_CHANGES : e.fk[f] = IF f \in st.keys THEN "NO ACTION" ELSE s.fk[f]
  BY CreatesEffect
<1> HIDE DEF e
<1>1. Provides[15] = {}
  BY DEF Provides
<1>2. ASSUME NEW q \in 1 .. LastRevision, NEW x \in Provides[q] PROVE x \in e.has <=> q <= 14
  BY <1>0, <1>1 DEF Fits, Creates, Lists
<1>3. ASSUME NEW f \in DOMAIN FK_CHANGES PROVE e.fk[f] = PolicyAt(f, 14)
  <2>1. f \notin st.keys
    BY KeyRevisions DEF Creates, Lists
  <2> QED
    BY <1>0, <2>1 DEF Fits
<1>4. Present(e, PaymentIndex) => e.idx[PaymentIndex].unique
  BY <1>0 DEF Fits, Present
<1> QED
  BY <1>2, <1>3, <1>4 DEF Fits, e

LEMMA CreateAccepted ==
  ASSUME NEW s \in Schemas, NEW r \in 2 .. 13, NEW st, Creates(st, r), ListsOnly(st, r),
         Fits(s, r - 1)
  PROVE  ~ Refused(st, s)
<1>1. r \in 1 .. LastRevision /\ ~ r <= r - 1
  BY Revisions
<1>2. st.names \cap s.has = {}
  BY <1>1 DEF ListsOnly, Fits
<1>3. ASSUME NEW f \in st.keys PROVE s.fk[f] = "absent"
  <2>1. f \in DOMAIN FK_CHANGES /\ KeyRevision(f) = r
    BY DEF ListsOnly, Creates, Lists
  <2>2. r \in 2 .. 15 /\ r # 14
    OBVIOUS
  <2>3. PolicyAt(f, r - 1) = "absent"
    BY <2>1, <2>2, Policies
  <2> QED
    BY <2>1, <2>3 DEF Fits
<1> QED
  BY <1>2, <1>3 DEF Refused, Creates

LEMMA DropFits ==
  ASSUME NEW s \in Schemas, NEW r \in 2 .. 15, r # 14, NEW st, Drops(st, r), Fits(s, r)
  PROVE  WellFormed(st) /\ Fits(Effect(st, s), r - 1)
<1> DEFINE e == Effect(st, s)
<1>0. WellFormed(st)
  BY DEF Drops, Lists, WellFormed
<1>1. e = [has |-> s.has \ (st.names \cup Columns(st.names)),
           fk |-> [f \in ForeignKeys |-> IF f \in st.keys THEN "absent" ELSE s.fk[f]],
           idx |-> [n \in IndexNames |-> IF n \in st.indexes THEN NoIndex ELSE s.idx[n]]]
  BY DEF Effect, Drops, Keyed, With
<1>5. PaymentIndex \in IndexNames /\ PaymentIndex \notin st.indexes
  BY DEF IndexNames, Drops, Others
<1>6. e.idx[PaymentIndex] = s.idx[PaymentIndex]
  BY <1>1, <1>5
<1> HIDE DEF e
<1>2. ASSUME NEW q \in 1 .. LastRevision, NEW x \in Provides[q]
      PROVE  x \in e.has <=> q <= r - 1
  <2>1. x \in s.has <=> q <= r
    BY DEF Fits
  <2>2. x \in st.names <=> q = r
    BY DEF Drops, Lists
  <2>3. q <= r - 1 <=> (q <= r /\ q # r)
    BY Revisions
  <2>4. x \notin Columns(st.names)
    BY Revisions DEF Columns, RetryColumn, Provides, Enums, CoreTables, OtherTables,
         PeriodConstraint, PaymentConstraint, CheckConstraints
  <2> QED
    BY <1>1, <2>1, <2>2, <2>3, <2>4
<1>3. ASSUME NEW f \in DOMAIN FK_CHANGES PROVE e.fk[f] = PolicyAt(f, r - 1)
  <2>1. s.fk[f] = PolicyAt(f, r)
    BY DEF Fits
  <2>2. f \in st.keys <=> KeyRevision(f) = r
    BY DEF Drops, Lists
  <2>3. e.fk[f] = IF f \in st.keys THEN "absent" ELSE s.fk[f]
    BY <1>1, Revisions
  <2> QED
    BY <2>1, <2>2, <2>3, Policies
<1>4. Present(e, PaymentIndex) => e.idx[PaymentIndex].unique
  BY <1>6 DEF Fits, Present
<1> QED
  BY <1>0, <1>2, <1>3, <1>4 DEF Fits, e

LEMMA DropAccepted ==
  ASSUME NEW s \in Schemas, NEW r \in 2 .. 15, NEW st, Drops(st, r),
         st.names \subseteq Provides[r] \/ (r = 15 /\ st.names = {RetryColumn}), Fits(s, r)
  PROVE  ~ Refused(st, s)
<1>1. r \in 1 .. LastRevision /\ r <= r
  BY Revisions
<1>2. st.names \subseteq s.has
  BY <1>1 DEF Fits
<1> QED
  BY <1>2 DEF Refused, Drops

\* A revision that neither provides anything nor changes a key.
LEMMA NothingFits ==
  ASSUME NEW s \in Schemas, NEW r \in {2, 11, 12, 15}
  PROVE  /\ Fits(s, r - 1) /\ (r = 15 => RetryColumn \in s.has) => Fits(s, r)
         /\ Fits(s, r) => Fits(s, r - 1)
<1>1. Provides[r] = {}
  BY DEF Provides
<1>2. \A q \in 1 .. LastRevision : q # r => (q <= r <=> q <= r - 1)
  BY Revisions
<1>3. ASSUME NEW f \in DOMAIN FK_CHANGES PROVE PolicyAt(f, r) = PolicyAt(f, r - 1)
  <2>1. KeyRevision(f) # r
    BY KeyRevisions
  <2>2. r \in 2 .. 15 /\ r # 14
    OBVIOUS
  <2> QED
    BY <2>1, <2>2, Policies
<1> QED
  BY <1>1, <1>2, <1>3 DEF Fits

-----------------------------------------------------------------------------
(* The programs. *)

\* Others see what was done up to such a statement.
Seen(st) == st.op \in {"commit", "build", "dropindex"}

Refusals == {<<"up", 3>>, <<"up", 5>>, <<"up", 10>>, <<"up", 11>>, <<"up", 13>>, <<"up", 15>>,
             <<"down", 11>>}

\* It adds nothing that rows can contradict.
Bare(st) == st.op = "create" => st.names \cap Rules = {}
Before(d, r) == IF d = "up" THEN r - 1 ELSE r
After(d, r) == IF d = "up" THEN r ELSE r - 1

\* What comes before a statement, or before the end; a transaction begins as one
\* that has just committed.
Last(p, k) == IF k = 1 THEN COMMIT ELSE p[k - 1]

\* No two statements in a row wait for a commit; what is committed fits the
\* version there was; nothing else is refused than what the revisions say.
StatementFits(q, st, d, r) ==
  /\ WellFormed(st)
  /\ Seen(st) \/ Seen(q)
  /\ st.op \in {"build", "dropindex"} => Seen(q) /\ Before(d, r) > 0
  /\ st.op = "commit" /\ ~ Seen(q) =>
       \A s \in Schemas : Fits(s, Before(d, r)) => Fits(Effect(q, s), Before(d, r))
  /\ <<d, r>> \in Refusals
       \/ /\ \A s \in Schemas : Fits(s, Before(d, r)) => ~ Refused(st, s)
          /\ st.op = "build" => ~ st.unique
          /\ Bare(st)

\* What the last transaction leaves fits the version it writes.
EndFits(q, d, r) ==
  IF Seen(q)
    THEN \A s \in Schemas : /\ Fits(s, Before(d, r))
                            /\ d = "up" /\ r = 15 => RetryColumn \in s.has
                            => Fits(s, After(d, r))
    ELSE \A s \in Schemas : Fits(s, Before(d, r)) /\ ~ Refused(q, s)
                            => Fits(Effect(q, s), After(d, r))

Shape(p, d, r) ==
  /\ Len(p) \in Nat
  /\ \A k \in 1 .. Len(p) : StatementFits(Last(p, k), p[k], d, r)
  /\ EndFits(Last(p, Len(p) + 1), d, r)

LEMMA ShapeOfNone == ASSUME NEW d, NEW r, EndFits(COMMIT, d, r) PROVE Shape(<< >>, d, r)
BY DEF Shape, Last

LEMMA ShapeOfOne ==
  ASSUME NEW d, NEW r, NEW a, StatementFits(COMMIT, a, d, r), EndFits(a, d, r)
  PROVE  Shape(<<a>>, d, r)
<1> DEFINE p == <<a>>
<1>1. Len(p) = 1 /\ p[1] = a
  OBVIOUS
<1> HIDE DEF p
<1>2. Last(p, 1) = COMMIT /\ Last(p, 2) = a
  BY <1>1 DEF Last
<1>3. \A k \in 1 .. 1 : k = 1
  OBVIOUS
<1>4. Shape(p, d, r)
  BY <1>1, <1>2, <1>3 DEF Shape
<1> QED
  BY <1>4 DEF p

LEMMA ShapeOfThree ==
  ASSUME NEW d, NEW r, NEW a, NEW b, NEW c, StatementFits(COMMIT, a, d, r),
         StatementFits(a, b, d, r), StatementFits(b, c, d, r), EndFits(c, d, r)
  PROVE  Shape(<<a, b, c>>, d, r)
<1> DEFINE p == <<a, b, c>>
<1>1. Len(p) = 3 /\ p[1] = a /\ p[2] = b /\ p[3] = c
  OBVIOUS
<1> HIDE DEF p
<1>2. Last(p, 1) = COMMIT /\ Last(p, 2) = a /\ Last(p, 3) = b /\ Last(p, 4) = c
  BY <1>1 DEF Last
<1>3. \A k \in 1 .. 3 : k = 1 \/ k = 2 \/ k = 3
  OBVIOUS
<1>4. Shape(p, d, r)
  BY <1>1, <1>2, <1>3 DEF Shape
<1> QED
  BY <1>4 DEF p

LEMMA ShapeOfFour ==
  ASSUME NEW d, NEW r, NEW a, NEW b, NEW c, NEW e, StatementFits(COMMIT, a, d, r),
         StatementFits(a, b, d, r), StatementFits(b, c, d, r), StatementFits(c, e, d, r),
         EndFits(e, d, r)
  PROVE  Shape(<<a, b, c, e>>, d, r)
<1> DEFINE p == <<a, b, c, e>>
<1>1. Len(p) = 4 /\ p[1] = a /\ p[2] = b /\ p[3] = c /\ p[4] = e
  OBVIOUS
<1> HIDE DEF p
<1>2. /\ Last(p, 1) = COMMIT /\ Last(p, 2) = a /\ Last(p, 3) = b /\ Last(p, 4) = c
      /\ Last(p, 5) = e
  BY <1>1 DEF Last
<1>3. \A k \in 1 .. 4 : k = 1 \/ k = 2 \/ k = 3 \/ k = 4
  OBVIOUS
<1>4. Shape(p, d, r)
  BY <1>1, <1>2, <1>3 DEF Shape
<1> QED
  BY <1>4 DEF p

LEMMA OneStatement ==
  ASSUME NEW st, NEW d, NEW r, WellFormed(st), ~ Seen(st),
         <<d, r>> \in Refusals
           \/ (Bare(st) /\ \A s \in Schemas : Fits(s, Before(d, r)) => ~ Refused(st, s)),
         \A s \in Schemas : Fits(s, Before(d, r)) /\ ~ Refused(st, s)
                            => Fits(Effect(st, s), After(d, r))
  PROVE  StatementFits(COMMIT, st, d, r) /\ EndFits(st, d, r) /\ Shape(<<st>>, d, r)
<1>1. Seen(COMMIT)
  BY DEF Seen, COMMIT
<1>2. StatementFits(COMMIT, st, d, r)
  BY <1>1 DEF StatementFits, Seen
<1>3. EndFits(st, d, r)
  BY DEF EndFits
<1> QED
  BY <1>2, <1>3, ShapeOfOne

\* Three revisions add by a statement what rows can contradict.
LEMMA ProvidedBare ==
  ASSUME NEW r \in 2 .. 13, r \notin {3, 10, 13}
  PROVE  Provides[r] \cap Rules = {}
<1>1. ASSUME NEW q \in {2, 4, 5, 6, 7, 8, 9, 11, 12} PROVE Provides[q] \cap Rules = {}
  BY DEF Provides, Rules, PeriodConstraint, PaymentConstraint, NewAddressIndex, CheckConstraints
<1>2. r \in {2, 4, 5, 6, 7, 8, 9, 11, 12}
  OBVIOUS
<1> QED
  BY <1>1, <1>2

LEMMA CreatesShape ==
  ASSUME NEW r \in 2 .. 13, NEW st, Creates(st, r), ListsOnly(st, r) \/ r = 5
  PROVE  StatementFits(COMMIT, st, "up", r) /\ EndFits(st, "up", r) /\ Shape(<<st>>, "up", r)
<1>1. WellFormed(st) /\ ~ Seen(st)
  BY DEF Creates, Lists, WellFormed, Seen
<1>2. Before("up", r) = r - 1 /\ After("up", r) = r
  BY DEF Before, After
<1>3. ASSUME r # 5 PROVE \A s \in Schemas : Fits(s, r - 1) => ~ Refused(st, s)
  BY <1>3, CreateAccepted
<1>4. r \in {3, 5, 10, 13} => <<"up", r>> \in Refusals
  BY DEF Refusals
<1>6. ASSUME r \notin {3, 5, 10, 13} PROVE Bare(st)
  BY <1>6, ProvidedBare DEF Bare, ListsOnly
<1>7. <<"up", r>> \in Refusals
        \/ (Bare(st) /\ \A s \in Schemas : Fits(s, Before("up", r)) => ~ Refused(st, s))
  <2>1. CASE r \in {3, 5, 10, 13}
    BY <1>4, <2>1
  <2>2. CASE r \notin {3, 5, 10, 13}
    BY <1>2, <1>3, <1>6, <2>2
  <2> QED
    BY <2>1, <2>2
<1>5. \A s \in Schemas : Fits(s, r - 1) => Fits(Effect(st, s), r)
  BY CreateFits
<1> QED
  BY <1>1, <1>2, <1>5, <1>7, OneStatement

LEMMA DropsShape ==
  ASSUME NEW r \in 2 .. 13, NEW st, Drops(st, r), st.names \subseteq Provides[r]
  PROVE  Shape(<<st>>, "down", r)
<1>1. WellFormed(st) /\ ~ Seen(st)
  BY DEF Drops, Lists, WellFormed, Seen
<1>2. Before("down", r) = r /\ After("down", r) = r - 1
  BY DEF Before, After
<1>3. r \in 2 .. 15 /\ r # 14
  OBVIOUS
<1>4. \A s \in Schemas : Fits(s, r) => ~ Refused(st, s)
  BY <1>3, DropAccepted
<1>5. \A s \in Schemas : Fits(s, r) => Fits(Effect(st, s), r - 1)
  BY <1>3, DropFits
<1>6. Bare(st)
  BY DEF Bare, Drops
<1> QED
  BY <1>1, <1>2, <1>4, <1>5, <1>6, OneStatement

\* Only one revision provides an object.
Alone(r) == \A q \in 1 .. LastRevision : \A x \in Provides[q] : x \in Provides[r] <=> q = r

LEMMA ProvidedOnce == \A r \in 3 .. 13 : Alone(r)
<1> USE Revisions DEF Alone, Provides, Enums, CoreTables, OtherTables, PeriodConstraint,
                      PaymentConstraint, CheckConstraints
<1>3. Alone(3)
  OBVIOUS
<1>4. Alone(4)
  OBVIOUS
<1>5. Alone(5)
  OBVIOUS
<1>6. Alone(6)
  OBVIOUS
<1>7. Alone(7)
  OBVIOUS
<1>8. Alone(8)
  OBVIOUS
<1>9. Alone(9)
  OBVIOUS
<1>10. Alone(10)
  OBVIOUS
<1>11. Alone(11)
  OBVIOUS
<1>12. Alone(12)
  OBVIOUS
<1>13. Alone(13)
  OBVIOUS
<1> HIDE DEF Alone
<1> QED
  BY <1>3, <1>4, <1>5, <1>6, <1>7, <1>8, <1>9, <1>10, <1>11, <1>12, <1>13

\* The keys a revision comes with.
KeysOf(r) == {f \in DOMAIN FK_CHANGES : KeyRevision(f) = r}

LEMMA KeysAre ==
  /\ KeysOf(5) = {"webhook_dead_letters.merchant_id", "webhook_dead_letters.delivery_id"}
  /\ KeysOf(6) = {"subscription_renewal_events.invoice_id"}
  /\ KeysOf(8) = {"subscriptions.prepay_invoice_id"}
  /\ \A r \in {3, 4, 7, 9, 10, 13, 15} : KeysOf(r) = {}
<1> USE DEF KeysOf, KeyRevision, FK_CHANGES, FirstKeys, LaterKeys
<1>1. KeysOf(5) = {"webhook_dead_letters.merchant_id", "webhook_dead_letters.delivery_id"}
  OBVIOUS
<1>2. KeysOf(6) = {"subscription_renewal_events.invoice_id"}
  OBVIOUS
<1>3. KeysOf(8) = {"subscriptions.prepay_invoice_id"}
  OBVIOUS
<1>4. \A r \in {3, 4, 7, 9, 10, 13, 15} : KeysOf(r) = {}
  OBVIOUS
<1> QED
  BY <1>1, <1>2, <1>3, <1>4

LEMMA Listed ==
  ASSUME NEW r \in 3 .. 13, NEW st, NEW more \in SUBSET Objects,
         st.names = Provides[r] \cup more,
         \A q \in 1 .. LastRevision : Provides[q] \cap more = {},
         st.keys = KeysOf(r) \/ st.keys = KeysOf(r) \cup {RetryKey}
  PROVE  Lists(st, r)
<1>1. KeysOf(r) \subseteq ForeignKeys /\ RetryKey \in ForeignKeys /\ RetryKey \notin DOMAIN FK_CHANGES
  BY Revisions DEF KeysOf, ForeignKeys, FK_CHANGES, RetryKey, RetryColumn, FirstKeys, LaterKeys
<1>2. \A q \in 1 .. LastRevision : \A x \in Provides[q] : x \in st.names <=> q = r
  BY ProvidedOnce DEF Alone
<1>3. \A f \in DOMAIN FK_CHANGES : f \in st.keys <=> KeyRevision(f) = r
  BY <1>1 DEF KeysOf
<1>4. Provides[r] \subseteq Objects
  BY Revisions DEF Objects, Provided
<1> QED
  BY <1>1, <1>2, <1>3, <1>4 DEF Lists

\* The revisions that consist of one statement.
LEMMA PlainUp ==
  /\ Shape(phase5a_step2, "up", 3) /\ Shape(phase6a, "up", 4) /\ Shape(phase6b, "up", 5)
  /\ Shape(phase6c, "up", 6) /\ Shape(phase8b, "up", 8)
  /\ Shape(license_system, "up", 9) /\ Shape(w1_04a, "up", 13)
  /\ Creates(phase8a[4], 7) /\ ListsOnly(phase8a[4], 7)
<1>1. ASSUME NEW r \in {3, 4, 5, 6, 7, 8, 9, 13}, NEW S,
             S = Provides[r] \/ (r = 5 /\ S = Provides[5] \cup {"dead_lettered"}),
             NEW K, K = KeysOf(r), NEW st, st = Create(S, K, {})
      PROVE  Creates(st, r) /\ (r # 5 => ListsOnly(st, r)) /\ Shape(<<st>>, "up", r)
  <2> DEFINE more == IF r = 5 THEN {"dead_lettered"} \cap S ELSE {}
  <2>1. /\ st.names = Provides[r] \cup more /\ st.keys = KeysOf(r) /\ st.op = "create"
        /\ st.indexes = {}
    BY <1>1 DEF Create
  <2>2. more \in SUBSET Objects
    <3>1. "dead_lettered" \in Unlisted
      BY DEF Unlisted
    <3> QED
      BY <3>1 DEF Objects
  <2>4. \A q \in 1 .. LastRevision : Provides[q] \cap more = {}
    BY Revisions DEF Provides, Enums, CoreTables, OtherTables, PeriodConstraint,
                     PaymentConstraint, CheckConstraints
  <2> HIDE DEF more
  <2>5. r \in 3 .. 13 /\ r \in 2 .. 13
    OBVIOUS
  <2>6. Creates(st, r)
    BY <2>1, <2>2, <2>4, <2>5, Listed DEF Creates
  <2>7. r # 5 => ListsOnly(st, r)
    BY <1>1, <2>1 DEF ListsOnly, KeysOf, more
  <2> QED
    BY <2>5, <2>6, <2>7, CreatesShape
<1>2. /\ phase5a_step2 = <<Create(Provides[3], {}, {})>>
      /\ phase6a = <<Create(Provides[4], {}, {})>>
  BY DEF phase5a_step2, phase6a, Provides
<1>6. /\ phase8a[4] = Create(Provides[7], {}, {})
      /\ license_system = <<Create(Provides[9], {}, {})>>
      /\ w1_04a = <<Create(Provides[13], {}, {})>>
  BY DEF phase8a, license_system, w1_04a, Provides
<1>3. phase6b = <<Create(Provides[5] \cup {"dead_lettered"}, KeysOf(5), {})>>
  <2>1. Provides[5] \cup {"dead_lettered"} = {"dead_lettered", "webhook_dead_letters", "idx_cursor"}
    BY DEF Provides
  <2> QED
    BY <2>1, KeysAre DEF phase6b
<1>4. phase6c = <<Create(Provides[6], KeysOf(6), {})>>
  BY KeysAre DEF phase6c, Provides
<1>5. phase8b = <<Create(Provides[8], KeysOf(8), {})>>
  BY KeysAre DEF phase8b, Provides
<1> QED
  BY <1>1, <1>2, <1>3, <1>4, <1>5, <1>6, KeysAre

LEMMA PlainDown ==
  /\ Shape(phase5a_step2_down, "down", 3) /\ Shape(phase6a_down, "down", 4)
  /\ Shape(phase6b_down, "down", 5) /\ Shape(phase6c_down, "down", 6)
  /\ Shape(phase8a_down, "down", 7) /\ Shape(phase8b_down, "down", 8)
  /\ Shape(license_system_down, "down", 9) /\ Shape(w1_01a_down, "down", 10)
  /\ Shape(w1_04a_down, "down", 13)
<1>1. ASSUME NEW r \in {3, 4, 5, 6, 7, 8, 9, 10, 13}, NEW K, NEW I \in SUBSET Others,
             K = KeysOf(r) \/ K = KeysOf(r) \cup {RetryKey}, NEW st, st = Drop(Provides[r], K, I)
      PROVE  Shape(<<st>>, "down", r)
  <2>1. st.names = Provides[r] /\ st.keys = K /\ st.op = "drop" /\ st.indexes = I
    BY <1>1 DEF Drop
  <2>3. {} \in SUBSET Objects /\ Provides[r] = Provides[r] \cup {}
    OBVIOUS
  <2>4. r \in 3 .. 13 /\ r \in 2 .. 13
    OBVIOUS
  <2>5. Lists(st, r)
    BY <1>1, <2>1, <2>3, <2>4, Listed
  <2>6. Drops(st, r)
    BY <2>1, <2>5 DEF Drops
  <2> QED
    BY <2>1, <2>4, <2>6, DropsShape
<1>2. /\ {} \in SUBSET Others /\ {KeyIndexes[6]} \in SUBSET Others
      /\ {KeyIndexes[2]} \in SUBSET Others /\ {RetryIndex, KeyIndexes[5]} \in SUBSET Others
  BY DEF Others, IndexNames, KeyIndexes, PaymentIndex, RetryIndex
<1>3. /\ phase5a_step2_down = <<Drop(Provides[3], {}, {})>>
      /\ phase6a_down = <<Drop(Provides[4], {}, {})>>
      /\ phase8a_down = <<Drop(Provides[7], {}, {})>>
      /\ license_system_down = <<Drop(Provides[9], {}, {})>>
      /\ w1_01a_down = <<Drop(Provides[10], {}, {})>>
      /\ w1_04a_down = <<Drop(Provides[13], {}, {})>>
  BY DEF phase5a_step2_down, phase6a_down, phase8a_down, license_system_down, w1_01a_down,
         w1_04a_down, Provides
<1>4. phase6b_down = <<Drop(Provides[5], KeysOf(5) \cup {RetryKey}, {RetryIndex, KeyIndexes[5]})>>
  <2>1. KeysOf(5) \cup {RetryKey}
          = {"webhook_dead_letters.merchant_id", "webhook_dead_letters.delivery_id", RetryKey}
    BY KeysAre
  <2> QED
    BY <2>1 DEF phase6b_down, Provides
<1>5. phase6c_down = <<Drop(Provides[6], KeysOf(6), {KeyIndexes[6]})>>
  BY KeysAre DEF phase6c_down, Provides
<1>6. phase8b_down = <<Drop(Provides[8], KeysOf(8), {KeyIndexes[2]})>>
  BY KeysAre DEF phase8b_down, Provides
<1> QED
  BY <1>1, <1>2, <1>3, <1>4, <1>5, <1>6, KeysAre

\* What no revision provides makes no difference.
LEMMA EnsureFits ==
  ASSUME NEW s \in Schemas, NEW n \in {"past_due", "trialing"}, NEW v \in 1 .. 15, Fits(s, v)
  PROVE  Fits(Effect(Ensure({n}), s), v)
<1> DEFINE h == s.has \cup {n}
           e == [has |-> h, fk |-> s.fk, idx |-> s.idx]
<1>3. Effect(Ensure({n}), s) = e
  BY DEF Effect, Ensure, Schemas
<1>4. \A q \in 1 .. LastRevision : n \notin Provides[q]
  BY Revisions DEF Provides, Enums, CoreTables, OtherTables, PeriodConstraint, PaymentConstraint,
                   CheckConstraints
<1>5. e.has = h /\ e.fk = s.fk /\ e.idx = s.idx
  OBVIOUS
<1> HIDE DEF e
<1>6. Fits(e, v)
  BY <1>4, <1>5 DEF Fits, Present
<1> QED
  BY <1>3, <1>6

LEMMA RenameFits ==
  ASSUME NEW s \in Schemas, NEW a \in Others, NEW b \in Others, NEW v \in 1 .. 15, Fits(s, v)
  PROVE  Fits(Effect(Rename(a, b), s), v)
<1> DEFINE st == Rename(a, b)
           e == Effect(st, s)
<1>1. WellFormed(st) /\ st.op = "rename" /\ st.from = a /\ st.to = b
  BY DEF WellFormed, Rename
<1>2. e = [s EXCEPT !.idx[b] = s.idx[a], !.idx[a] = NoIndex]
  BY <1>1 DEF Effect
<1>3. e.has = s.has /\ e.fk = s.fk
  BY <1>2 DEF Schemas
<1>4. e.idx[PaymentIndex] = s.idx[PaymentIndex] \/ e.idx[PaymentIndex] = NoIndex
  BY <1>1, EffectTyped
<1> HIDE DEF e, st
<1>5. Fits(e, v)
  BY <1>3, <1>4 DEF Fits, Present, NoIndex
<1> QED
  BY <1>5 DEF e, st

LEMMA UseIndexFits ==
  ASSUME NEW s \in Schemas, Fits(s, 9)
  PROVE  Fits(Effect(UseIndex(PaymentIndex, PaymentConstraint), s), 10)
<1> DEFINE st == UseIndex(PaymentIndex, PaymentConstraint)
           e == Effect(st, s)
<1>0. Provides[10] = {PaymentConstraint} /\ 10 \in 1 .. LastRevision /\ Alone(10)
  BY Revisions, ProvidedOnce DEF Provides
<1>1. st.op = "useindex" /\ st.index = PaymentIndex /\ st.constraint = PaymentConstraint
  BY DEF UseIndex
<1>2. e = [s EXCEPT !.has = @ \cup {PaymentConstraint}, !.idx[PaymentIndex] = NoIndex]
  BY <1>1 DEF Effect
<1>3. e.has = s.has \cup {PaymentConstraint} /\ e.fk = s.fk
  BY <1>2 DEF Schemas
<1>4. e.idx[PaymentIndex] = NoIndex
  BY <1>2 DEF Schemas, IndexNames
<1> HIDE DEF e, st
<1>5. ASSUME NEW q \in 1 .. LastRevision, NEW x \in Provides[q] PROVE x \in e.has <=> q <= 10
  <2>1. x \in s.has <=> q <= 9
    BY DEF Fits
  <2>2. x = PaymentConstraint <=> q = 10
    BY <1>0 DEF Alone
  <2>3. q <= 10 <=> (q <= 9 \/ q = 10)
    BY Revisions
  <2> QED
    BY <1>3, <2>1, <2>2, <2>3
<1>6. ASSUME NEW f \in DOMAIN FK_CHANGES PROVE e.fk[f] = PolicyAt(f, 10)
  <2>1. PICK n \in Nat : n = KeyRevision(f) /\ n < 9
    BY KeyRevisions
  <2>2. PolicyAt(f, 9) = "NO ACTION"
    BY <2>1 DEF PolicyAt
  <2>3. PolicyAt(f, 10) = "NO ACTION"
    BY <2>1 DEF PolicyAt
  <2> QED
    BY <1>3, <2>2, <2>3 DEF Fits
<1>7. ~ Present(e, PaymentIndex)
  BY <1>4 DEF Present, NoIndex
<1>8. Fits(e, 10)
  BY <1>5, <1>6, <1>7 DEF Fits
<1> QED
  BY <1>8 DEF e, st

LEMMA KeysFit ==
  ASSUME NEW s \in Schemas
  PROVE  /\ Fits(s, 13) => Fits(Effect(ReplaceKeys, s), 14)
         /\ Fits(s, 14) => Fits(Effect(RestoreKeys, s), 13) /\ ~ Refused(RestoreKeys, s)
<1>1. Provides[14] = {}
  BY DEF Provides
<1>2. \A q \in 1 .. LastRevision : q # 14 => (q <= 14 <=> q <= 13)
  BY Revisions
<1>3. \A f \in DOMAIN FK_CHANGES : PolicyAt(f, 14) = FK_CHANGES[f] /\ PolicyAt(f, 13) = "NO ACTION"
  BY KeyRevisions DEF PolicyAt
<1>4. \A f \in DOMAIN FK_CHANGES : f \in ForeignKeys /\ DefaultPolicy(f) = "NO ACTION"
  BY DEF DefaultPolicy, ForeignKeys, FK_CHANGES, RetryKey, RetryColumn, FirstKeys, LaterKeys
<1>5. ASSUME Fits(s, 13) PROVE Fits(Effect(ReplaceKeys, s), 14)
  <2> DEFINE k == [f \in ForeignKeys |-> IF f \in DOMAIN FK_CHANGES THEN FK_CHANGES[f] ELSE s.fk[f]]
             e == [has |-> s.has, fk |-> k, idx |-> s.idx]
  <2>1. Effect(ReplaceKeys, s) = e
    BY DEF Effect, ReplaceKeys, Keyed, Schemas
  <2>2. \A f \in DOMAIN FK_CHANGES : k[f] = PolicyAt(f, 14)
    BY <1>3, <1>4
  <2>3. e.has = s.has /\ e.fk = k /\ e.idx = s.idx
    OBVIOUS
  <2> HIDE DEF k, e
  <2>4. Fits(e, 14)
    BY <1>1, <1>2, <1>5, <2>2, <2>3 DEF Fits, Present
  <2> QED
    BY <2>1, <2>4
<1>6. ASSUME Fits(s, 14) PROVE Fits(Effect(RestoreKeys, s), 13) /\ ~ Refused(RestoreKeys, s)
  <2> DEFINE k == [f \in ForeignKeys |-> IF f \in DOMAIN FK_CHANGES THEN DefaultPolicy(f) ELSE s.fk[f]]
             e == [has |-> s.has, fk |-> k, idx |-> s.idx]
  <2>1. Effect(RestoreKeys, s) = e
    BY DEF Effect, RestoreKeys, Keyed, Schemas
  <2>2. \A f \in DOMAIN FK_CHANGES : k[f] = PolicyAt(f, 13)
    BY <1>3, <1>4
  <2>3. e.has = s.has /\ e.fk = k /\ e.idx = s.idx
    OBVIOUS
  <2> HIDE DEF k, e
  <2>4. Fits(e, 13)
    BY <1>1, <1>2, <1>6, <2>2, <2>3 DEF Fits, Present
  <2>5. ~ Refused(RestoreKeys, s)
    BY <1>3, <1>6 DEF Refused, RestoreKeys, Fits
  <2> QED
    BY <2>1, <2>4, <2>5
<1> QED
  BY <1>5, <1>6

LEMMA RetryListed ==
  ASSUME NEW st, st.names = {RetryColumn}, st.keys = {RetryKey}
  PROVE  Lists(st, 15)
<1>1. RetryColumn \in Unlisted
  BY DEF Unlisted
<1>2. RetryColumn \in Objects
  BY <1>1 DEF Objects
<1>3. \A q \in 1 .. LastRevision : RetryColumn \notin Provides[q]
  BY Revisions DEF RetryColumn, Provides, Enums, CoreTables, OtherTables, PeriodConstraint,
                   PaymentConstraint, CheckConstraints
<1>4. Provides[15] = {}
  BY DEF Provides
<1>5. RetryKey \in ForeignKeys /\ RetryKey \notin DOMAIN FK_CHANGES
  BY DEF ForeignKeys, FK_CHANGES, RetryKey, RetryColumn, FirstKeys, LaterKeys
<1> QED
  BY <1>2, <1>3, <1>4, <1>5, KeyRevisions DEF Lists

LEMMA SeenStatements ==
  /\ WellFormed(COMMIT) /\ Seen(COMMIT) /\ COMMIT.op = "commit"
  /\ \A n \in Others, u \in BOOLEAN : LET st == Build(n, u)
                                    IN WellFormed(st) /\ Seen(st) /\ st.op = "build" /\ st.unique = u
  /\ \A n \in Others : LET st == DropIndex(n)
                       IN WellFormed(st) /\ Seen(st) /\ st.op = "dropindex"
  /\ LET st == Build(PaymentIndex, TRUE) IN WellFormed(st) /\ Seen(st) /\ st.op = "build"
  /\ \A st, s : Seen(st) => ~ Refused(st, s)
<1>1. PaymentIndex \in IndexNames
  BY DEF IndexNames
<1> QED
  BY <1>1 DEF WellFormed, Seen, COMMIT, Build, DropIndex, Others, Refused

LEMMA UnseenStatements ==
  /\ LET st == UseIndex(PaymentIndex, PaymentConstraint)
     IN WellFormed(st) /\ ~ Seen(st) /\ st.op = "useindex"
  /\ \A a, b \in Others : LET st == Rename(a, b)
                         IN WellFormed(st) /\ ~ Seen(st) /\ st.op = "rename"
  /\ \A n \in {"past_due", "trialing"} : LET st == Ensure({n})
                                         IN WellFormed(st) /\ ~ Seen(st) /\ st.op = "ensure"
  /\ \A st \in {Wipe, ReplaceKeys, RestoreKeys} : WellFormed(st) /\ ~ Seen(st) /\ Bare(st)
<1>1. PaymentIndex \in IndexNames
  BY DEF IndexNames
<1>2. PaymentConstraint \in Objects
  <2>1. Provides[10] = {PaymentConstraint} /\ 10 \in 1 .. LastRevision
    BY Revisions DEF Provides
  <2> QED
    BY <2>1 DEF Objects, Provided
<1>3. \A n \in {"past_due", "trialing"} : n \in Objects
  BY DEF Objects, Unlisted
<1> QED
  BY <1>1, <1>2, <1>3
     DEF WellFormed, Seen, Bare, UseIndex, Rename, Ensure, Wipe, ReplaceKeys, RestoreKeys

LEMMA OtherIndexes ==
  /\ AddressIndex \in Others /\ NewAddressIndex \in Others /\ RetryIndex \in Others
  /\ \A k \in 1 .. 6 : KeyIndexes[k] \in Others
  /\ PaymentIndex \in IndexNames
BY DEF Others, IndexNames, AddressIndex, NewAddressIndex, RetryIndex, KeyIndexes, PaymentIndex

\* After what is seen, what is seen as well.
LEMMA SeenFits ==
  ASSUME NEW q, NEW st, NEW d, NEW r, Seen(q), Seen(st), WellFormed(st), Before(d, r) > 0,
         st.op = "build" => ~ st.unique \/ <<d, r>> \in Refusals
  PROVE  StatementFits(q, st, d, r)
<1>1. \A s : ~ Refused(st, s)
  BY SeenStatements
<1> QED
  BY <1>1 DEF StatementFits, Bare, Seen

\* A revision in which everything is seen.
LEMMA SeenShape ==
  ASSUME NEW p, NEW d, NEW r, Before(d, r) > 0, Len(p) \in Nat,
         \A k \in 1 .. Len(p) : Seen(p[k]) /\ WellFormed(p[k]) /\ (p[k].op = "build" => ~ p[k].unique),
         EndFits(COMMIT, d, r)
  PROVE  Shape(p, d, r)
<1>1. \A k \in 1 .. Len(p) + 1 : Seen(Last(p, k))
  <2> SUFFICES ASSUME NEW k \in 1 .. Len(p) + 1, k # 1 PROVE Seen(p[k - 1])
    BY SeenStatements DEF Last
  <2>1. k - 1 \in 1 .. Len(p)
    OBVIOUS
  <2> QED
    BY <2>1
<1>2. \A k \in 1 .. Len(p) : StatementFits(Last(p, k), p[k], d, r)
  <2> TAKE k \in 1 .. Len(p)
  <2>1. Seen(Last(p, k))
    BY <1>1
  <2>2. Seen(p[k]) /\ WellFormed(p[k]) /\ (p[k].op = "build" => ~ p[k].unique)
    OBVIOUS
  <2> QED
    BY <2>1, <2>2, SeenFits
<1>3. Seen(Last(p, Len(p) + 1)) /\ Seen(COMMIT)
  BY <1>1, SeenStatements
<1> QED
  BY <1>2, <1>3 DEF Shape, EndFits

LEMMA UpTwo == Shape(phase5a_step1, "up", 2)
<1> DEFINE st == Ensure({"past_due"})
<1>1. Before("up", 2) = 1 /\ After("up", 2) = 2
  BY DEF Before, After
<1>2. WellFormed(st) /\ ~ Seen(st) /\ st.op = "ensure"
  BY UnseenStatements
<1>3. \A s \in Schemas : ~ Refused(st, s)
  BY <1>2 DEF Refused
<1>4. ASSUME NEW s \in Schemas, Fits(s, 1) PROVE Fits(Effect(st, s), 2)
  <2>1. Effect(st, s) \in Schemas /\ Fits(Effect(st, s), 1)
    BY <1>2, <1>4, EnsureFits, EffectTyped
  <2> HIDE DEF st
  <2> QED
    BY <2>1, NothingFits
<1> HIDE DEF st
<1>5. Shape(<<st>>, "up", 2)
  BY <1>1, <1>2, <1>3, <1>4, OneStatement DEF Bare
<1> QED
  BY <1>5 DEF phase5a_step1, st

LEMMA UpSeven == Shape(phase8a, "up", 7)
<1> DEFINE n == Ensure({"trialing"})
           c == phase8a[4]
<1>1. Before("up", 7) = 6 /\ 7 \in 2 .. 13
  BY DEF Before
<1>2. Seen(COMMIT) /\ WellFormed(COMMIT) /\ COMMIT.op = "commit"
  BY SeenStatements
<1>3. WellFormed(n) /\ ~ Seen(n) /\ n.op = "ensure"
  BY UnseenStatements
<1>4. \A s \in Schemas : Fits(s, 6) => Fits(Effect(n, s), 6)
  BY EnsureFits
<1>5. Creates(c, 7) /\ ListsOnly(c, 7)
  BY PlainUp
<1> HIDE DEF n, c
<1>7. \A s \in Schemas : ~ Refused(n, s) /\ ~ Refused(COMMIT, s)
  BY <1>2, <1>3 DEF Refused
<1>6. StatementFits(COMMIT, COMMIT, "up", 7)
  BY <1>2, <1>7 DEF StatementFits, Bare
<1>8. StatementFits(COMMIT, n, "up", 7)
  BY <1>2, <1>3, <1>7 DEF StatementFits, Bare
<1>9. StatementFits(n, COMMIT, "up", 7)
  BY <1>1, <1>2, <1>4, <1>7 DEF StatementFits, Bare
<1>10. StatementFits(COMMIT, c, "up", 7) /\ EndFits(c, "up", 7)
  BY <1>1, <1>5, CreatesShape
<1>11. Shape(<<COMMIT, n, COMMIT, c>>, "up", 7)
  BY <1>6, <1>8, <1>9, <1>10, ShapeOfFour
<1>12. phase8a = <<COMMIT, n, COMMIT, c>>
  BY DEF phase8a, n, c
<1> QED
  BY <1>11, <1>12

LEMMA UpTen == Shape(w1_01a, "up", 10)
<1> DEFINE b == Build(PaymentIndex, TRUE)
           u == UseIndex(PaymentIndex, PaymentConstraint)
<1>1. <<"up", 10>> \in Refusals /\ Before("up", 10) = 9 /\ After("up", 10) = 10
  BY DEF Refusals, Before, After
<1>2. Seen(COMMIT) /\ WellFormed(COMMIT) /\ COMMIT.op = "commit" /\ Seen(b) /\ WellFormed(b)
  BY SeenStatements
<1>3. StatementFits(COMMIT, COMMIT, "up", 10) /\ StatementFits(COMMIT, b, "up", 10)
  <2> HIDE DEF b
  <2> QED
    BY <1>1, <1>2, SeenFits
<1>4. WellFormed(u) /\ ~ Seen(u) /\ u.op = "useindex"
  BY UnseenStatements
<1>5. StatementFits(b, u, "up", 10)
  BY <1>1, <1>2, <1>4 DEF StatementFits
<1>6. EndFits(u, "up", 10)
  BY <1>1, <1>4, UseIndexFits DEF EndFits
<1> HIDE DEF b, u
<1>7. Shape(<<COMMIT, b, u>>, "up", 10)
  BY <1>3, <1>5, <1>6, ShapeOfThree
<1> QED
  BY <1>7 DEF w1_01a, b, u

LEMMA UpEleven == Shape(w1_02a, "up", 11)
<1> DEFINE b == Build(NewAddressIndex, TRUE)
           x == DropIndex(AddressIndex)
           m == Rename(NewAddressIndex, AddressIndex)
<1>1. <<"up", 11>> \in Refusals /\ Before("up", 11) = 10 /\ After("up", 11) = 11
  BY DEF Refusals, Before, After
<1>2. /\ Seen(COMMIT) /\ WellFormed(COMMIT) /\ COMMIT.op = "commit" /\ Seen(b) /\ WellFormed(b)
      /\ Seen(x) /\ WellFormed(x) /\ x.op = "dropindex"
  BY SeenStatements, OtherIndexes
<1>3. WellFormed(m) /\ ~ Seen(m) /\ m.op = "rename"
  BY UnseenStatements, OtherIndexes
<1>4. ASSUME NEW s \in Schemas, Fits(s, 10) PROVE Fits(Effect(m, s), 11)
  <2>1. Effect(m, s) \in Schemas /\ Fits(Effect(m, s), 10)
    BY <1>3, <1>4, RenameFits, EffectTyped, OtherIndexes
  <2> HIDE DEF m
  <2> QED
    BY <2>1, NothingFits
<1> HIDE DEF b, x, m
<1>5. /\ StatementFits(COMMIT, COMMIT, "up", 11) /\ StatementFits(COMMIT, b, "up", 11)
      /\ StatementFits(b, x, "up", 11)
  BY <1>1, <1>2, SeenFits
<1>6. StatementFits(x, m, "up", 11)
  BY <1>1, <1>2, <1>3 DEF StatementFits
<1>7. EndFits(m, "up", 11)
  BY <1>1, <1>3, <1>4 DEF EndFits
<1>8. Shape(<<COMMIT, b, x, m>>, "up", 11)
  BY <1>5, <1>6, <1>7, ShapeOfFour
<1> QED
  BY <1>8 DEF w1_02a, b, x, m

LEMMA UpTwelve == Shape(w1_03a, "up", 12)
<1> DEFINE p == w1_03a
           Plain(n) == Build(n, FALSE)
           Good(st) == Seen(st) /\ WellFormed(st) /\ (st.op = "build" => ~ st.unique)
<1>1. /\ Len(p) = 7 /\ p[1] = COMMIT
      /\ p[2] = Plain(KeyIndexes[1]) /\ p[3] = Plain(KeyIndexes[2])
      /\ p[4] = Plain(KeyIndexes[3]) /\ p[5] = Plain(KeyIndexes[4])
      /\ p[6] = Plain(KeyIndexes[5]) /\ p[7] = Plain(KeyIndexes[6])
  BY DEF w1_03a
<1> HIDE DEF p
<1>2. \A i \in 1 .. 6 : Good(Plain(KeyIndexes[i]))
  <2> TAKE i \in 1 .. 6
  <2>1. KeyIndexes[i] \in Others /\ FALSE \in BOOLEAN
    BY OtherIndexes
  <2> QED
    BY <2>1, SeenStatements
<1>3. Good(COMMIT)
  BY SeenStatements
<1> HIDE DEF Good, Plain
<1>4. Good(p[1]) /\ Good(p[2]) /\ Good(p[3]) /\ Good(p[4])
  BY <1>1, <1>2, <1>3
<1>5. Good(p[5]) /\ Good(p[6]) /\ Good(p[7])
  BY <1>1, <1>2
<1>6. \A k \in 1 .. 7 : Good(p[k])
  <2> TAKE k \in 1 .. 7
  <2>1. k = 1 \/ k = 2 \/ k = 3 \/ k = 4 \/ k = 5 \/ k = 6 \/ k = 7
    OBVIOUS
  <2> QED
    BY <1>4, <1>5, <2>1
<1>7. Before("up", 12) = 11 /\ After("up", 12) = 12
  BY DEF Before, After
<1>8. EndFits(COMMIT, "up", 12)
  BY <1>7, SeenStatements, NothingFits DEF EndFits
<1>9. Shape(p, "up", 12)
  BY <1>1, <1>6, <1>7, <1>8, SeenShape DEF Good
<1> QED
  BY <1>9 DEF p

LEMMA UpFourteen == Shape(w1_05a, "up", 14)
<1>1. Before("up", 14) = 13 /\ After("up", 14) = 14
  BY DEF Before, After
<1>2. WellFormed(ReplaceKeys) /\ ~ Seen(ReplaceKeys) /\ Bare(ReplaceKeys)
  BY UnseenStatements
<1>3. \A s : ~ Refused(ReplaceKeys, s)
  BY DEF Refused, ReplaceKeys
<1>4. \A s \in Schemas : Fits(s, 13) => Fits(Effect(ReplaceKeys, s), 14)
  BY KeysFit
<1> QED
  BY <1>1, <1>2, <1>3, <1>4, OneStatement DEF w1_05a

LEMMA UpFifteen == Shape(w1_06a, "up", 15)
<1> DEFINE c == Create({RetryColumn}, {RetryKey}, {})
           b == Build(RetryIndex, FALSE)
<1>1. <<"up", 15>> \in Refusals /\ Before("up", 15) = 14 /\ After("up", 15) = 15
  BY DEF Refusals, Before, After
<1>2. /\ Seen(COMMIT) /\ WellFormed(COMMIT) /\ COMMIT.op = "commit" /\ Seen(b) /\ WellFormed(b)
  BY SeenStatements, OtherIndexes
<1>3. Creates(c, 15)
  BY RetryListed DEF Creates, Create, Lists
<1>4. WellFormed(c) /\ ~ Seen(c) /\ c.op = "create"
  BY <1>3 DEF Creates, Lists, WellFormed, Seen
<1>5. \A s \in Schemas : Fits(s, 14) => Fits(Effect(c, s), 14)
  BY <1>3, CreateAhead
<1> HIDE DEF c, b
<1>6. StatementFits(COMMIT, c, "up", 15)
  BY <1>1, <1>2, <1>4 DEF StatementFits
<1>7. StatementFits(c, COMMIT, "up", 15)
  BY <1>1, <1>2, <1>5 DEF StatementFits
<1>8. StatementFits(COMMIT, b, "up", 15)
  BY <1>1, <1>2, SeenFits
<1>9. EndFits(b, "up", 15)
  BY <1>1, <1>2, NothingFits DEF EndFits
<1>10. Shape(<<c, COMMIT, b>>, "up", 15)
  BY <1>6, <1>7, <1>8, <1>9, ShapeOfThree
<1> QED
  BY <1>10 DEF w1_06a, c, b

LEMMA EmptyFits == NoSchema \in Schemas /\ Fits(NoSchema, 0)
<1>1. NoSchema \in Schemas
  BY DEF NoSchema, Schemas, Policy, Index, NoIndex, IndexState
<1>2. \A r \in 1 .. LastRevision : ~ r <= 0
  BY Revisions
<1>3. \A f \in DOMAIN FK_CHANGES : f \in ForeignKeys /\ PolicyAt(f, 0) = "absent"
  BY Revisions, KeyRevisions DEF PolicyAt
<1>4. NoSchema.has = {} /\ \A f \in ForeignKeys : NoSchema.fk[f] = "absent"
  BY DEF NoSchema
<1>5. ~ Present(NoSchema, PaymentIndex)
  BY DEF NoSchema, Present, NoIndex, IndexNames
<1> QED
  BY <1>1, <1>2, <1>3, <1>4, <1>5 DEF Fits

LEMMA DownOne == Shape(baseline_down, "down", 1)
<1>1. Before("down", 1) = 1 /\ After("down", 1) = 0
  BY DEF Before, After
<1>2. WellFormed(Wipe) /\ ~ Seen(Wipe) /\ Bare(Wipe)
  BY UnseenStatements
<1>3. \A s : ~ Refused(Wipe, s) /\ Effect(Wipe, s) = NoSchema
  BY DEF Refused, Effect, Wipe
<1> QED
  BY <1>1, <1>2, <1>3, EmptyFits, OneStatement DEF baseline_down

LEMMA DownTwo == Shape(<< >>, "down", 2)
<1>1. Before("down", 2) = 2 /\ After("down", 2) = 1 /\ "down" # "up"
  BY DEF Before, After
<1>2. EndFits(COMMIT, "down", 2)
  BY <1>1, SeenStatements, NothingFits DEF EndFits
<1> QED
  BY <1>2, ShapeOfNone

LEMMA DownEleven == Shape(w1_02a_down, "down", 11)
<1> DEFINE m == Rename(AddressIndex, NewAddressIndex)
           b == Build(AddressIndex, FALSE)
           x == DropIndex(NewAddressIndex)
<1>1. <<"down", 11>> \in Refusals /\ Before("down", 11) = 11 /\ After("down", 11) = 10
  BY DEF Refusals, Before, After
<1>2. /\ Seen(COMMIT) /\ WellFormed(COMMIT) /\ COMMIT.op = "commit" /\ Seen(b) /\ WellFormed(b)
      /\ Seen(x) /\ WellFormed(x) /\ x.op = "dropindex"
  BY SeenStatements, OtherIndexes
<1>3. WellFormed(m) /\ ~ Seen(m) /\ m.op = "rename"
  BY UnseenStatements, OtherIndexes
<1>4. \A s \in Schemas : Fits(s, 11) => Fits(Effect(m, s), 11)
  BY RenameFits, OtherIndexes
<1> HIDE DEF b, x, m
<1>5. StatementFits(COMMIT, m, "down", 11)
  BY <1>1, <1>2, <1>3 DEF StatementFits
<1>6. StatementFits(m, COMMIT, "down", 11)
  BY <1>1, <1>2, <1>4 DEF StatementFits
<1>7. StatementFits(COMMIT, b, "down", 11) /\ StatementFits(b, x, "down", 11)
  BY <1>1, <1>2, SeenFits
<1>8. EndFits(x, "down", 11)
  BY <1>1, <1>2, NothingFits DEF EndFits
<1>9. Shape(<<m, COMMIT, b, x>>, "down", 11)
  BY <1>5, <1>6, <1>7, <1>8, ShapeOfFour
<1> QED
  BY <1>9 DEF w1_02a_down, b, x, m

LEMMA DownTwelve == Shape(w1_03a_down, "down", 12)
<1> DEFINE p == w1_03a_down
           Good(st) == Seen(st) /\ WellFormed(st) /\ (st.op = "build" => ~ st.unique)
<1>1. /\ Len(p) = 7 /\ p[1] = COMMIT
      /\ p[2] = DropIndex(KeyIndexes[6]) /\ p[3] = DropIndex(KeyIndexes[5])
      /\ p[4] = DropIndex(KeyIndexes[4]) /\ p[5] = DropIndex(KeyIndexes[3])
      /\ p[6] = DropIndex(KeyIndexes[2]) /\ p[7] = DropIndex(KeyIndexes[1])
  BY DEF w1_03a_down
<1> HIDE DEF p
<1>2. \A i \in 1 .. 6 : Good(DropIndex(KeyIndexes[i]))
  <2> TAKE i \in 1 .. 6
  <2>1. KeyIndexes[i] \in Others
    BY OtherIndexes
  <2> QED
    BY <2>1, SeenStatements
<1>3. Good(COMMIT)
  BY SeenStatements
<1> HIDE DEF Good
<1>4. Good(p[1]) /\ Good(p[2]) /\ Good(p[3]) /\ Good(p[4])
  BY <1>1, <1>2, <1>3
<1>5. Good(p[5]) /\ Good(p[6]) /\ Good(p[7])
  BY <1>1, <1>2
<1>6. \A k \in 1 .. 7 : Good(p[k])
  <2> TAKE k \in 1 .. 7
  <2>1. k = 1 \/ k = 2 \/ k = 3 \/ k = 4 \/ k = 5 \/ k = 6 \/ k = 7
    OBVIOUS
  <2> QED
    BY <1>4, <1>5, <2>1
<1>7. Before("down", 12) = 12 /\ After("down", 12) = 11
  BY DEF Before, After
<1>8. EndFits(COMMIT, "down", 12)
  BY <1>7, SeenStatements, NothingFits DEF EndFits
<1>9. Shape(p, "down", 12)
  BY <1>1, <1>6, <1>7, <1>8, SeenShape DEF Good
<1> QED
  BY <1>9 DEF p

LEMMA DownFourteen == Shape(w1_05a_down, "down", 14)
<1>1. Before("down", 14) = 14 /\ After("down", 14) = 13
  BY DEF Before, After
<1>2. WellFormed(RestoreKeys) /\ ~ Seen(RestoreKeys) /\ Bare(RestoreKeys)
  BY UnseenStatements
<1>3. \A s \in Schemas : Fits(s, 14) =>
         Fits(Effect(RestoreKeys, s), 13) /\ ~ Refused(RestoreKeys, s)
  BY KeysFit
<1> QED
  BY <1>1, <1>2, <1>3, OneStatement DEF w1_05a_down

LEMMA DownFifteen == Shape(w1_06a_down, "down", 15)
<1> DEFINE x == DropIndex(RetryIndex)
           c == Drop({RetryColumn}, {RetryKey}, {})
<1>1. Before("down", 15) = 15 /\ After("down", 15) = 14 /\ 15 \in 2 .. 15
  BY DEF Before, After
<1>2. /\ Seen(COMMIT) /\ WellFormed(COMMIT) /\ COMMIT.op = "commit"
      /\ Seen(x) /\ WellFormed(x) /\ x.op = "dropindex"
  BY SeenStatements, OtherIndexes
<1>3. Drops(c, 15) /\ c.names = {RetryColumn}
  BY RetryListed DEF Drops, Drop
<1>4. WellFormed(c) /\ ~ Seen(c) /\ c.op = "drop"
  BY <1>3 DEF Drops, Lists, WellFormed, Seen
<1>5. \A s \in Schemas : Fits(s, 15) => ~ Refused(c, s)
  BY <1>1, <1>3, DropAccepted
<1>6. \A s \in Schemas : Fits(s, 15) => Fits(Effect(c, s), 14)
  BY <1>1, <1>3, DropFits
<1>7. \A s \in Schemas : ~ Refused(COMMIT, s) /\ ~ Refused(x, s)
  BY <1>2, SeenStatements
<1> HIDE DEF c, x
<1>8. StatementFits(COMMIT, COMMIT, "down", 15) /\ StatementFits(COMMIT, x, "down", 15)
  BY <1>1, <1>2, <1>7 DEF StatementFits, Bare
<1>9. StatementFits(x, c, "down", 15)
  BY <1>1, <1>2, <1>4, <1>5 DEF StatementFits, Bare
<1>10. EndFits(c, "down", 15)
  BY <1>1, <1>4, <1>6 DEF EndFits
<1>11. Shape(<<COMMIT, x, c>>, "down", 15)
  BY <1>8, <1>9, <1>10, ShapeOfThree
<1> QED
  BY <1>11 DEF w1_06a_down, c, x

LEMMA UpShapes == \A r \in 2 .. 15 : Shape(Upgrade[r], "up", r)
<1>1. /\ Upgrade[2] = phase5a_step1 /\ Upgrade[3] = phase5a_step2 /\ Upgrade[4] = phase6a
      /\ Upgrade[5] = phase6b /\ Upgrade[6] = phase6c /\ Upgrade[7] = phase8a
      /\ Upgrade[8] = phase8b /\ Upgrade[9] = license_system /\ Upgrade[10] = w1_01a
      /\ Upgrade[11] = w1_02a /\ Upgrade[12] = w1_03a /\ Upgrade[13] = w1_04a
      /\ Upgrade[14] = w1_05a /\ Upgrade[15] = w1_06a
  BY DEF Upgrade
<1>2. TAKE r \in 2 .. 15
<1>3. CASE r \in 2 .. 9
  <2>1. r = 2 \/ r = 3 \/ r = 4 \/ r = 5 \/ r = 6 \/ r = 7 \/ r = 8 \/ r = 9
    BY <1>3
  <2> QED
    BY <1>1, <2>1, UpTwo, PlainUp, UpSeven
<1>4. CASE r \in 10 .. 15
  <2>1. r = 10 \/ r = 11 \/ r = 12 \/ r = 13 \/ r = 14 \/ r = 15
    BY <1>4
  <2> QED
    BY <1>1, <2>1, UpTen, UpEleven, UpTwelve, PlainUp, UpFourteen, UpFifteen
<1> QED
  BY <1>3, <1>4

LEMMA DownShapes == \A r \in 1 .. 15 : Shape(Downgrade[r], "down", r)
<1>1. /\ Downgrade[1] = baseline_down /\ Downgrade[2] = << >>
      /\ Downgrade[3] = phase5a_step2_down /\ Downgrade[4] = phase6a_down
      /\ Downgrade[5] = phase6b_down /\ Downgrade[6] = phase6c_down
      /\ Downgrade[7] = phase8a_down /\ Downgrade[8] = phase8b_down
      /\ Downgrade[9] = license_system_down /\ Downgrade[10] = w1_01a_down
      /\ Downgrade[11] = w1_02a_down /\ Downgrade[12] = w1_03a_down
      /\ Downgrade[13] = w1_04a_down /\ Downgrade[14] = w1_05a_down
      /\ Downgrade[15] = w1_06a_down
  BY DEF Downgrade
<1>2. TAKE r \in 1 .. 15
<1>3. CASE r \in 1 .. 8
  <2>1. r = 1 \/ r = 2 \/ r = 3 \/ r = 4 \/ r = 5 \/ r = 6 \/ r = 7 \/ r = 8
    BY <1>3
  <2> QED
    BY <1>1, <2>1, DownOne, DownTwo, PlainDown
<1>4. CASE r \in 9 .. 15
  <2>1. r = 9 \/ r = 10 \/ r = 11 \/ r = 12 \/ r = 13 \/ r = 14 \/ r = 15
    BY <1>4
  <2> QED
    BY <1>1, <2>1, PlainDown, DownEleven, DownTwelve, DownFourteen, DownFifteen
<1> QED
  BY <1>3, <1>4

-----------------------------------------------------------------------------
(* The first revision, which starts from nothing and commits at its end. *)

First == Effect(baseline_core, NoSchema)
Second == Effect(baseline_rest, First)

LEMMA Baseline ==
  /\ First \in Schemas /\ Second \in Schemas /\ Fits(Second, 1)
  /\ Second.idx[PaymentIndex] = NoIndex
  /\ ~ Refused(baseline_core, NoSchema) /\ ~ Refused(baseline_rest, First)
  /\ baseline_core.op = "create" /\ baseline_rest.op = "create"
  /\ Bare(baseline_core) /\ Bare(baseline_rest)
<1> DEFINE A == baseline_core
           B == baseline_rest
           v == [state |-> "valid", unique |-> FALSE]
<1>1. /\ A.op = "create" /\ A.names = Enums \cup CoreTables /\ A.indexes = {AddressIndex}
      /\ B.op = "create" /\ B.names = OtherTables /\ B.keys = FirstKeys \ A.keys
      /\ B.indexes = {KeyIndexes[1], KeyIndexes[3], KeyIndexes[4]} /\ A.keys \subseteq FirstKeys
  BY DEF baseline_core, baseline_rest, Create, FirstKeys
<1>21. Bare(A) /\ Bare(B)
  BY <1>1 DEF Bare, Rules, PeriodConstraint, PaymentConstraint, NewAddressIndex, CheckConstraints,
              Enums, CoreTables, OtherTables
<1>2. FirstKeys \subseteq DOMAIN FK_CHANGES /\ FirstKeys \subseteq ForeignKeys
  BY DEF FK_CHANGES, ForeignKeys
<1>3. /\ Provides[1] = Enums \cup CoreTables \cup OtherTables /\ 1 \in 1 .. LastRevision
      /\ OtherTables \cap (Enums \cup CoreTables) = {}
  BY Revisions DEF Provides, Enums, CoreTables, OtherTables
<1>4. Alone(1)
  BY Revisions DEF Alone, Provides, Enums, CoreTables, OtherTables, PeriodConstraint,
                   PaymentConstraint, CheckConstraints
<1>5. Provides[1] \subseteq Objects
  BY <1>3 DEF Objects, Provided
<1>6. WellFormed(A) /\ WellFormed(B)
  BY <1>1, <1>2, <1>3, <1>5, OtherIndexes DEF WellFormed
<1>7. First \in Schemas /\ Second \in Schemas
  BY <1>6, EmptyFits, EffectTyped DEF First, Second
<1>8. /\ NoSchema.has = {} /\ \A f \in ForeignKeys : NoSchema.fk[f] = "absent"
      /\ \A n \in IndexNames : NoSchema.idx[n] = NoIndex
  BY DEF NoSchema
<1> HIDE DEF A, B
<1>9. First = [has |-> NoSchema.has \cup A.names,
               fk |-> [f \in ForeignKeys |-> IF f \in A.keys THEN DefaultPolicy(f)
                                                            ELSE NoSchema.fk[f]],
               idx |-> [n \in IndexNames |-> IF n \in A.indexes THEN v ELSE NoSchema.idx[n]]]
  BY <1>1 DEF First, Effect, Keyed, With, A
<1>10. Second = [has |-> First.has \cup B.names,
                 fk |-> [f \in ForeignKeys |-> IF f \in B.keys THEN DefaultPolicy(f)
                                                              ELSE First.fk[f]],
                 idx |-> [n \in IndexNames |-> IF n \in B.indexes THEN v ELSE First.idx[n]]]
  BY <1>1 DEF Second, Effect, Keyed, With, B
<1>11. /\ First.has = A.names /\ Second.has = Provides[1]
  BY <1>1, <1>3, <1>8, <1>9, <1>10
<1>12. \A f \in DOMAIN FK_CHANGES :
         f \in ForeignKeys /\ DefaultPolicy(f) = "NO ACTION" /\ (f \in FirstKeys <=> KeyRevision(f) = 1)
  BY DEF DefaultPolicy, ForeignKeys, FK_CHANGES, RetryKey, RetryColumn, FirstKeys, LaterKeys,
         KeyRevision
<1>13. ASSUME NEW f \in DOMAIN FK_CHANGES PROVE Second.fk[f] = PolicyAt(f, 1)
  <2>1. Second.fk[f] = IF f \in FirstKeys THEN "NO ACTION" ELSE "absent"
    BY <1>1, <1>8, <1>9, <1>10, <1>12
  <2>2. PICK n \in Nat : n = KeyRevision(f) /\ n > 0
    BY KeyRevisions
  <2>3. PolicyAt(f, 1) = IF n = 1 THEN "NO ACTION" ELSE "absent"
    <3>1. (n > 1 <=> n # 1) /\ ~ 1 >= 14
      BY <2>2
    <3> QED
      BY <2>2, <3>1 DEF PolicyAt
  <2>4. f \in FirstKeys <=> n = 1
    BY <1>12, <2>2
  <2> QED
    BY <2>1, <2>3, <2>4
<1>14. Second.idx[PaymentIndex] = NoIndex
  BY <1>1, <1>8, <1>9, <1>10, OtherIndexes DEF Others
<1>15. ASSUME NEW q \in 1 .. LastRevision, NEW x \in Provides[q]
       PROVE  x \in Second.has <=> q <= 1
  BY <1>3, <1>4, <1>11, Revisions DEF Alone
<1>16. Fits(Second, 1)
  BY <1>13, <1>14, <1>15 DEF Fits, Present, NoIndex
<1>17. ~ Refused(A, NoSchema)
  BY <1>1, <1>2, <1>8, OtherIndexes DEF Refused, Present, NoIndex, Others
<1>18. \A f \in B.keys : First.fk[f] = "absent"
  BY <1>1, <1>2, <1>8, <1>9
<1>19. \A n \in B.indexes : First.idx[n] = NoIndex
  <2>1. \A n \in B.indexes : n \in IndexNames /\ n # AddressIndex
    BY <1>1, OtherIndexes DEF Others, KeyIndexes, AddressIndex
  <2> QED
    BY <1>1, <1>8, <1>9, <2>1
<1>20. ~ Refused(B, First)
  BY <1>1, <1>3, <1>11, <1>18, <1>19 DEF Refused, Present, NoIndex
<1> QED
  BY <1>1, <1>7, <1>14, <1>16, <1>17, <1>20, <1>21 DEF A, B

-----------------------------------------------------------------------------
(* The invariant. *)

Typed ==
  /\ version \in 0 .. 15 /\ db \in Schemas /\ work \in Schemas
  /\ job \in [dir : {"idle", "up", "down"}, pc : Nat, creating : BOOLEAN]
  /\ broken \subseteq Rules
  /\ crashes \in 0 .. MaxCrashes /\ reversals \in 0 .. MaxReversals

\* The open transaction is at most one statement ahead of what is committed.
Ahead ==
  LET q == Last(Program, job.pc) IN
  /\ Seen(q) => work = db
  /\ ~ Seen(q) => ~ Refused(q, db) /\ work = Effect(q, db)
  /\ version = 14 /\ job.dir = "up" /\ job.pc > 1 => RetryColumn \in work.has
Beginning == work = CASE job.pc = 1 -> NoSchema [] job.pc = 2 -> First [] OTHER -> Second

JobInv ==
  IF job.dir = "idle" THEN work = db
  ELSE /\ IF job.dir = "up" THEN version < 15 ELSE version > 0
       /\ job.pc \in 1 .. Len(Program) + 1
       /\ IF version = 0 THEN Beginning ELSE Ahead

\* A valid index keeps duplicates out before the constraint does.
UniqueInv == version >= 10 \/ db.idx[PaymentIndex].state = "valid" => PaymentConstraint \notin broken

SchemaInv == Typed /\ Fits(db, version) /\ JobInv /\ UniqueInv /\ errors \subseteq Refusals

-----------------------------------------------------------------------------
(* Where a run stands. *)

LEMMA StartsFitting == AlembicInit => SchemaInv
<1> SUFFICES ASSUME AlembicInit PROVE SchemaInv
  OBVIOUS
<1>1. NoSchema \in Schemas /\ Fits(NoSchema, 0)
  BY EmptyFits
<1>2. PaymentIndex \in IndexNames
  BY OtherIndexes
<1>3. NoSchema.idx[PaymentIndex].state = "absent"
  BY <1>2 DEF NoSchema, NoIndex
<1>4. Typed
  BY <1>1, MigrationsAssumption DEF AlembicInit, Typed, NoRun
<1>5. JobInv
  BY DEF AlembicInit, JobInv, NoRun
<1> QED
  BY <1>1, <1>3, <1>4, <1>5 DEF AlembicInit, SchemaInv, UniqueInv

LEMMA SameRun ==
  ASSUME version' = version, job'.dir = job.dir
  PROVE  Program' = Program /\ Revision' = Revision
BY DEF Program, Revision

LEMMA AtWork ==
  ASSUME SchemaInv, Running, version > 0
  PROVE  /\ Shape(Program, job.dir, Revision) /\ Len(Program) \in Nat
         /\ Revision \in 1 .. 15 /\ Before(job.dir, Revision) = version
         /\ job.pc \in 1 .. Len(Program) + 1 /\ Ahead
<1>1. /\ version \in 1 .. 15 /\ job.dir \in {"up", "down"}
      /\ IF job.dir = "up" THEN version < 15 ELSE version > 0
      /\ job.pc \in 1 .. Len(Program) + 1 /\ Ahead
  BY DEF SchemaInv, Typed, JobInv, Running
<1>2. CASE job.dir = "up"
  <2>1. Program = Upgrade[version + 1] /\ Revision = version + 1 /\ version + 1 \in 2 .. 15
    BY <1>1, <1>2 DEF Program, Revision
  <2>2. Shape(Program, job.dir, Revision)
    BY <1>2, <2>1, UpShapes
  <2>3. Before(job.dir, Revision) = version
    BY <1>1, <1>2, <2>1 DEF Before
  <2> QED
    BY <1>1, <2>1, <2>2, <2>3 DEF Shape
<1>3. CASE job.dir = "down"
  <2>1. Program = Downgrade[version] /\ Revision = version
    BY <1>3 DEF Program, Revision
  <2>2. Shape(Program, job.dir, Revision)
    BY <1>1, <1>3, <2>1, DownShapes
  <2>3. Before(job.dir, Revision) = version
    BY <1>3, <2>1 DEF Before
  <2> QED
    BY <1>1, <2>1, <2>2, <2>3 DEF Shape
<1> QED
  BY <1>1, <1>2, <1>3

LEMMA LastWellFormed ==
  ASSUME SchemaInv, Running, version > 0
  PROVE  WellFormed(Last(Program, job.pc))
<1>1. /\ Shape(Program, job.dir, Revision) /\ Len(Program) \in Nat
      /\ job.pc \in 1 .. Len(Program) + 1
  BY AtWork
<1>2. CASE job.pc = 1
  BY <1>2, SeenStatements DEF Last
<1>3. CASE job.pc # 1
  <2>1. job.pc - 1 \in 1 .. Len(Program) /\ Last(Program, job.pc) = Program[job.pc - 1]
    BY <1>1, <1>3 DEF Last
  <2>2. StatementFits(Last(Program, job.pc - 1), Program[job.pc - 1], job.dir, Revision)
    BY <1>1, <2>1 DEF Shape
  <2> QED
    BY <2>1, <2>2 DEF StatementFits
<1> QED
  BY <1>2, <1>3

LEMMA AtWorkStatement ==
  ASSUME SchemaInv, AtStatement, version > 0
  PROVE  LET q == Last(Program, job.pc) IN
         /\ StatementFits(q, Statement, job.dir, Revision) /\ WellFormed(Statement)
         /\ job.pc \in 1 .. Len(Program)
         /\ Last(Program, job.pc + 1) = Statement
         /\ Seen(q) => work = db
         /\ Seen(Statement) \/ work = db
         /\ Statement.op \in {"build", "dropindex"} => work = db
         /\ ~ Seen(q) => WellFormed(q) /\ work = Effect(q, db)
<1>1. /\ Shape(Program, job.dir, Revision) /\ Len(Program) \in Nat
      /\ job.pc \in 1 .. Len(Program) + 1 /\ Ahead
  BY AtWork DEF AtStatement
<1>2. job.pc \in 1 .. Len(Program) /\ Statement = Program[job.pc]
  BY <1>1 DEF AtStatement, Statement
<1> DEFINE q == Last(Program, job.pc)
<1>3. StatementFits(q, Statement, job.dir, Revision)
  BY <1>1, <1>2 DEF Shape
<1>4. job.pc + 1 # 1 /\ (job.pc + 1) - 1 = job.pc
  BY <1>2
<1>5. Last(Program, job.pc + 1) = Statement
  BY <1>2, <1>4 DEF Last
<1>6. Seen(q) => work = db
  BY <1>1 DEF Ahead
<1>7. WellFormed(q)
  BY LastWellFormed DEF AtStatement
<1>8. ~ Seen(q) => work = Effect(q, db)
  BY <1>1 DEF Ahead
<1> QED
  BY <1>2, <1>3, <1>5, <1>6, <1>7, <1>8 DEF StatementFits

\* The run that leaves the first revision has its own statements.
LEMMA AtBaseline ==
  ASSUME SchemaInv, Running, version = 0
  PROVE  /\ job.dir = "up" /\ Program = <<baseline_core, baseline_rest>> /\ Revision = 1
         /\ job.pc \in 1 .. 3 /\ Beginning /\ db = NoSchema
<1>1. job.dir = "up"
  BY DEF SchemaInv, Typed, JobInv, Running
<1>2. Program = <<baseline_core, baseline_rest>> /\ Revision = 1
  BY <1>1 DEF Program, Revision, Upgrade
<1>3. Len(Program) = 2
  BY <1>2
<1>4. job.pc \in 1 .. Len(Program) + 1 /\ Beginning
  BY DEF SchemaInv, JobInv, Running
<1>5. db = NoSchema
  BY DEF SchemaInv, Fits
<1> QED
  BY <1>1, <1>2, <1>3, <1>4, <1>5

LEMMA AtBaselineStatement ==
  ASSUME SchemaInv, AtStatement, version = 0
  PROVE  /\ Statement.op = "create" /\ ~ Refused(Statement, work) /\ job.pc \in {1, 2}
         /\ Bare(Statement)
         /\ Effect(Statement, work) = IF job.pc = 1 THEN First ELSE Second
<1>1. /\ Program = <<baseline_core, baseline_rest>>
      /\ job.pc \in 1 .. 3 /\ Beginning
  BY AtBaseline DEF AtStatement
<1>2. job.pc = 1 \/ job.pc = 2
  BY <1>1 DEF AtStatement
<1>3. CASE job.pc = 1
  <2>1. Statement = baseline_core /\ work = NoSchema
    BY <1>1, <1>3 DEF Statement, Beginning
  <2> QED
    BY <1>3, <2>1, Baseline DEF First
<1>4. CASE job.pc = 2
  <2>1. Statement = baseline_rest /\ work = First
    BY <1>1, <1>4 DEF Statement, Beginning
  <2> QED
    BY <1>4, <2>1, Baseline DEF Second
<1> QED
  BY <1>2, <1>3, <1>4

\* Nothing is refused but what the revisions say.
LEMMA ListedRefusals ==
  ASSUME SchemaInv, AtStatement,
         \/ Refused(Statement, work) \/ Contradicted(Statement)
         \/ Statement.op = "build" /\ Statement.unique
  PROVE  <<job.dir, Revision>> \in Refusals
<1>3. Bare(Statement) => ~ Contradicted(Statement)
  BY DEF Bare, Contradicted, SchemaInv, Typed
<1>1. CASE version = 0
  BY <1>1, <1>3, AtBaselineStatement
<1>2. CASE version # 0
  <2>0. version > 0 /\ Running /\ db \in Schemas /\ Fits(db, version)
    BY <1>2 DEF SchemaInv, Typed, AtStatement
  <2> DEFINE q == Last(Program, job.pc)
  <2>1. StatementFits(q, Statement, job.dir, Revision) /\ (Seen(Statement) \/ work = db)
    BY <2>0, AtWorkStatement
  <2>2. Before(job.dir, Revision) = version
    BY <2>0, AtWork
  <2>3. Seen(Statement) => ~ Refused(Statement, work)
    BY SeenStatements
  <2> HIDE DEF q
  <2>4. \/ <<job.dir, Revision>> \in Refusals
        \/ /\ \A s \in Schemas : Fits(s, version) => ~ Refused(Statement, s)
           /\ Statement.op = "build" => ~ Statement.unique
           /\ Bare(Statement)
    BY <2>1, <2>2 DEF StatementFits
  <2> QED
    BY <1>3, <2>0, <2>1, <2>3, <2>4
<1> QED
  BY <1>1, <1>2

\* The column of the last revision is there from its first statement on.
LEMMA RetryColumnStays ==
  ASSUME SchemaInv, AtStatement, version = 14, job.dir = "up", work \in Schemas
  PROVE  RetryColumn \in Effect(Statement, work).has
<1>1. Program = w1_06a /\ 14 + 1 = 15
  BY DEF Program, Revision, Upgrade
<1>2. /\ Program[1] = Create({RetryColumn}, {RetryKey}, {}) /\ Program[2] = COMMIT
      /\ Program[3] = Build(RetryIndex, FALSE) /\ Len(Program) = 3
  BY <1>1 DEF w1_06a
<1>3. /\ job.pc \in 1 .. Len(Program) /\ Statement = Program[job.pc]
      /\ job.pc > 1 => RetryColumn \in work.has
  BY AtWork, AtWorkStatement DEF AtStatement, Statement, Ahead
<1>4. CASE job.pc = 1
  <2>1. Statement.op = "create" /\ Statement.names = {RetryColumn}
    BY <1>2, <1>3, <1>4 DEF Create
  <2> QED
    BY <2>1 DEF Effect
<1>5. CASE job.pc # 1
  <2>1. Statement.op \in {"commit", "build"}
    BY <1>2, <1>3, <1>5 DEF COMMIT, Build
  <2>2. Effect(Statement, work) = work
    BY <2>1 DEF Effect
  <2> QED
    BY <1>2, <1>3, <1>5, <2>2
<1> QED
  BY <1>4, <1>5

LEMMA Indexed ==
  ASSUME NEW s \in Schemas, NEW v \in 1 .. 15, Fits(s, v), NEW n \in IndexNames, NEW x \in Index,
         n = PaymentIndex => x.unique
  PROVE  LET t == [s EXCEPT !.idx[n] = x] IN
         /\ t \in Schemas /\ Fits(t, v) /\ t.has = s.has
         /\ t.idx[PaymentIndex] = IF n = PaymentIndex THEN x ELSE s.idx[PaymentIndex]
<1> DEFINE i == [s.idx EXCEPT ![n] = x]
           t == [s EXCEPT !.idx[n] = x]
<1>0. PaymentIndex \in IndexNames
  BY OtherIndexes
<1>1. t = [has |-> s.has, fk |-> s.fk, idx |-> i]
  BY DEF Schemas
<1>2. i \in [IndexNames -> Index]
  BY DEF Schemas
<1>3. i[PaymentIndex] = IF n = PaymentIndex THEN x ELSE s.idx[PaymentIndex]
  BY <1>0 DEF Schemas
<1> HIDE DEF i, t
<1>4. t.has = s.has /\ t.fk = s.fk /\ t.idx = i
  BY <1>1
<1>5. t \in Schemas
  BY <1>1, <1>2 DEF Schemas
<1>6. Present(t, PaymentIndex) => t.idx[PaymentIndex].unique
  BY <1>3, <1>4 DEF Fits, Present
<1>7. Fits(t, v)
  BY <1>4, <1>6 DEF Fits
<1> QED
  BY <1>3, <1>4, <1>5, <1>7 DEF t

-----------------------------------------------------------------------------
(* Every step keeps the invariant. *)

LEMMA NothingRuns ==
  ASSUME Typed', Fits(db, version)', UniqueInv', errors' \subseteq Refusals, work' = db',
         job' = NoRun
  PROVE  SchemaInv'
BY DEF SchemaInv, JobInv, NoRun

LEMMA RunEnds ==
  ASSUME SchemaInv, job' = NoRun, work' = db, UNCHANGED <<version, db, broken>>,
         crashes' \in 0 .. MaxCrashes, reversals' = reversals, errors' \subseteq Refusals
  PROVE  SchemaInv'
<1>1. NoRun \in [dir : {"idle", "up", "down"}, pc : Nat, creating : BOOLEAN]
  BY DEF NoRun
<1>2. Typed'
  BY <1>1 DEF SchemaInv, Typed
<1> QED
  BY <1>2, NothingRuns DEF SchemaInv, UniqueInv, Fits

\* A revision begins with nothing open, after a start or after another one.
LEMMA RevisionBegins ==
  ASSUME Typed', Fits(db, version)', UniqueInv', errors' \subseteq Refusals, work' = db',
         NEW d \in {"up", "down"}, job' = At(d), IF d = "up" THEN version' < 15 ELSE version' > 0
  PROVE  SchemaInv'
<1>1. job'.dir = d /\ job'.pc = 1 /\ job'.creating = FALSE
  BY DEF At
<1>2. Len(Program)' \in Nat
  <2>1. CASE d = "down"
    <3>1. Program' = Downgrade[version'] /\ version' \in 1 .. 15
      BY <1>1, <2>1 DEF Program, Revision, Typed
    <3> QED
      BY <3>1, DownShapes DEF Shape
  <2>2. CASE d = "up" /\ version' > 0
    <3>1. Program' = Upgrade[version' + 1]
      BY <1>1, <2>2 DEF Program, Revision
    <3>2. version' \in 0 .. 15 /\ version' < 15 /\ version' > 0
      BY <2>2 DEF Typed
    <3>3. PICK n \in 1 .. 14 : n = version'
      BY <3>2
    <3>4. n + 1 \in 2 .. 15
      OBVIOUS
    <3> QED
      BY <3>1, <3>3, <3>4, UpShapes DEF Shape
  <2>3. CASE d = "up" /\ ~ version' > 0
    <3>1. version' = 0
      BY <2>3 DEF Typed
    <3>2. Program' = <<baseline_core, baseline_rest>>
      BY <1>1, <2>3, <3>1 DEF Program, Revision, Upgrade
    <3> QED
      BY <3>2
  <2> QED
    BY <2>1, <2>2, <2>3
<1>3. Ahead'
  <2>1. Last(Program, job.pc)' = COMMIT
    BY <1>1 DEF Last
  <2> QED
    BY <1>1, <2>1, SeenStatements DEF Ahead
<1>4. version' = 0 => Beginning'
  BY <1>1 DEF Beginning, Fits
<1>5. JobInv'
  BY <1>1, <1>2, <1>3, <1>4 DEF JobInv
<1> QED
  BY <1>5 DEF SchemaInv

LEMMA UpgradeFits == ASSUME SchemaInv, UpgradeHead PROVE SchemaInv'
<1>1. At("up") \in [dir : {"idle", "up", "down"}, pc : Nat, creating : BOOLEAN]
  BY DEF At
<1>2. Typed' /\ version' < 15
  BY <1>1, Revisions DEF SchemaInv, Typed, UpgradeHead
<1> QED
  BY <1>2, RevisionBegins DEF SchemaInv, UpgradeHead, UniqueInv, Fits

LEMMA DowngradeFits == ASSUME SchemaInv, DowngradeSome PROVE SchemaInv'
<1>1. At("down") \in [dir : {"idle", "up", "down"}, pc : Nat, creating : BOOLEAN]
  BY DEF At
<1>2. Typed' /\ version' > 0
  BY <1>1, MigrationsAssumption DEF SchemaInv, Typed, DowngradeSome
<1> QED
  BY <1>2, RevisionBegins DEF SchemaInv, DowngradeSome, UniqueInv, Fits

LEMMA CrashFits == ASSUME SchemaInv, Crash PROVE SchemaInv'
<1>1. crashes' \in 0 .. MaxCrashes
  BY MigrationsAssumption DEF SchemaInv, Typed, Crash
<1> QED
  BY <1>1, RunEnds DEF Crash, SchemaInv

LEMMA RefuseFits == ASSUME SchemaInv, Refuse PROVE SchemaInv'
<1>1. <<job.dir, Revision>> \in Refusals
  BY ListedRefusals DEF Refuse
<1> QED
  BY <1>1, RunEnds DEF Refuse, Stop, SchemaInv, Typed

\* The next statement of a revision that goes on.
LEMMA GoesOn ==
  ASSUME SchemaInv, AtStatement, NEW c \in BOOLEAN, NEW k \in {job.pc, job.pc + 1},
         job' = [job EXCEPT !.pc = k, !.creating = c], version > 0,
         UNCHANGED <<version, errors, broken, crashes, reversals>>,
         db' \in Schemas, work' \in Schemas, Fits(db, version)', UniqueInv',
         Seen(Statement) => work' = db',
         ~ Seen(Statement) => k = job.pc + 1 /\ ~ Refused(Statement, db') /\ work' = Effect(Statement, db'),
         k = job.pc => Seen(Last(Program, job.pc)) /\ work' = db',
         version = 14 /\ job.dir = "up" => RetryColumn \in work'.has
  PROVE  SchemaInv'
<1>0. job \in [dir : {"idle", "up", "down"}, pc : Nat, creating : BOOLEAN] /\ Running
  BY DEF SchemaInv, Typed, AtStatement
<1>1. job' \in [dir : {"idle", "up", "down"}, pc : Nat, creating : BOOLEAN]
      /\ job'.dir = job.dir /\ job'.pc = k
  <2>1. k \in Nat
    BY <1>0
  <2>2. job' = [dir |-> job.dir, pc |-> k, creating |-> c]
    BY <1>0
  <2> QED
    BY <1>0, <2>1, <2>2
<1>2. Program' = Program /\ job.pc \in 1 .. Len(Program) /\ Len(Program) \in Nat
      /\ Last(Program, job.pc + 1) = Statement
  BY <1>0, <1>1, SameRun, AtWork, AtWorkStatement
<1>3. Typed'
  BY <1>1 DEF SchemaInv, Typed
<1>4. Ahead'
  <2>1. CASE k = job.pc
    <3>1. Last(Program, job.pc)' = Last(Program, job.pc)
      BY <1>1, <1>2, <2>1
    <3> QED
      BY <1>1, <2>1, <3>1 DEF Ahead
  <2>2. CASE k = job.pc + 1
    <3>1. Last(Program, job.pc)' = Statement
      BY <1>1, <1>2, <2>2
    <3> QED
      BY <1>1, <2>2, <3>1 DEF Ahead
  <2> QED
    BY <2>1, <2>2
<1>5. JobInv'
  <2>1. job'.pc \in 1 .. Len(Program') + 1
    BY <1>1, <1>2
  <2>2. IF job.dir = "up" THEN version < 15 ELSE version > 0
    BY <1>0 DEF SchemaInv, JobInv, Running
  <2> QED
    BY <1>0, <1>1, <1>4, <2>1, <2>2 DEF JobInv, Running
<1> QED
  BY <1>3, <1>5 DEF SchemaInv

LEMMA FirstGoesOn == ASSUME SchemaInv, Execute, version = 0 PROVE SchemaInv'
<1>0. job \in [dir : {"idle", "up", "down"}, pc : Nat, creating : BOOLEAN] /\ AtStatement /\ Running
  BY DEF SchemaInv, Typed, Execute, AtStatement
<1>1. /\ Statement.op = "create" /\ job.pc \in {1, 2} /\ job.dir = "up"
      /\ Effect(Statement, work) = IF job.pc = 1 THEN First ELSE Second
  BY <1>0, AtBaseline, AtBaselineStatement
<1>2. /\ db' = db /\ work' = (IF job.pc = 1 THEN First ELSE Second)
      /\ job' = [job EXCEPT !.pc = @ + 1, !.creating = FALSE]
      /\ UNCHANGED <<version, errors, broken, crashes, reversals>>
  BY <1>1 DEF Execute, Autocommitted, NextStatement
<1>3. /\ job' \in [dir : {"idle", "up", "down"}, pc : Nat, creating : BOOLEAN]
      /\ job'.dir = job.dir /\ job'.pc = job.pc + 1
  <2>1. job.pc + 1 \in Nat
    BY <1>0
  <2>2. job' = [dir |-> job.dir, pc |-> job.pc + 1, creating |-> FALSE]
    BY <1>0, <1>2
  <2> QED
    BY <1>0, <2>1, <2>2
<1>4. Typed'
  BY <1>2, <1>3, Baseline DEF SchemaInv, Typed
<1>5. Program' = Program /\ Len(Program) = 2
  BY <1>0, <1>2, <1>3, SameRun, AtBaseline
<1>6. Beginning' /\ job'.pc \in 1 .. Len(Program') + 1
  BY <1>1, <1>2, <1>3, <1>5 DEF Beginning
<1>7. JobInv'
  BY <1>1, <1>2, <1>3, <1>6 DEF JobInv
<1> QED
  BY <1>2, <1>4, <1>7 DEF SchemaInv, UniqueInv, Fits

LEMMA ExecuteFits == ASSUME SchemaInv, Execute PROVE SchemaInv'
<1>1. CASE version = 0
  BY <1>1, FirstGoesOn
<1>2. CASE version # 0
  <2> DEFINE q == Last(Program, job.pc)
             st == Statement
             e == Effect(st, work)
  <2>1. /\ version > 0 /\ version \in 1 .. 15 /\ db \in Schemas /\ work \in Schemas
        /\ Fits(db, version) /\ UniqueInv /\ AtStatement /\ Running
    BY <1>2 DEF SchemaInv, Typed, Execute, AtStatement
  <2>2. /\ StatementFits(q, st, job.dir, Revision) /\ WellFormed(st)
        /\ Seen(q) => work = db
        /\ Seen(st) \/ work = db
        /\ st.op \in {"build", "dropindex"} => work = db
        /\ ~ Seen(q) => WellFormed(q) /\ work = Effect(q, db)
    BY <2>1, AtWorkStatement
  <2>3. Before(job.dir, Revision) = version
    BY <2>1, AtWork
  <2>4. e \in Schemas
    BY <2>1, <2>2, EffectTyped
  <2>5. version = 14 /\ job.dir = "up" => RetryColumn \in e.has
    BY <2>1, RetryColumnStays
  <2>6. /\ work' = e /\ ~ Refused(st, work)
        /\ db' = CASE st.op = "commit" -> work
                   [] Autocommitted(st) -> work'
                   [] OTHER -> db
        /\ job' = [job EXCEPT !.pc = job.pc + 1, !.creating = FALSE]
        /\ UNCHANGED <<version, errors, broken, crashes, reversals>>
    BY DEF Execute, NextStatement
  <2>7. PaymentIndex \in IndexNames /\ NoIndex \in Index /\ NoIndex.state # "valid"
    BY OtherIndexes DEF NoIndex, Index, IndexState
  <2>8. SUFFICES /\ db' \in Schemas /\ Fits(db', version)
                 /\ db'.idx[PaymentIndex] \in {db.idx[PaymentIndex], NoIndex}
                 /\ Seen(st) => work' = db'
                 /\ ~ Seen(st) => ~ Refused(st, db') /\ work' = Effect(st, db')
    <3>1. UniqueInv'
      BY <2>1, <2>6, <2>7, <2>8 DEF UniqueInv
    <3>2. Fits(db, version)'
      BY <2>6, <2>8 DEF Fits
    <3>3. job.pc + 1 # job.pc
      BY DEF SchemaInv, Typed
    <3>4. work' \in Schemas /\ (version = 14 /\ job.dir = "up" => RetryColumn \in work'.has)
      BY <2>4, <2>5, <2>6
    <3> HIDE DEF e, q
    <3> QED
      BY <2>1, <2>6, <2>8, <3>1, <3>2, <3>3, <3>4, GoesOn
  <2>9. CASE st.op = "commit"
    <3>1. work' = work /\ db' = work /\ Seen(st)
      BY <2>6, <2>9 DEF Effect, Seen
    <3>2. CASE Seen(q)
      BY <2>1, <2>2, <3>1, <3>2
    <3>3. CASE ~ Seen(q)
      <4>1. \A s \in Schemas : Fits(s, version) => Fits(Effect(q, s), version)
        BY <2>2, <2>3, <2>9, <3>3 DEF StatementFits
      <4>2. Effect(q, db).idx[PaymentIndex] \in {db.idx[PaymentIndex], NoIndex}
        BY <2>1, <2>2, <3>3, EffectTyped
      <4> QED
        BY <2>1, <2>2, <3>1, <3>3, <4>1, <4>2
    <3> QED
      BY <3>2, <3>3
  <2>10. CASE st.op = "build"
    <3>1. work' = db /\ db' = db
      BY <2>2, <2>6, <2>10 DEF Effect, Autocommitted
    <3> QED
      BY <2>1, <2>10, <3>1 DEF Seen
  <2>11. CASE st.op = "dropindex"
    <3>1. work' = [db EXCEPT !.idx[st.index] = NoIndex] /\ db' = work' /\ Seen(st)
      BY <2>2, <2>6, <2>11 DEF Effect, Autocommitted, Seen
    <3>2. PICK n \in IndexNames : n = st.index /\ n # PaymentIndex
      BY <2>2, <2>11 DEF WellFormed, Others
    <3> DEFINE t == [db EXCEPT !.idx[n] = NoIndex]
    <3>3. n = PaymentIndex => NoIndex.unique
      BY <3>2
    <3>4. t \in Schemas /\ Fits(t, version) /\ t.idx[PaymentIndex] = db.idx[PaymentIndex]
      <4>1. /\ t \in Schemas /\ Fits(t, version)
            /\ t.idx[PaymentIndex] = IF n = PaymentIndex THEN NoIndex ELSE db.idx[PaymentIndex]
        BY <2>1, <2>7, <3>3, Indexed
      <4> QED
        BY <3>2, <4>1
    <3> QED
      BY <3>1, <3>2, <3>4
  <2>12. CASE st.op \notin {"commit", "build", "dropindex"}
    <3>1. ~ Seen(st) /\ db' = db
      BY <2>6, <2>12 DEF Seen, Autocommitted
    <3> QED
      BY <2>1, <2>2, <2>6, <3>1
  <2> QED
    BY <2>9, <2>10, <2>11, <2>12
<1> QED
  BY <1>1, <1>2

\* A step of the building of an index.
LEMMA PutFits ==
  ASSUME SchemaInv, AtStatement, Statement.op = "build", NEW state \in IndexState, Put(state),
         state = "valid" /\ Statement.unique /\ Statement.index = PaymentIndex
           => PaymentConstraint \notin broken,
         NEW c \in BOOLEAN, NEW k \in {job.pc, job.pc + 1},
         job' = [job EXCEPT !.pc = k, !.creating = c],
         UNCHANGED <<version, errors, broken, crashes, reversals>>
  PROVE  SchemaInv'
<1> DEFINE q == Last(Program, job.pc)
           x == [state |-> state, unique |-> Statement.unique]
<1>0. version > 0 /\ version \in 1 .. 15
  BY AtBaselineStatement DEF SchemaInv, Typed
<1>1. /\ db \in Schemas /\ work \in Schemas /\ Fits(db, version) /\ UniqueInv
      /\ job \in [dir : {"idle", "up", "down"}, pc : Nat, creating : BOOLEAN]
  BY DEF SchemaInv, Typed
<1>2. /\ StatementFits(q, Statement, job.dir, Revision) /\ WellFormed(Statement)
      /\ Seen(Statement) /\ work = db
  BY <1>0, AtWorkStatement DEF Seen
<1>3. Seen(q)
  BY <1>2 DEF StatementFits
<1>4. /\ Statement.index \in IndexNames /\ Statement.unique \in BOOLEAN
      /\ Statement.index = PaymentIndex => Statement.unique
  BY <1>2 DEF WellFormed
<1>5. x \in Index /\ x.state = state /\ x.unique = Statement.unique
  BY <1>4 DEF Index
<1>6. work' = db' /\ db' = [db EXCEPT !.idx[Statement.index] = x]
  BY DEF Put
<1> HIDE DEF x
<1>7. /\ db' \in Schemas /\ Fits(db', version) /\ db'.has = db.has
      /\ db'.idx[PaymentIndex] = IF Statement.index = PaymentIndex THEN x
                                                                   ELSE db.idx[PaymentIndex]
  <2>1. PICK n \in IndexNames : n = Statement.index
    BY <1>4
  <2>2. n = PaymentIndex => x.unique
    BY <1>4, <1>5, <2>1
  <2> DEFINE t == [db EXCEPT !.idx[n] = x]
  <2>3. /\ t \in Schemas /\ Fits(t, version) /\ t.has = db.has
        /\ t.idx[PaymentIndex] = IF n = PaymentIndex THEN x ELSE db.idx[PaymentIndex]
    BY <1>0, <1>1, <1>5, <2>2, Indexed
  <2> QED
    BY <1>6, <2>1, <2>3
<1>8. UniqueInv'
  BY <1>1, <1>4, <1>5, <1>7 DEF UniqueInv
<1>9. Fits(db, version)'
  BY <1>7 DEF Fits
<1>10. version = 14 /\ job.dir = "up" => RetryColumn \in work'.has
  <2>1. Effect(Statement, work) = work
    BY DEF Effect
  <2> QED
    BY <1>1, <1>2, <1>6, <1>7, <2>1, RetryColumnStays
<1> QED
  BY <1>0, <1>2, <1>3, <1>6, <1>7, <1>8, <1>9, <1>10, GoesOn

LEMMA BuildStartsFits == ASSUME SchemaInv, BuildStarts PROVE SchemaInv'
<1>1. /\ AtStatement /\ Statement.op = "build" /\ Put("building")
      /\ UNCHANGED <<version, errors, broken, crashes, reversals>>
  BY DEF BuildStarts
<1>2. job' = [job EXCEPT !.pc = job.pc, !.creating = TRUE]
  BY DEF BuildStarts, SchemaInv, Typed
<1>3. "building" \in IndexState /\ "building" # "valid"
  BY DEF IndexState
<1> QED
  BY <1>1, <1>2, <1>3, PutFits

LEMMA BuildGoesOnFits ==
  ASSUME SchemaInv, NEW from, NEW to \in IndexState, to = "valid" => from # "built",
         BuildGoesOn(from, to)
  PROVE  SchemaInv'
<1>1. AtStatement /\ Statement.op = "build" /\ UNCHANGED <<version, broken, crashes, reversals>>
  BY DEF BuildGoesOn
<1>2. CASE from # "built" /\ Duplicated(Statement.index)
  <2>1. Stop /\ db' = db /\ Statement.unique
    BY <1>2 DEF BuildGoesOn, Duplicated
  <2>2. <<job.dir, Revision>> \in Refusals
    BY <1>1, <2>1, ListedRefusals
  <2> QED
    BY <1>1, <2>1, <2>2, RunEnds DEF Stop, SchemaInv, Typed
<1>3. CASE ~ (from # "built" /\ Duplicated(Statement.index))
  <2>1. Put(to) /\ errors' = errors
    BY <1>3 DEF BuildGoesOn
  <2>2. to = "valid" /\ Statement.unique /\ Statement.index = PaymentIndex
           => PaymentConstraint \notin broken
    BY <1>3 DEF Duplicated, RuleOf
  <2>3. CASE to = "valid"
    <3>1. job' = [job EXCEPT !.pc = job.pc + 1, !.creating = FALSE]
      BY <1>3, <2>3 DEF BuildGoesOn, NextStatement
    <3> QED
      BY <1>1, <2>1, <2>2, <3>1, PutFits
  <2>4. CASE to # "valid"
    <3>1. job' = job
      BY <1>3, <2>4 DEF BuildGoesOn
    <3>2. job' = [job EXCEPT !.pc = job.pc, !.creating = job.creating] /\ job.creating \in BOOLEAN
      BY <3>1 DEF SchemaInv, Typed
    <3> QED
      BY <1>1, <2>1, <2>2, <3>2, PutFits
  <2> QED
    BY <2>3, <2>4
<1> QED
  BY <1>2, <1>3

\* What the last transaction leaves, and when it makes the index a constraint.
LEMMA LastTransaction ==
  ASSUME SchemaInv, Running, version > 0, job.pc > Len(Program)
  PROVE  /\ Fits(work, After(job.dir, Revision))
         /\ work.idx[PaymentIndex] \in {db.idx[PaymentIndex], NoIndex}
         /\ version = 9 /\ job.dir = "up" => db.idx[PaymentIndex].state = "valid"
<1> DEFINE q == Last(Program, job.pc)
<1>1. /\ Shape(Program, job.dir, Revision) /\ Before(job.dir, Revision) = version
      /\ job.pc = Len(Program) + 1 /\ Ahead /\ WellFormed(q)
      /\ db \in Schemas /\ work \in Schemas /\ Fits(db, version)
  BY AtWork, LastWellFormed DEF SchemaInv, Typed
<1>2. EndFits(q, job.dir, Revision)
  BY <1>1 DEF Shape
<1>3. /\ Seen(q) => work = db
      /\ ~ Seen(q) => ~ Refused(q, db) /\ work = Effect(q, db)
      /\ version = 14 /\ job.dir = "up" /\ job.pc > 1 => RetryColumn \in work.has
  BY <1>1 DEF Ahead
<1>4. job.dir = "up" /\ Revision = 15 => RetryColumn \in work.has
  <2> SUFFICES ASSUME job.dir = "up", Revision = 15 PROVE RetryColumn \in work.has
    OBVIOUS
  <2>1. version = 14
    BY <1>1 DEF Before
  <2>2. Program = w1_06a
    BY DEF Program, Upgrade
  <2>3. Len(Program) = 3
    BY <2>2 DEF w1_06a
  <2> QED
    BY <1>1, <1>3, <2>1, <2>3
<1>5. version = 9 /\ job.dir = "up" => db.idx[PaymentIndex].state = "valid"
  <2> SUFFICES ASSUME version = 9, job.dir = "up" PROVE db.idx[PaymentIndex].state = "valid"
    OBVIOUS
  <2>1. Program = w1_01a
    BY DEF Program, Revision, Upgrade
  <2>2. Len(Program) = 3 /\ Program[3] = UseIndex(PaymentIndex, PaymentConstraint)
    BY <2>1 DEF w1_01a
  <2>3. q = UseIndex(PaymentIndex, PaymentConstraint)
    BY <1>1, <2>2 DEF Last
  <2>4. q.op = "useindex" /\ q.index = PaymentIndex
    BY <2>3 DEF UseIndex
  <2> QED
    BY <1>3, <2>4 DEF Seen, Refused
<1> HIDE DEF q
<1>6. CASE Seen(q)
  BY <1>1, <1>2, <1>3, <1>4, <1>5, <1>6 DEF EndFits
<1>7. CASE ~ Seen(q)
  <2>1. Effect(q, db).idx[PaymentIndex] \in {db.idx[PaymentIndex], NoIndex}
    BY <1>1, EffectTyped
  <2> QED
    BY <1>1, <1>2, <1>3, <1>5, <1>7, <2>1 DEF EndFits
<1> QED
  BY <1>6, <1>7

LEMMA StampFits == ASSUME SchemaInv, Stamp PROVE SchemaInv'
<1>1. /\ Running /\ job.pc > Len(Program) /\ db' = work /\ work' = work
      /\ UNCHANGED <<errors, crashes, reversals>> /\ broken' \subseteq broken
      /\ version \in 0 .. 15 /\ work \in Schemas /\ UniqueInv /\ job.dir \in {"up", "down"}
      /\ IF job.dir = "up" THEN version < 15 ELSE version > 0
  BY DEF Stamp, SchemaInv, Typed, JobInv, Running
<1>2. /\ version' = IF job.dir = "up" THEN version + 1 ELSE version - 1
      /\ \/ job' = NoRun
         \/ job' = At("up") /\ job.dir = "up" /\ version' # 15
         \/ job' = At("down") /\ job.dir = "down" /\ version' > 0
  BY <1>1, Revisions DEF Stamp
<1>3. version' \in 0 .. 15
  BY <1>1, <1>2
<1>4. \A d \in {"up", "down"} : /\ At(d) \in [dir : {"idle", "up", "down"}, pc : Nat, creating : BOOLEAN]
                               /\ NoRun \in [dir : {"idle", "up", "down"}, pc : Nat, creating : BOOLEAN]
  BY DEF At, NoRun
<1>5. Typed'
  BY <1>1, <1>2, <1>3, <1>4 DEF SchemaInv, Typed
<1>6. /\ Fits(work, version')
      /\ work.idx[PaymentIndex] \in {db.idx[PaymentIndex], NoIndex}
      /\ version = 9 /\ job.dir = "up" => db.idx[PaymentIndex].state = "valid"
  <2>1. CASE version = 0
    <3>1. Program = <<baseline_core, baseline_rest>> /\ job.pc \in 1 .. 3 /\ Beginning
          /\ job.dir = "up" /\ db = NoSchema
      BY <1>1, <2>1, AtBaseline
    <3>2. work = Second /\ version' = 1
      BY <1>1, <1>2, <2>1, <3>1 DEF Beginning
    <3> QED
      BY <2>1, <3>2, Baseline
  <2>2. CASE version # 0
    <3>1. version > 0
      BY <1>1, <2>2
    <3>2. Revision = IF job.dir = "up" THEN version + 1 ELSE version
      BY DEF Revision
    <3>3. After(job.dir, Revision) = version'
      BY <1>2, <3>2 DEF After
    <3> QED
      BY <1>1, <3>1, <3>3, LastTransaction
  <2> QED
    BY <2>1, <2>2
<1>7. UniqueInv'
  <2>1. work.idx[PaymentIndex].state = "valid" => PaymentConstraint \notin broken
    BY <1>1, <1>6 DEF UniqueInv, NoIndex
  <2>2. version' >= 10 => version >= 10 \/ (version = 9 /\ job.dir = "up")
    BY <1>1, <1>2
  <2> QED
    BY <1>1, <1>6, <2>1, <2>2 DEF UniqueInv
<1>8. Fits(db, version)'
  BY <1>1, <1>6 DEF Fits
<1>9. errors' \subseteq Refusals /\ work' = db'
  BY <1>1 DEF SchemaInv
<1>10. job' # NoRun => \E d \in {"up", "down"} : job' = At(d) /\ IF d = "up" THEN version' < 15 ELSE version' > 0
  BY <1>2, <1>3
<1> QED
  BY <1>5, <1>7, <1>8, <1>9, <1>10, NothingRuns, RevisionBegins

\* The index that became the constraint, or one that is valid, is enforced.
LEMMA BreakFits == ASSUME SchemaInv, NEW c \in Rules, BreakRule(c) PROVE SchemaInv'
<1>1. /\ Fits(db, version) /\ version \in 0 .. 15 /\ ~ Enforced(c) /\ broken' = broken \cup {c}
      /\ UNCHANGED <<version, db, work, job, errors, crashes, reversals>>
  BY DEF SchemaInv, Typed, BreakRule
<1>2. c = PaymentConstraint => version < 10 /\ db.idx[PaymentIndex].state # "valid"
  <2> SUFFICES ASSUME c = PaymentConstraint
               PROVE  version < 10 /\ db.idx[PaymentIndex].state # "valid"
    OBVIOUS
  <2>1. PaymentConstraint \in Provides[10] /\ 10 \in 1 .. LastRevision
    BY Revisions DEF Provides
  <2>2. version < 10
    BY <1>1, <2>1 DEF Fits, Enforced
  <2>3. db.idx[PaymentIndex].state = "valid" => db.idx[PaymentIndex].unique
    BY <1>1 DEF Fits, Present
  <2>4. RuleOf(PaymentIndex) = PaymentConstraint
    BY DEF RuleOf
  <2> QED
    BY <1>1, <2>2, <2>3, <2>4 DEF Enforced
<1>3. UniqueInv'
  BY <1>1, <1>2 DEF SchemaInv, UniqueInv
<1>4. Program' = Program
  BY <1>1, SameRun
<1>5. JobInv'
  BY <1>1, <1>4 DEF SchemaInv, JobInv, Ahead, Beginning
<1>6. Typed'
  BY <1>1 DEF SchemaInv, Typed
<1> QED
  BY <1>1, <1>3, <1>5, <1>6 DEF SchemaInv, Fits

LEMMA CleanFits == ASSUME SchemaInv, NEW c, CleanRows(c) PROVE SchemaInv'
<1>1. broken' \subseteq broken /\ UNCHANGED <<version, db, work, job, errors, crashes, reversals>>
  BY DEF CleanRows
<1>2. Program' = Program
  BY <1>1, SameRun
<1> QED
  BY <1>1, <1>2 DEF SchemaInv, JobInv, Ahead, Beginning, Typed, UniqueInv, Fits

LEMMA NothingHappens == ASSUME SchemaInv, UNCHANGED alembic PROVE SchemaInv'
<1>1. UNCHANGED <<version, db, work, job, errors, broken, crashes, reversals>>
  BY DEF alembic
<1>2. Program' = Program
  BY <1>1, SameRun
<1> QED
  BY <1>1, <1>2 DEF SchemaInv, JobInv, Ahead, Beginning, Typed, UniqueInv, Fits

\* Every step of a run, every interruption and every row inserted meanwhile keeps
\* the invariant, which says of the open transaction as well what it may hold.
THEOREM SchemaInvariant == AlembicSpec => []SchemaInv
<1>1. SchemaInv /\ [AlembicNext]_alembic => SchemaInv'
  <2> SUFFICES ASSUME SchemaInv, [AlembicNext]_alembic PROVE SchemaInv'
    OBVIOUS
  <2>1. CASE UpgradeHead
    BY <2>1, UpgradeFits
  <2>2. CASE DowngradeSome
    BY <2>2, DowngradeFits
  <2>3. CASE Execute
    BY <2>3, ExecuteFits
  <2>4. CASE Refuse
    BY <2>4, RefuseFits
  <2>5. CASE BuildStarts
    BY <2>5, BuildStartsFits
  <2>6. CASE BuildScans \/ BuildEnforces \/ BuildValidates
    <3>1. /\ {"built", "enforcing", "valid"} \subseteq IndexState /\ "built" # "valid"
          /\ "enforcing" # "valid" /\ "enforcing" # "built"
      BY DEF IndexState
    <3> QED
      BY <2>6, <3>1, BuildGoesOnFits DEF BuildScans, BuildEnforces, BuildValidates
  <2>7. CASE Stamp
    BY <2>7, StampFits
  <2>8. CASE Crash
    BY <2>8, CrashFits
  <2>9. CASE \E c \in Rules : BreakRule(c) \/ CleanRows(c)
    BY <2>9, BreakFits, CleanFits
  <2>10. CASE UNCHANGED alembic
    BY <2>10, NothingHappens
  <2> QED
    BY <2>1, <2>2, <2>3, <2>4, <2>5, <2>6, <2>7, <2>8, <2>9, <2>10 DEF AlembicNext
<1> QED
  BY <1>1, StartsFitting, PTL DEF AlembicSpec

\* The committed schema is that of the version, however often runs are cut off,
\* refused, repeated and taken back.
THEOREM SchemaKeepsUp == AlembicSpec => []SchemaFollowsVersion
<1>1. SchemaInv => SchemaFollowsVersion
  <2> SUFFICES ASSUME SchemaInv PROVE SchemaFollowsVersion
    OBVIOUS
  <2>1. Fits(db, version) /\ version \in 0 .. 15
    BY DEF SchemaInv, Typed
  <2>2. ASSUME NEW r \in 1 .. LastRevision
        PROVE  /\ r <= version => Provides[r] \subseteq db.has
               /\ r > version => Provides[r] \cap db.has = {}
    <3>1. r > version <=> ~ r <= version
      BY <2>1, Revisions
    <3>2. \A x \in Provides[r] : x \in db.has <=> r <= version
      BY <2>1 DEF Fits
    <3> QED
      BY <3>1, <3>2
  <2>3. ASSUME NEW f \in DOMAIN FK_CHANGES
        PROVE  /\ version >= 14 => db.fk[f] = FK_CHANGES[f]
               /\ version < 14 => db.fk[f] \in {"absent", "NO ACTION"}
    <3>1. db.fk[f] = PolicyAt(f, version)
      BY <2>1 DEF Fits
    <3>2. PICK n \in Nat : n = KeyRevision(f) /\ n < 9
      BY KeyRevisions
    <3>3. version >= 14 => ~ n > version /\ (version < 14 <=> ~ version >= 14)
      BY <2>1, <3>2
    <3>4. version < 14 <=> ~ version >= 14
      BY <2>1
    <3> QED
      BY <3>1, <3>2, <3>3, <3>4 DEF PolicyAt
  <2> QED
    BY <2>2, <2>3 DEF SchemaFollowsVersion
<1> QED
  BY <1>1, SchemaInvariant, PTL

\* No invoice has two rows for a transaction once w1_01a is stamped: the index
\* was valid when it became the constraint, and a valid index lets none in.
THEOREM PaymentsStayUnique == AlembicSpec => []PaymentsAreUnique
<1>1. SchemaInv => PaymentsAreUnique
  BY DEF SchemaInv, UniqueInv, PaymentsAreUnique
<1> QED
  BY <1>1, SchemaInvariant, PTL

\* Only seven of the thirty ways through a revision can be refused: rows contradict
\* what they add, or they commit before they are done.
THEOREM OthersGoThrough == AlembicSpec => []OnlyTheseAreRefused
<1>1. SchemaInv => OnlyTheseAreRefused
  BY DEF SchemaInv, OnlyTheseAreRefused, Refusals
<1> QED
  BY <1>1, SchemaInvariant, PTL
==============================================================================
