------------------------------- MODULE Intake -------------------------------
(***************************************************************************)
(* The creation of invoices (api/routes/invoices.py,                        *)
(* services/invoice_service.py) with the two things it needs from outside   *)
(* the database: the price in Redis (PriceFeed) and a subaddress of the     *)
(* wallet, over a connection that loses answers and is tried again          *)
(* (services/monero_rpc.py).                                                *)
(***************************************************************************)
EXTENDS PriceFeed

CONSTANTS Requests,
          MAX_RETRIES,
          MaxIndex,     \* bound: subaddresses the wallet makes
          None

ASSUME IntakeAssumption ==
  MAX_RETRIES \in Nat \ {0} /\ MaxIndex \in Nat /\ None \notin Nat

VARIABLES req,      \* the requests to create an invoice
          invoice,  \* the committed invoice of each, with its address
          wallet    \* the next subaddress, and the one that was next when the wallet was saved

vars == <<feed, req, invoice, wallet>>
intake == <<req, invoice, wallet>>

\* `rate` tells whether the price was fresh when it was read: all that is asked
\* of the rate here.
Rate == {"fresh", "old", "none"}
NewRequest == [step |-> "new", rate |-> "none", tries |-> 0, index |-> None]

Init ==
  /\ FeedInit
  /\ req = [r \in Requests |-> NewRequest]
  /\ invoice = [r \in Requests |-> None]
  /\ wallet = [next |-> 1, saved |-> 1]

-----------------------------------------------------------------------------
(* A request. *)

\* _get_fiat_rate: what is in Redis, since no price there is marked stale.
Quoted == IF cache.left = 0 THEN "none"
          ELSE IF cache.age <= CACHE_TTL + Slow THEN "fresh" ELSE "old"

\* The rate is read; then the invoice is flushed, for this transaction to see.
ReadRate(r) ==
  /\ req[r].step = "new"
  /\ req' = [req EXCEPT ![r].step = "flushed", ![r].rate = Quoted]
  /\ UNCHANGED <<feed, invoice, wallet>>

\* The answer is an error: no invoice.
Answer(r, step) == req' = [req EXCEPT ![r] = [NewRequest EXCEPT !.step = step]]
Refuse(r) == Answer(r, "refused")

MakeAddress == wallet.next <= MaxIndex /\ wallet' = [wallet EXCEPT !.next = @ + 1]

create_address(r) ==
  /\ req[r].step = "flushed" /\ MakeAddress
  /\ req' = [req EXCEPT ![r].step = "addressed", ![r].index = wallet.next]
  /\ UNCHANGED <<feed, invoice>>

\* The call or its answer is lost, or the wallet asks to try again.
TryAgain(r) ==
  /\ req[r].step = "flushed"
  /\ MakeAddress \/ UNCHANGED wallet
  /\ IF req[r].tries + 1 < MAX_RETRIES THEN req' = [req EXCEPT ![r].tries = @ + 1]
                                       ELSE Refuse(r)
  /\ UNCHANGED <<feed, invoice>>

\* The wallet refuses, the transaction or the process fails.
GiveUp(r) ==
  /\ req[r].step \in {"new", "flushed", "addressed"}
  /\ Refuse(r)
  /\ UNCHANGED <<feed, invoice, wallet>>

\* Mutant of CommitInvoice: the subaddress has no unique index.
CommitInvoice_NotUnique(r) ==
  /\ req[r].step = "addressed"
  /\ invoice' = [invoice EXCEPT ![r] = [index |-> req[r].index, rate |-> req[r].rate]]
  /\ Answer(r, "created")
  /\ UNCHANGED <<feed, wallet>>

\* The address is inserted, unless an invoice has it already, and all is committed.
CommitInvoice(r) ==
  /\ req[r].step = "addressed"
  /\ IF \E q \in Requests : invoice[q] # None /\ invoice[q].index = req[r].index
       THEN Refuse(r) /\ UNCHANGED invoice
       ELSE /\ invoice' = [invoice EXCEPT ![r] = [index |-> req[r].index, rate |-> req[r].rate]]
            /\ Answer(r, "created")
  /\ UNCHANGED <<feed, wallet>>

-----------------------------------------------------------------------------
(* The wallet, external. *)

WalletSaves ==
  /\ wallet.saved # wallet.next /\ wallet' = [wallet EXCEPT !.saved = wallet.next]
  /\ UNCHANGED <<feed, req, invoice>>

\* It is restarted, or restored, from what was saved.
WalletRestarts ==
  /\ wallet.saved # wallet.next /\ wallet' = [wallet EXCEPT !.next = wallet.saved]
  /\ UNCHANGED <<feed, req, invoice>>

Next ==
  \/ FeedNext /\ UNCHANGED intake
  \/ \E r \in Requests : \/ ReadRate(r) \/ create_address(r) \/ TryAgain(r) \/ GiveUp(r)
                         \/ CommitInvoice(r)
  \/ WalletSaves \/ WalletRestarts

Spec == Init /\ [][Next]_vars

-----------------------------------------------------------------------------
(* Properties. *)

\* The types of the variables.
TypeOK ==
  /\ FeedTypeOK
  /\ req \in [Requests -> [step : {"new", "flushed", "addressed", "created", "refused"},
                           rate : Rate, tries : 0 .. MAX_RETRIES,
                           index : Nat \cup {None}]]
  /\ invoice \in [Requests -> [index : Nat, rate : Rate] \cup {None}]
  /\ wallet \in [next : Nat, saved : Nat]

\* The rate of an invoice was no older when it was read than the cache allows
\* ("Stale: price older than 10 minutes", price_feed.py:7) and the update took,
\* although no price in the cache is ever marked stale.
RatesAreFresh == \A r \in Requests : invoice[r] # None => invoice[r].rate # "old"

\* No two invoices have one subaddress, however often calls are repeated, also
\* when the wallet has forgotten the subaddresses it made last and makes them
\* again: a payment belongs to one invoice.
AddressesDiffer ==
  \A q, r \in Requests :
     q # r /\ invoice[q] # None /\ invoice[r] # None => invoice[q].index # invoice[r].index
=============================================================================
