---------------------------- MODULE PaymentLedger ----------------------------
(***************************************************************************)
(* What GhostBill promises about money, with no wallet, no polling and no  *)
(* webhooks in sight: an invoice is opened, may be closed while nothing    *)
(* has been credited to it (cancelled for good, or merely late), and a     *)
(* transaction that pays it is credited to at most one invoice, once, and  *)
(* is never taken back.  Settlement implements this module.                *)
(***************************************************************************)
CONSTANTS Invoice,      \* the invoices
          Tx            \* the Monero transactions that may pay them

VARIABLES phase,        \* phase[i]: where invoice i is in its life
          credits       \* credits[i]: the transactions credited to i

vars == <<phase, credits>>

Phase == {"unborn", "open", "late", "void"}

TypeOK == /\ phase   \in [Invoice -> Phase]
          /\ credits \in [Invoice -> SUBSET Tx]

Init == /\ phase   = [i \in Invoice |-> "unborn"]
        /\ credits = [i \in Invoice |-> {}]

Open(i) == /\ phase[i] = "unborn"
           /\ phase' = [phase EXCEPT ![i] = "open"]
           /\ UNCHANGED credits

\* Several invoices may expire in the same sweep.
Close(S, how) ==
  /\ \A i \in S : phase[i] = "open" /\ credits[i] = {}
  /\ phase' = [i \in Invoice |-> IF i \in S THEN how ELSE phase[i]]
  /\ UNCHANGED credits

Credit(i, t) ==
  /\ phase[i] # "unborn"
  /\ \A j \in Invoice : t \notin credits[j]
  /\ credits' = [credits EXCEPT ![i] = @ \cup {t}]
  /\ UNCHANGED phase

Next == \/ \E i \in Invoice : Open(i)
        \/ \E i \in Invoice : Close({i}, "void")
        \/ \E S \in SUBSET Invoice : Close(S, "late")
        \/ \E i \in Invoice, t \in Tx : Credit(i, t)

Spec == Init /\ [][Next]_vars
==============================================================================
