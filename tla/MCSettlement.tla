---------------------------- MODULE MCSettlement ----------------------------
(***************************************************************************)
(* The instance TLC checks: an invoice of two units is paid in part by one *)
(* transaction and overpaid by the other, and two processes poll.          *)
(***************************************************************************)
EXTENDS Settlement, FiniteSetsExt, TLC

CONSTANTS i1, t1, t2, p1, p2

MCInvoice  == {i1}
MCTx       == {t1, t2}
MCProcess  == {p1, p2}
MCRequired == i1 :> 2
MCPays     == t1 :> (i1 :> 1) @@ t2 :> (i1 :> 2)
MCSum      == [i \in MCInvoice |-> [S \in SUBSET MCTx |->
                                      MapThenSumSet(LAMBDA t : MCPays[t][i], S)]]
=============================================================================
