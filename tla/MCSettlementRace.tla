-------------------------- MODULE MCSettlementRace --------------------------
(***************************************************************************)
(* An invoice of two units and three payments of one, one and three units: *)
(* paid in part, paid exactly, overpaid step by step, overpaid at once.    *)
(***************************************************************************)
EXTENDS SettlementRace, FiniteSetsExt, TLC

CONSTANTS t1, t2, t3
MCTx == {t1, t2, t3}
MCAmount == t1 :> 1 @@ t2 :> 1 @@ t3 :> 3
MCSum == [S \in SUBSET MCTx |-> MapThenSumSet(LAMBDA t : MCAmount[t], S)]
=============================================================================
