-------------------------- MODULE MCDetectionCursor --------------------------
(* Two engines, one payment, and a chain that may lose a block.            *)
EXTENDS DetectionCursor
CONSTANTS t1, e1, e2

MCTx     == {t1}
MCEngine == {e1, e2}
=============================================================================
