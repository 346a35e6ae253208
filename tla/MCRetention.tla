---------------------------- MODULE MCRetention ----------------------------
(***************************************************************************)
(* The instance of Retention that TLC checks.                               *)
(***************************************************************************)
EXTENDS Retention

CONSTANTS i1, i2, d1, d2

MCInvoices == {i1, i2}
MCDeliveries == {d1, d2}
=============================================================================
