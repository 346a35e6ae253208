-------------------------- MODULE MCWebhookDelivery --------------------------
(***************************************************************************)
(* Two events, one of which cannot be posted, three delivery rows (one to  *)
(* replay into), two attempts, and batches of two.                         *)
(***************************************************************************)
EXTENDS WebhookDelivery

CONSTANTS e1, e2, d1, d2, d3, w1, w2, r1, r2
MCEvent      == {e1, e2}
MCUnpostable == {e2}
MCDelivery   == {d1, d2, d3}
MCWorker     == {w1, w2}
MCRequest    == {r1, r2}
=============================================================================
