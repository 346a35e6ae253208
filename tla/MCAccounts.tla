----------------------------- MODULE MCAccounts -----------------------------
(***************************************************************************)
(* The instance of Accounts that TLC checks.                                *)
(***************************************************************************)
EXTENDS Accounts

CONSTANTS m1, m2, m3, a1, a2, k1, k2, k3, k4, k5, k6, k7, n1, s1, s2, r1, r2

MCMerchants == {m1, m2, m3}
MCAddresses == {a1, a2}
MCKeys == {k1, k2, k3, k4, k5, k6, k7}
MCGiven == {k1, k2}
MCNonces == {n1}
MCSessions == {s1, s2}
MCRequests == {r1, r2}
=============================================================================
