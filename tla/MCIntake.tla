------------------------------ MODULE MCIntake ------------------------------
(***************************************************************************)
(* The instance of Intake that TLC checks, in minutes.                      *)
(***************************************************************************)
EXTENDS Intake, TLC

CONSTANTS p1, p2, r1, r2

MCUpdaters == {p1, p2}
MCRequests == {r1, r2}
MCSymmetry == Permutations(MCUpdaters) \cup Permutations(MCRequests)
=============================================================================
