-------------------------- MODULE MCTempRecordings --------------------------
(* One tested student with more dataset records than the burn-in size, and  *)
(* one that is not among the test students.                                 *)
EXTENDS TempRecordings, TLC

CONSTANTS s1, s2

MCBase == (s1 :> 2) @@ (s2 :> 1)
=============================================================================
