------------------------------ MODULE MCFollow ------------------------------
(* Instances of Follow for TLC: the accounts are model values, symmetric since
   no run checks liveness. *)
EXTENDS Follow, TLC

AccountSymmetry == Permutations(Account)
=============================================================================
