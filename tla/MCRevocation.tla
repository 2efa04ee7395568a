---------------------------- MODULE MCRevocation ----------------------------
(* Revocation with interchangeable checks. *)
EXTENDS Revocation, TLC

CheckSymmetry == Permutations(Checks)
=============================================================================
