-------------------------- MODULE MCVerifierServer --------------------------
(* VerifierServer on small sets.  Only the posts are interchangeable: Init *)
(* chooses a state.                                                        *)
EXTENDS VerifierServer, TLC

PostSymmetry == Permutations(Posts)
=============================================================================
