--------------------------- MODULE MCInMemoryCache ---------------------------
(* InMemoryCache on a few keys; keys and values are interchangeable. *)
EXTENDS InMemoryCache

KeySymmetry == Permutations(Keys) \cup Permutations(Values)
=============================================================================
