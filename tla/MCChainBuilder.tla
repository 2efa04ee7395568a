--------------------------- MODULE MCChainBuilder ---------------------------
(* Certificates of three CAs: roots, cross certificates, and ones that go  *)
(* wrong in one respect.                                                   *)
EXTENDS ChainBuilder

CaCert(subject, issuer, key, signer, pathLen) ==
  [subject |-> subject, issuer |-> issuer, key |-> key, signer |-> signer,
   fit |-> TRUE, ca |-> TRUE, permits |-> TRUE, pathLen |-> pathLen]

LeafByA == [CaCert("L", "A", "l", "a", NoLimit) EXCEPT !.ca = FALSE]
LeafByB == [LeafByA EXCEPT !.issuer = "B", !.signer = "b"]
Expired == [LeafByA EXCEPT !.fit = FALSE]

MCLeaves == {LeafByA, LeafByB, Expired}

RootA   == CaCert("A", "A", "a", "a", NoLimit)
RootB   == CaCert("B", "B", "b", "b", 0)
RootC   == CaCert("C", "C", "c", "c", 1)
AByB    == CaCert("A", "B", "a", "b", 0)
BByA    == CaCert("B", "A", "b", "a", NoLimit)
BByC    == CaCert("B", "C", "b", "c", NoLimit)
OtherA  == CaCert("A", "B", "x", "b", NoLimit)
NotCaA  == [AByB EXCEPT !.ca = FALSE]
NarrowB == [BByC EXCEPT !.permits = FALSE]

MCCaCerts ==
  {RootA, RootB, RootC, AByB, BByA, BByC, OtherA, NotCaA, NarrowB}
=============================================================================
