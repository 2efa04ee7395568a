------------------------- MODULE ChainBuilder_proofs -------------------------
(***************************************************************************)
(* Whatever certificates there are, and however many come with the leaf: a *)
(* chain that is returned is a valid path to an anchor, and, where names   *)
(* are unique, no chain is returned only where there is no such path.      *)
(***************************************************************************)
EXTENDS ChainBuilder, FiniteSetTheorems, WellFoundedInduction, TLAPS

(* The step the search takes from a certificate, wherever it meets it.     *)
IssuersOf(c) == {i \in DOMAIN pool : pool[i].subject = c.issuer}
IssuerOf(c)  == pool[CHOOSE i \in IssuersOf(c) : \A j \in IssuersOf(c) : i <= j]

(* A certificate that the search has passed: should it meet it again, it   *)
(* goes round the same way.                                                *)
Passed(c) ==
  /\ c.subject # Anchor.subject
  /\ IssuersOf(c) # {}
  /\ IssuerOf(c) \in ToSet(chain)

Linked(path) ==
  \A i \in 1 .. Len(path) - 1 :
    path[i].issuer = path[i + 1].subject /\ Signed(path[i], path[i + 1])

(* A CA in the i-th place has i - 2 CAs below it.                          *)
FitInPlace(cert, i) ==
  cert.fit /\ cert.ca /\ (cert.pathLen # NoLimit => i - 2 <= cert.pathLen)

WellMade(path) ==
  /\ path[1] = leaf /\ leaf.fit
  /\ Linked(path)
  /\ \A i \in 2 .. Len(path) : FitInPlace(path[i], i)

(* What depth tells of the length of the path.                             *)
DepthTells ==
  depth = Len(chain) - 1 \/ (depth > MaxPathLen /\ Len(chain) - 1 > MaxPathLen)

(* The search is at the end of the path, or goes round in it for good.     *)
ClimbInv ==
  /\ Len(chain) >= 1 /\ WellMade(chain)
  /\ current \in ToSet(chain)
  /\ \A i \in 1 .. Len(chain) - 1 : Passed(chain[i])
  /\ \/ current = chain[Len(chain)] /\ DepthTells
     \/ Passed(chain[Len(chain)])

ReturnInv ==
  /\ Len(chain) >= 1 /\ WellMade(chain) /\ Permitted(chain)
  /\ chain[Len(chain)] \in ToSet(anchors)

ChainInv ==
  /\ TypeOK
  /\ pc = "climb" => ClimbInv
  /\ pc = "returned" => ReturnInv

-----------------------------------------------------------------------------
LEMMA SeqOfIsSeq ==
  ASSUME NEW S, NEW n \in Nat, NEW s \in SeqOf(S, n)
  PROVE  s \in Seq(S)
<1>1. PICK m \in 0 .. n : s \in [1 .. m -> S]
  BY DEF SeqOf
<1> QED BY <1>1

(* Among the intermediates that bear the issuer's name there is a first.   *)
LEMMA FirstIssuer ==
  ASSUME pool \in Seq(CaCerts), NEW c, IssuersOf(c) # {}
  PROVE  /\ IssuerOf(c) \in CaCerts /\ IssuerOf(c) \in ToSet(pool)
         /\ IssuerOf(c).subject = c.issuer
<1> DEFINE T == IssuersOf(c)
<1>1. T \subseteq Nat /\ T # {}
  BY DEF IssuersOf
<1>2. PICK i \in T : \A j \in T : ~(<<j, i>> \in OpToRel(<, Nat))
  BY <1>1, WFMin, NatLessThanWellFounded, Zenon
<1>3. \A j \in T : ~(j < i)
  BY <1>1, <1>2, Zenon DEF OpToRel
<1>4. \A j \in T : i <= j
  BY <1>1, <1>3
<1> DEFINE first == CHOOSE k \in T : \A j \in T : k <= j
<1>5. first \in T
  BY <1>4
<1>6. IssuerOf(c) = pool[first]
  BY DEF IssuerOf
<1> HIDE DEF first
<1>7. first \in DOMAIN pool /\ pool[first].subject = c.issuer
  BY <1>5 DEF IssuersOf
<1> QED BY <1>6, <1>7 DEF ToSet

LEMMA PassesInPlace ==
  ASSUME NEW cert \in Certs, PassesAsCa(cert), DepthTells,
         Len(chain) \in Nat, depth \in Nat
  PROVE  FitInPlace(cert, Len(chain) + 1)
<1>1. cert.pathLen # NoLimit => cert.pathLen \in Nat /\ cert.pathLen <= MaxPathLen
  BY ChainAssumption
<1> QED BY <1>1, ChainAssumption DEF PassesAsCa, DepthTells, FitInPlace

(* One more certificate at the end of the path.                            *)
LEMMA OneMore ==
  ASSUME NEW path \in Seq(Certs), Len(path) >= 1, WellMade(path),
         NEW cert \in Certs,
         path[Len(path)].issuer = cert.subject, Signed(path[Len(path)], cert),
         FitInPlace(cert, Len(path) + 1)
  PROVE  WellMade(Append(path, cert))
<1> DEFINE new == Append(path, cert)
<1>1. /\ Len(new) = Len(path) + 1 /\ Len(path) \in Nat
      /\ new[Len(path) + 1] = cert
      /\ \A i \in 1 .. Len(path) : new[i] = path[i]
  OBVIOUS
<1>2. new[1] = leaf /\ leaf.fit
  BY <1>1 DEF WellMade
<1>3. ASSUME NEW i \in 1 .. Len(new) - 1
      PROVE  new[i].issuer = new[i + 1].subject /\ Signed(new[i], new[i + 1])
  <2>1. CASE i = Len(path)
    BY <1>1, <2>1
  <2>2. CASE i # Len(path)
    BY <1>1, <2>2 DEF WellMade, Linked
  <2> QED BY <2>1, <2>2
<1>4. ASSUME NEW i \in 2 .. Len(new) PROVE FitInPlace(new[i], i)
  <2>1. CASE i = Len(path) + 1
    BY <1>1, <2>1
  <2>2. CASE i # Len(path) + 1
    BY <1>1, <2>2 DEF WellMade
  <2> QED BY <2>1, <2>2
<1> QED BY <1>2, <1>3, <1>4 DEF WellMade, Linked

(* Such a path to an anchor is valid: of the CAs below one, the            *)
(* self-issued do not even count.                                          *)
LEMMA WellMadeIsValid ==
  ASSUME NEW path \in Seq(Certs), WellMade(path), Permitted(path)
  PROVE  Valid(path)
<1>1. ASSUME NEW i \in 2 .. Len(path), path[i].pathLen # NoLimit
      PROVE  Cardinality({j \in 2 .. i - 1 : ~SelfIssued(path[j])}) <= path[i].pathLen
  <2> DEFINE below == {j \in 2 .. i - 1 : ~SelfIssued(path[j])}
  <2>1. i - 1 \in Int /\ i \in Nat /\ i >= 2
    OBVIOUS
  <2>2. IsFiniteSet(2 .. i - 1) /\ Cardinality(2 .. i - 1) = i - 2
    BY <2>1, FS_Interval
  <2>3. Cardinality(below) <= i - 2 /\ IsFiniteSet(below)
    BY <2>2, FS_Subset
  <2>4. Cardinality(below) \in Nat
    BY <2>3, FS_CardinalityType
  <2>5. i - 2 <= path[i].pathLen
    BY <1>1 DEF WellMade, FitInPlace
  <2>6. path[i].pathLen \in Nat
    <3>1. path[i] \in Certs
      OBVIOUS
    <3> QED BY <1>1, <3>1, ChainAssumption
  <2> QED BY <2>1, <2>3, <2>4, <2>5, <2>6
<1>2. \A i \in DOMAIN path : path[i].fit
  <2> SUFFICES ASSUME NEW i \in DOMAIN path PROVE path[i].fit
    OBVIOUS
  <2>1. CASE i = 1
    BY <2>1 DEF WellMade
  <2>2. CASE i # 1
    <3>1. i \in 2 .. Len(path)
      BY <2>2
    <3> QED BY <3>1 DEF WellMade, FitInPlace
  <2> QED BY <2>1, <2>2
<1>3. \A i \in 2 .. Len(path) : path[i].ca /\ path[i].permits
  BY DEF WellMade, FitInPlace, Permitted
<1> QED BY <1>1, <1>2, <1>3 DEF Valid, WellMade, Linked
-----------------------------------------------------------------------------
LEMMA InitChain == Init => ChainInv
<1> SUFFICES ASSUME Init PROVE ChainInv
  OBVIOUS
<1>1. pool \in Seq(CaCerts) /\ anchors \in Seq(CaCerts)
  <2>1. pool \in SeqOf(CaCerts, MaxPool) /\ anchors \in SeqOf(CaCerts, MaxAnchors)
    BY DEF Init, Distinct
  <2> QED BY <2>1, SeqOfIsSeq, ChainAssumption
<1>2. anchors # <<>>
  BY DEF Init
<1>3. tried \in DOMAIN anchors
  BY <1>1, <1>2 DEF Init
<1>4. pc = "start" /\ chain = <<>> /\ depth \in 0 .. MaxPathLen + 2
      /\ leaf \in Leaves /\ current \in Certs
  BY ChainAssumption DEF Init, Certs
<1> QED BY <1>1, <1>3, <1>4 DEF ChainInv, TypeOK

LEMMA GivesUp == ChainInv /\ GiveUp => ChainInv'
<1> SUFFICES ASSUME ChainInv, GiveUp PROVE ChainInv'
  OBVIOUS
<1>1. pc' \in {"start", "threw"} /\ UNCHANGED <<leaf, pool, anchors, chain, current, depth>>
  BY DEF GiveUp, input
<1>2. tried' \in DOMAIN anchors
  BY DEF GiveUp, ChainInv, TypeOK
<1> QED BY <1>1, <1>2 DEF ChainInv, TypeOK

LEMMA Returns ==
  ASSUME ChainInv, NEW path \in Seq(Certs), Return(path),
         Len(path) >= 1, WellMade(path), Permitted(path), path[Len(path)] = Anchor
  PROVE  ChainInv'
<1>1. UNCHANGED <<leaf, pool, anchors, tried, current, depth>> /\ chain' = path /\ pc' = "returned"
  BY DEF Return, input
<1>2. TypeOK'
  BY <1>1 DEF ChainInv, TypeOK
<1>3. Anchor \in ToSet(anchors)
  BY DEF Anchor, ToSet, ChainInv, TypeOK
<1>4. WellMade(chain)' /\ Permitted(chain)'
  BY <1>1 DEF WellMade, Linked, Signed, FitInPlace, Permitted
<1>5. (chain[Len(chain)] \in ToSet(anchors))'
  BY <1>1, <1>3 DEF ToSet
<1> QED BY <1>1, <1>2, <1>4, <1>5 DEF ChainInv, ReturnInv

LEMMA Starts == ChainInv /\ Start => ChainInv'
<1> SUFFICES ASSUME ChainInv, Start PROVE ChainInv'
  OBVIOUS
<1>1. CASE GiveUp
  BY <1>1, GivesUp
<1>2. CASE /\ leaf.fit
           /\ pc' = "climb" /\ chain' = <<leaf>> /\ current' = leaf /\ depth' = 0
           /\ UNCHANGED <<input, tried>>
  <2>1. TypeOK'
    BY <1>2, ChainAssumption DEF ChainInv, TypeOK, input, Certs
  <2>2. /\ Len(chain') = 1 /\ chain'[1] = leaf /\ leaf' = leaf
        /\ leaf \in ToSet(chain')
    BY <1>2 DEF ToSet, input
  <2>3. WellMade(chain)'
    BY <1>2, <2>2 DEF WellMade, Linked
  <2>4. ClimbInv'
    BY <1>2, <2>2, <2>3 DEF ClimbInv, DepthTells
  <2> QED BY <1>2, <2>1, <2>4 DEF ChainInv
<1> QED BY <1>1, <1>2 DEF Start

(* Wherever the search goes round, it has been before.                     *)
LEMMA PassedAgain ==
  ASSUME ClimbInv, chain \in Seq(Certs), Passed(chain[Len(chain)])
  PROVE  Passed(current)
<1>1. PICK i \in DOMAIN chain : current = chain[i]
  BY DEF ClimbInv, ToSet
<1>2. CASE i = Len(chain)
  BY <1>1, <1>2
<1>3. CASE i # Len(chain)
  <2>1. i \in 1 .. Len(chain) - 1
    BY <1>3
  <2> QED BY <1>1, <2>1 DEF ClimbInv
<1> QED BY <1>2, <1>3

LEMMA Climbs == ChainInv /\ Climb => ChainInv'
<1> SUFFICES ASSUME ChainInv, Climb PROVE ChainInv'
  OBVIOUS
<1>0. /\ pc = "climb" /\ ClimbInv /\ TypeOK /\ chain \in Seq(Certs)
      /\ current.subject # Anchor.subject
      /\ Issuers = IssuersOf(current) /\ Issuer = IssuerOf(current) /\ IssuersOf(current) # {}
      /\ depth \in 0 .. MaxPathLen + 2 /\ MaxPathLen \in Nat /\ Len(chain) \in Nat
  BY ChainAssumption DEF Climb, ChainInv, TypeOK, Issuers, Issuer, IssuersOf, IssuerOf
<1>1. Issuer \in CaCerts /\ Issuer \in Certs /\ Issuer.subject = current.issuer
  BY <1>0, FirstIssuer DEF TypeOK, Certs
<1>2. CASE GiveUp
  BY <1>2, GivesUp
<1>3. CASE /\ PassesAsCa(Issuer) /\ Signed(current, Issuer)
           /\ current' = Issuer
           /\ chain' = IF Issuer \in ToSet(chain) THEN chain ELSE Append(chain, Issuer)
           /\ depth' = IF depth > MaxPathLen + 1 THEN depth - 1 ELSE depth + 1
           /\ UNCHANGED <<input, tried, pc>>
  <2>0. /\ UNCHANGED <<leaf, pool, anchors, tried, pc>>
        /\ Anchor' = Anchor
        /\ \A c : IssuersOf(c)' = IssuersOf(c)
    BY <1>3 DEF input, Anchor, IssuersOf
  <2>1. \A c : IssuerOf(c)' = IssuerOf(c)
    BY <2>0 DEF IssuerOf
  <2>2. TypeOK'
    BY <1>0, <1>1, <1>3, <2>0 DEF TypeOK
  <2>3. CASE Issuer \in ToSet(chain)
    <3>1. chain' = chain
      BY <1>3, <2>3
    <3>2. Passed(chain[Len(chain)])
      <4>1. CASE current = chain[Len(chain)]
        BY <1>0, <2>3, <4>1 DEF Passed
      <4> QED BY <1>0, <4>1 DEF ClimbInv
    <3>3. \A i \in 1 .. Len(chain) : Passed(chain[i])'
      <4> SUFFICES ASSUME NEW i \in 1 .. Len(chain) PROVE Passed(chain[i])'
        OBVIOUS
      <4>1. Passed(chain[i])
        <5>1. CASE i = Len(chain)
          BY <3>2, <5>1
        <5>2. CASE i # Len(chain)
          BY <1>0, <5>2 DEF ClimbInv
        <5> QED BY <5>1, <5>2
      <4> QED BY <2>0, <2>1, <3>1, <4>1 DEF Passed
    <3>4. WellMade(chain)'
      BY <1>0, <2>0, <3>1 DEF ClimbInv, WellMade, Linked, Signed, FitInPlace
    <3>5. ClimbInv'
      BY <1>0, <1>3, <2>3, <3>1, <3>3, <3>4 DEF ClimbInv
    <3> QED BY <1>0, <2>0, <2>2, <3>5 DEF ChainInv
  <2>4. CASE Issuer \notin ToSet(chain)
    <3>1. chain' = Append(chain, Issuer)
      BY <1>3, <2>4
    <3>2. current = chain[Len(chain)] /\ DepthTells
      <4>1. ~Passed(current)
        BY <1>0, <2>4 DEF Passed
      <4> QED BY <1>0, <4>1, PassedAgain DEF ClimbInv
    <3>3. /\ Len(chain') = Len(chain) + 1 /\ chain'[Len(chain) + 1] = Issuer
          /\ \A i \in 1 .. Len(chain) : chain'[i] = chain[i]
          /\ Len(chain) >= 1
      BY <1>0, <3>1 DEF ClimbInv
    <3>4. ToSet(chain) \subseteq ToSet(chain') /\ Issuer \in ToSet(chain')
      <4>1. DOMAIN chain = 1 .. Len(chain) /\ DOMAIN chain' = 1 .. Len(chain) + 1
        BY <1>0, <3>1
      <4> QED BY <1>0, <3>3, <4>1 DEF ToSet
    <3>5. WellMade(chain')
      BY <1>0, <1>1, <1>3, <3>1, <3>2, OneMore, PassesInPlace DEF ClimbInv
    <3>6. WellMade(chain)'
      BY <2>0, <3>5 DEF WellMade, Linked, Signed, FitInPlace
    <3>7. \A i \in 1 .. Len(chain) : Passed(chain[i])'
      <4> SUFFICES ASSUME NEW i \in 1 .. Len(chain) PROVE Passed(chain[i])'
        OBVIOUS
      <4>1. CASE i = Len(chain)
        <5>1. chain'[i] = current
          BY <3>2, <3>3, <4>1
        <5> QED BY <1>0, <2>0, <2>1, <3>4, <5>1 DEF Passed
      <4>2. CASE i # Len(chain)
        <5>1. Passed(chain[i]) /\ chain'[i] = chain[i]
          BY <1>0, <3>3, <4>2 DEF ClimbInv
        <5> QED BY <2>0, <2>1, <3>4, <5>1 DEF Passed
      <4> QED BY <4>1, <4>2
    <3>8. DepthTells'
      BY <1>0, <1>3, <3>2, <3>3 DEF DepthTells
    <3>9. ClimbInv'
      BY <1>0, <1>3, <3>3, <3>4, <3>6, <3>7, <3>8 DEF ClimbInv
    <3> QED BY <1>0, <2>0, <2>2, <3>9 DEF ChainInv
  <2> QED BY <2>3, <2>4
<1> QED BY <1>2, <1>3 DEF Climb

LEMMA Closes == ChainInv /\ CloseAtAnchor => ChainInv'
<1> SUFFICES ASSUME ChainInv, CloseAtAnchor PROVE ChainInv'
  OBVIOUS
<1> DEFINE path == Append(chain, Anchor)
<1>0. /\ pc = "climb" /\ ClimbInv /\ TypeOK /\ chain \in Seq(Certs)
      /\ IssuersOf(current) = {}
      /\ depth \in Nat /\ Len(chain) \in Nat /\ Len(chain) >= 1
      /\ Anchor \in Certs
  BY DEF CloseAtAnchor, ChainInv, ClimbInv, TypeOK, Issuers, IssuersOf, Anchor, Certs
<1>1. CASE GiveUp
  BY <1>1, GivesUp
<1>2. CASE /\ current.issuer = Anchor.subject /\ PassesAsCa(Anchor)
           /\ Signed(current, Anchor) /\ Permitted(path) /\ Return(path)
  <2>1. current = chain[Len(chain)] /\ DepthTells
    BY <1>0, PassedAgain DEF ClimbInv, Passed
  <2>2. WellMade(path)
    BY <1>0, <1>2, <2>1, OneMore, PassesInPlace DEF ClimbInv
  <2>3. path \in Seq(Certs) /\ Len(path) >= 1 /\ path[Len(path)] = Anchor
    BY <1>0
  <2> QED BY <1>2, <2>2, <2>3, Returns
<1> QED BY <1>1, <1>2 DEF CloseAtAnchor

LEMMA Meets == ChainInv /\ MeetAnchor => ChainInv'
<1> SUFFICES ASSUME ChainInv, MeetAnchor PROVE ChainInv'
  OBVIOUS
<1>0. /\ pc = "climb" /\ ClimbInv /\ chain \in Seq(Certs)
      /\ current.subject = Anchor.subject
  BY DEF MeetAnchor, ChainInv, TypeOK
<1>1. CASE GiveUp
  BY <1>1, GivesUp
<1>2. CASE MeetsAnchor /\ Permitted(chain) /\ Return(chain)
  <2>1. chain[Len(chain)] = Anchor
    BY <1>0, <1>2, PassedAgain DEF ClimbInv, Passed, MeetsAnchor
  <2> QED BY <1>0, <1>2, <2>1, Returns DEF ClimbInv
<1> QED BY <1>1, <1>2 DEF MeetAnchor

LEMMA ChainHolds == Spec => []ChainInv
<1>1. ChainInv /\ UNCHANGED vars => ChainInv'
  <2> SUFFICES ASSUME ChainInv, UNCHANGED vars PROVE ChainInv'
    OBVIOUS
  <2> USE DEF vars, input
  <2>1. TypeOK'
    BY DEF ChainInv, TypeOK
  <2>2. WellMade(chain)' <=> WellMade(chain)
    BY DEF WellMade, Linked, Signed, FitInPlace
  <2>3. \A c : Passed(c)' <=> Passed(c)
    BY DEF Passed, IssuersOf, IssuerOf, Anchor, ToSet
  <2>4. ClimbInv' <=> ClimbInv
    BY <2>2, <2>3 DEF ClimbInv, DepthTells, ToSet
  <2>5. ReturnInv' <=> ReturnInv
    BY <2>2 DEF ReturnInv, Permitted, ToSet
  <2> QED BY <2>1, <2>4, <2>5 DEF ChainInv
<1>2. ChainInv /\ [Next]_vars => ChainInv'
  BY <1>1, Starts, Climbs, Closes, Meets DEF Next
<1> QED BY <1>2, InitChain, PTL DEF Spec

(* A chain that is returned is a valid path from the leaf to an anchor,    *)
(* although intermediates may share names, go round in circles, or lie.    *)
THEOREM ReturnedChainIsValidCorrect == Spec => []ReturnedChainIsValid
<1>1. ChainInv => ReturnedChainIsValid
  <2> SUFFICES ASSUME ChainInv, pc = "returned" PROVE ReturnedChainIsValid
    BY DEF ReturnedChainIsValid
  <2>1. ReturnInv /\ chain \in Seq(Certs)
    BY DEF ChainInv, TypeOK
  <2>2. chain[1] = leaf /\ Last(chain) \in ToSet(anchors)
    BY <2>1 DEF ReturnInv, WellMade, Last
  <2> QED BY <2>1, <2>2, WellMadeIsValid DEF ReturnInv, ReturnedChainIsValid
<1> QED BY <1>1, ChainHolds, PTL
-----------------------------------------------------------------------------
(* Why failure means that there is no path.  A valid path to the anchor,   *)
(* of any length: as long as no two certificates share a name the search   *)
(* cannot leave it, and finds nothing on it to refuse.                     *)
PathTo(path, a) ==
  /\ path \in Seq(Certs) /\ Len(path) >= 2
  /\ path[1] = leaf /\ path[Len(path)] = a
  /\ \A i \in 2 .. Len(path) - 1 : path[i] \in ToSet(pool)
  /\ Valid(path)

(* The search is on the path, and has not come by the anchor.              *)
Along(path) ==
  /\ Len(chain) >= 1 /\ Len(chain) <= Len(path)
  /\ \A i \in 1 .. Len(chain) : chain[i] = path[i]
  /\ \A i \in 1 .. Len(chain) - 1 : path[i] # Anchor
  /\ current = path[Len(chain)]
  /\ DepthTells

(* The anchors that the search has done with.                              *)
GivenUp == IF pc = "threw" THEN DOMAIN anchors ELSE 1 .. tried - 1

FailureInv ==
  /\ \A t \in GivenUp : \A path : ~PathTo(path, anchors[t])
  /\ pc = "climb" => \A path : PathTo(path, Anchor) => Along(path)

SearchInv == UniqueNames => FailureInv

LEMMA OnPathKnown ==
  ASSUME TypeOK, NEW t \in DOMAIN anchors, NEW path, PathTo(path, anchors[t]),
         NEW i \in 1 .. Len(path)
  PROVE  path[i] \in {leaf} \cup ToSet(pool) \cup ToSet(anchors)
<1>1. anchors[t] \in ToSet(anchors)
  BY DEF ToSet
<1>2. CASE i = 1
  BY <1>2 DEF PathTo
<1>3. CASE i = Len(path)
  BY <1>1, <1>3 DEF PathTo
<1>4. CASE i # 1 /\ i # Len(path)
  <2>1. i \in 2 .. Len(path) - 1
    BY <1>4 DEF PathTo
  <2> QED BY <2>1 DEF PathTo
<1> QED BY <1>2, <1>3, <1>4

LEMMA NamesTell ==
  ASSUME TypeOK, UniqueNames, NEW t \in DOMAIN anchors, NEW path,
         PathTo(path, anchors[t]),
         NEW i \in 1 .. Len(path), NEW d \in {leaf} \cup ToSet(pool) \cup ToSet(anchors),
         path[i].subject = d.subject
  PROVE  path[i] = d
<1>1. path[i] \in {leaf} \cup ToSet(pool) \cup ToSet(anchors)
  BY OnPathKnown
<1> QED BY <1>1 DEF UniqueNames

(* Before it comes to the anchor a path does not meet a certificate twice: *)
(* from there on it would go round, past the anchor for good.              *)
Repeats(path, m) == {j \in 1 .. m : \E i \in 1 .. j - 1 : path[i] = path[j]}

LEMMA NoneTwice ==
  ASSUME TypeOK, UniqueNames, NEW t \in DOMAIN anchors, NEW path,
         PathTo(path, anchors[t]),
         NEW m \in 1 .. Len(path), path[m] = anchors[t],
         \A i \in 1 .. m - 1 : path[i] # anchors[t]
  PROVE  Repeats(path, m) = {}
<1> DEFINE T == {u \in Nat : m - u \in Repeats(path, m)}
<1>1. ASSUME NEW j \in Repeats(path, m) PROVE j < m /\ j + 1 \in Repeats(path, m)
  <2>1. PICK i \in 1 .. j - 1 : path[i] = path[j]
    BY DEF Repeats
  <2>2. j \in 1 .. m /\ Len(path) \in Nat
    BY DEF Repeats, PathTo
  <2>3. j < m
    BY <2>1, <2>2
  <2>4. /\ i \in 1 .. Len(path) - 1 /\ j \in 1 .. Len(path) - 1
        /\ i + 1 \in 1 .. Len(path) /\ j + 1 \in 1 .. Len(path)
    BY <2>1, <2>2, <2>3
  <2>5. path[i + 1].subject = path[j + 1].subject
    BY <2>1, <2>4 DEF PathTo, Valid
  <2>6. path[j + 1] \in {leaf} \cup ToSet(pool) \cup ToSet(anchors)
    BY <2>4, OnPathKnown
  <2>7. path[i + 1] = path[j + 1]
    BY <2>4, <2>5, <2>6, NamesTell
  <2> QED BY <2>2, <2>3, <2>4, <2>7 DEF Repeats
<1> SUFFICES ASSUME Repeats(path, m) # {} PROVE FALSE
  OBVIOUS
<1>2. T \subseteq Nat /\ T # {}
  <2>1. PICK j \in Repeats(path, m) : TRUE
    OBVIOUS
  <2>2. m - j \in Nat /\ m - (m - j) = j
    BY DEF Repeats
  <2> QED BY <2>1, <2>2
<1>3. PICK u \in T : \A v \in T : ~(<<v, u>> \in OpToRel(<, Nat))
  BY <1>2, WFMin, NatLessThanWellFounded, Zenon
<1>4. \A v \in T : ~(v < u)
  BY <1>2, <1>3, Zenon DEF OpToRel
<1>5. u # 0 /\ u - 1 \in T
  <2>1. m - u < m /\ m - u + 1 \in Repeats(path, m)
    BY <1>1
  <2>2. u \in Nat /\ u # 0 /\ u - 1 \in Nat /\ m - (u - 1) = m - u + 1
    BY <2>1
  <2> QED BY <2>1, <2>2
<1> QED BY <1>2, <1>4, <1>5

(* A path comes to its anchor for the first time somewhere.                *)
LEMMA FirstTime ==
  ASSUME NEW a, NEW path, PathTo(path, a)
  PROVE  \E m \in 1 .. Len(path) :
           path[m] = a /\ \A i \in 1 .. m - 1 : path[i] # a
<1> DEFINE T == {i \in 1 .. Len(path) : path[i] = a}
<1>1. T \subseteq Nat /\ T # {}
  BY DEF PathTo
<1>2. PICK m \in T : \A j \in T : ~(<<j, m>> \in OpToRel(<, Nat))
  BY <1>1, WFMin, NatLessThanWellFounded, Zenon
<1>3. \A j \in T : ~(j < m)
  BY <1>1, <1>2, Zenon DEF OpToRel
<1> QED BY <1>1, <1>3 DEF PathTo

(* So the next certificate on the path passes: none of those below it      *)
(* issued itself, and depth has counted them.                              *)
LEMMA NextPasses ==
  ASSUME TypeOK, UniqueNames, NEW path, PathTo(path, Anchor), Along(path),
         current # Anchor
  PROVE  /\ Len(chain) + 1 \in 1 .. Len(path)
         /\ current.issuer = path[Len(chain) + 1].subject
         /\ Signed(current, path[Len(chain) + 1])
         /\ PassesAsCa(path[Len(chain) + 1])
         /\ path[Len(chain) + 1] \notin ToSet(chain)
<1> DEFINE k    == Len(chain)
           next == path[k + 1]
           below == {j \in 2 .. k : ~SelfIssued(path[j])}
<1>0. /\ tried \in DOMAIN anchors /\ Anchor = anchors[tried]
      /\ k \in Nat /\ k >= 1 /\ Len(path) \in Nat /\ depth \in Nat
  BY DEF TypeOK, Anchor, Along, PathTo
<1>1. PICK m \in 1 .. Len(path) :
        path[m] = Anchor /\ \A i \in 1 .. m - 1 : path[i] # Anchor
  BY FirstTime
<1>2. k < m
  <2>1. \A i \in 1 .. k : path[i] # Anchor
    <3> SUFFICES ASSUME NEW i \in 1 .. k PROVE path[i] # Anchor
      OBVIOUS
    <3>1. CASE i = k
      BY <3>1 DEF Along
    <3>2. CASE i # k
      BY <1>0, <3>2 DEF Along
    <3> QED BY <3>1, <3>2
  <2> QED BY <1>0, <1>1, <2>1
<1>3. Repeats(path, m) = {}
  BY <1>0, <1>1, NoneTwice
<1>4. \A i, j \in 1 .. m : i < j => path[i] # path[j]
  BY <1>0, <1>1, <1>3 DEF Repeats
<1>5. k + 1 \in 1 .. Len(path) /\ k \in 1 .. Len(path) - 1 /\ k + 1 \in 2 .. Len(path)
  BY <1>0, <1>1, <1>2
<1>6. current.issuer = next.subject /\ Signed(current, next)
  BY <1>5 DEF PathTo, Valid, Along
<1>7. next \notin ToSet(chain)
  <2>1. \A i \in 1 .. k : chain[i] # next
    BY <1>0, <1>1, <1>2, <1>4 DEF Along
  <2> QED BY <2>1 DEF ToSet, TypeOK
<1>8. below = 2 .. k
  <2> SUFFICES ASSUME NEW j \in 2 .. k PROVE ~SelfIssued(path[j])
    OBVIOUS
  <2>1. /\ j \in 1 .. Len(path) - 1 /\ j + 1 \in 1 .. Len(path) /\ j \in 1 .. Len(path)
        /\ j \in 1 .. m /\ j + 1 \in 1 .. m /\ j < j + 1
    BY <1>0, <1>1, <1>2
  <2>2. path[j].issuer = path[j + 1].subject
    BY <2>1 DEF PathTo, Valid
  <2>3. path[j + 1] \in {leaf} \cup ToSet(pool) \cup ToSet(anchors)
    BY <1>0, <2>1, OnPathKnown
  <2>4. path[j].subject # path[j + 1].subject
    BY <1>0, <1>4, <2>1, <2>3, NamesTell
  <2> QED BY <2>2, <2>4 DEF SelfIssued
<1>9. Cardinality(2 .. k) = k - 1
  BY <1>0, FS_Interval
<1>10. next.fit /\ next.ca
  <2>1. next.ca
    BY <1>5 DEF PathTo, Valid
  <2>2. k + 1 \in DOMAIN path
    BY <1>5 DEF PathTo
  <2> QED BY <2>1, <2>2 DEF PathTo, Valid
<1>11. ASSUME next.pathLen # NoLimit PROVE depth <= next.pathLen
  <2>1. next.pathLen \in Nat /\ next.pathLen <= MaxPathLen
    <3>1. next \in Certs
      BY <1>5 DEF PathTo
    <3> QED BY <1>11, <3>1, ChainAssumption
  <2>2. (k + 1) - 1 = k
    BY <1>0
  <2>3. Cardinality({j \in 2 .. (k + 1) - 1 : ~SelfIssued(path[j])}) <= next.pathLen
    <3>1. \A i \in 2 .. Len(path) : path[i].pathLen # NoLimit =>
            Cardinality({j \in 2 .. i - 1 : ~SelfIssued(path[j])}) <= path[i].pathLen
      BY Zenon DEF PathTo, Valid
    <3> QED BY <1>5, <1>11, <3>1, Zenon
  <2>4. k - 1 <= next.pathLen
    BY <1>8, <1>9, <2>2, <2>3
  <2> QED BY <1>0, <2>1, <2>4, ChainAssumption DEF Along, DepthTells
<1> QED BY <1>5, <1>6, <1>7, <1>10, <1>11 DEF PassesAsCa

-----------------------------------------------------------------------------
(* While there is a path to the anchor at hand, the search does not give   *)
(* up at it.                                                               *)
LEMMA StartFits ==
  ASSUME TypeOK, NEW path, PathTo(path, Anchor)
  PROVE  leaf.fit
<1>1. 1 \in DOMAIN path
  BY DEF PathTo
<1> QED BY <1>1 DEF PathTo, Valid

LEMMA ClimbKeepsOn ==
  ASSUME TypeOK, UniqueNames, NEW path, PathTo(path, Anchor), Along(path),
         current.subject # Anchor.subject, Issuers # {}
  PROVE  /\ PassesAsCa(Issuer) /\ Signed(current, Issuer)
         /\ Len(chain) + 1 \in 1 .. Len(path)
         /\ Issuer = path[Len(chain) + 1] /\ Issuer \notin ToSet(chain)
<1>1. /\ Issuers = IssuersOf(current) /\ Issuer = IssuerOf(current)
      /\ pool \in Seq(CaCerts) /\ IssuersOf(current) # {}
  BY DEF TypeOK, Issuers, Issuer, IssuersOf, IssuerOf
<1>2. Issuer \in ToSet(pool) /\ Issuer.subject = current.issuer
  BY <1>1, FirstIssuer
<1>3. tried \in DOMAIN anchors /\ Anchor = anchors[tried]
  BY DEF TypeOK, Anchor
<1>4. path[Len(chain) + 1] = Issuer
  BY <1>2, <1>3, NextPasses, NamesTell
<1> QED BY <1>4, NextPasses

LEMMA CloseKeepsOn ==
  ASSUME TypeOK, UniqueNames, NEW path, PathTo(path, Anchor), Along(path),
         current.subject # Anchor.subject, Issuers = {}
  PROVE  /\ current.issuer = Anchor.subject /\ PassesAsCa(Anchor)
         /\ Signed(current, Anchor) /\ Permitted(Append(chain, Anchor))
<1> DEFINE next == path[Len(chain) + 1]
<1>1. Len(chain) + 1 \in 1 .. Len(path) /\ current.issuer = next.subject
  BY NextPasses
<1>2. Len(chain) \in Nat /\ Len(chain) >= 1 /\ Len(path) \in Nat
  BY DEF TypeOK, Along, PathTo
<1>3. next \notin ToSet(pool)
  BY <1>1 DEF Issuers, ToSet
<1>4. Len(chain) + 1 = Len(path)
  <2>1. Len(chain) + 1 \notin 2 .. Len(path) - 1
    BY <1>3 DEF PathTo
  <2> QED BY <1>1, <1>2, <2>1
<1>5. next = Anchor
  BY <1>4 DEF PathTo
<1>6. Permitted(Append(chain, Anchor))
  <2> SUFFICES ASSUME NEW i \in 2 .. Len(Append(chain, Anchor))
               PROVE  Append(chain, Anchor)[i].permits
    BY DEF Permitted
  <2>1. /\ Len(Append(chain, Anchor)) = Len(path)
        /\ i \in 2 .. Len(path) /\ i \in 1 .. Len(chain) + 1
    BY <1>2, <1>4 DEF TypeOK
  <2>2. Append(chain, Anchor)[i] = path[i]
    <3>1. CASE i = Len(chain) + 1
      BY <1>2, <1>5, <3>1 DEF TypeOK
    <3>2. CASE i # Len(chain) + 1
      BY <1>2, <2>1, <3>2 DEF TypeOK, Along
    <3> QED BY <3>1, <3>2
  <2>3. path[i].permits
    BY <2>1 DEF PathTo, Valid
  <2> QED BY <2>2, <2>3
<1> QED BY <1>1, <1>5, <1>6, NextPasses

LEMMA MeetKeepsOn ==
  ASSUME TypeOK, UniqueNames, NEW path, PathTo(path, Anchor), Along(path),
         current.subject = Anchor.subject
  PROVE  MeetsAnchor /\ Permitted(chain)
<1>1. /\ tried \in DOMAIN anchors /\ Anchor = anchors[tried] /\ Anchor \in ToSet(anchors)
      /\ Len(chain) \in 1 .. Len(path)
  BY DEF TypeOK, Anchor, Along, PathTo, ToSet
<1>2. current = Anchor
  BY <1>1, NamesTell DEF Along
<1>3. ASSUME NEW i \in 2 .. Len(chain) PROVE chain[i].permits
  <2>1. i \in 1 .. Len(chain) /\ i \in 2 .. Len(path)
    BY <1>1
  <2>2. chain[i] = path[i]
    BY <2>1 DEF Along
  <2>3. path[i].permits
    BY <2>1 DEF PathTo, Valid
  <2> QED BY <2>2, <2>3
<1> QED BY <1>2, <1>3 DEF MeetsAnchor, Permitted

(* Where it gives up there was none, and that settles the anchor.          *)
LEMMA GivesUpRightly ==
  ASSUME TypeOK, FailureInv, pc \notin {"threw"}, GiveUp,
         \A path : ~PathTo(path, Anchor)
  PROVE  FailureInv'
<1>0. /\ tried \in 1 .. Len(anchors) /\ DOMAIN anchors = 1 .. Len(anchors)
      /\ Len(anchors) \in Nat
  BY DEF TypeOK
<1>1. UNCHANGED <<leaf, pool, anchors>> /\ pc' \in {"start", "threw"}
  BY DEF GiveUp, input
<1>2. GivenUp' \subseteq GivenUp \cup {tried}
  <2>1. GivenUp = 1 .. tried - 1
    BY DEF GivenUp
  <2>2. CASE tried < Len(anchors)
    <3>1. tried' = tried + 1 /\ pc' = "start"
      BY <2>2 DEF GiveUp
    <3>2. GivenUp' = 1 .. (tried + 1) - 1
      BY <3>1 DEF GivenUp
    <3> QED BY <1>0, <2>1, <3>2
  <2>3. CASE ~(tried < Len(anchors))
    <3>1. tried = Len(anchors)
      <4>1. \A n \in Nat : \A u \in 1 .. n : ~(u < n) => u = n
        OBVIOUS
      <4> QED BY <1>0, <2>3, <4>1
    <3>2. pc' = "threw"
      BY <2>3 DEF GiveUp
    <3>3. GivenUp' = DOMAIN anchors
      BY <1>1, <3>2 DEF GivenUp
    <3> QED BY <1>0, <2>1, <3>1, <3>3
  <2> QED BY <2>2, <2>3
<1>3. \A path, a : PathTo(path, a)' <=> PathTo(path, a)
  BY <1>1 DEF PathTo, Valid, Signed, SelfIssued, ToSet
<1>4. ASSUME NEW u \in GivenUp', NEW path PROVE ~PathTo(path, anchors[u])
  <2>1. CASE u = tried
    BY <2>1 DEF Anchor
  <2>2. CASE u # tried
    BY <1>2, <2>2 DEF FailureInv
  <2> QED BY <2>1, <2>2
<1>5. \A u \in GivenUp' : \A path : ~PathTo(path, anchors[u])'
  BY <1>1, <1>3, <1>4
<1> QED BY <1>1, <1>5 DEF FailureInv

-----------------------------------------------------------------------------
(* The arguments of build do not change, and with them what is a path.     *)
LEMMA SamePaths ==
  ASSUME UNCHANGED input
  PROVE  /\ UniqueNames' <=> UniqueNames
         /\ \A path, a : PathTo(path, a)' <=> PathTo(path, a)
<1>1. UniqueNames' <=> UniqueNames
  BY DEF UniqueNames, input, ToSet
<1>2. \A path, a : PathTo(path, a)' <=> PathTo(path, a)
  BY DEF PathTo, Valid, Signed, SelfIssued, input, ToSet
<1> QED BY <1>1, <1>2

LEMMA NextKeepsInput == Next => UNCHANGED input
<1> QED
  BY DEF Next, Start, Climb, CloseAtAnchor, MeetAnchor, GiveUp, Return, input

LEMMA InitSearch == Init => SearchInv
<1> SUFFICES ASSUME Init PROVE SearchInv
  OBVIOUS
<1>1. pc = "start" /\ tried = 1
  BY DEF Init
<1>2. GivenUp = {}
  BY <1>1 DEF GivenUp
<1> QED BY <1>1, <1>2 DEF SearchInv, FailureInv

(* Steps that neither give up nor climb settle no anchor.                  *)
LEMMA ReturnSettlesNone ==
  ASSUME TypeOK, pc = "climb", FailureInv, NEW path, Return(path)
  PROVE  FailureInv'
<1>1. UNCHANGED <<leaf, pool, anchors, tried>> /\ pc' = "returned" /\ UNCHANGED input
  BY DEF Return, input
<1>2. GivenUp' = GivenUp
  BY <1>1 DEF GivenUp
<1>3. \A p, a : PathTo(p, a)' <=> PathTo(p, a)
  BY <1>1, SamePaths
<1>4. \A u \in GivenUp' : \A p : ~PathTo(p, anchors[u])'
  BY <1>1, <1>2, <1>3 DEF FailureInv
<1> QED BY <1>1, <1>4 DEF FailureInv

LEMMA StartSearch ==
  ASSUME ChainInv, UniqueNames, FailureInv, Start
  PROVE  FailureInv'
<1>0. TypeOK /\ pc = "start"
  BY DEF ChainInv, Start
<1>1. CASE ~leaf.fit /\ GiveUp
  BY <1>0, <1>1, StartFits, GivesUpRightly
<1>2. CASE /\ pc' = "climb" /\ chain' = <<leaf>> /\ current' = leaf /\ depth' = 0
           /\ UNCHANGED <<input, tried>>
  <2>1. UNCHANGED <<leaf, pool, anchors, tried>> /\ UNCHANGED input
    BY <1>2 DEF input
  <2>2. GivenUp' = GivenUp /\ Anchor' = Anchor
    BY <1>0, <1>2, <2>1 DEF GivenUp, Anchor
  <2>3. \A path, a : PathTo(path, a)' <=> PathTo(path, a)
    BY <2>1, SamePaths
  <2>4. \A u \in GivenUp' : \A path : ~PathTo(path, anchors[u])'
    BY <2>1, <2>2, <2>3 DEF FailureInv
  <2>5. ASSUME NEW path, PathTo(path, Anchor) PROVE Along(path)'
    <3>1. Len(chain') = 1 /\ chain'[1] = leaf
      BY <1>2
    <3>2. path[1] = leaf /\ Len(path) >= 1
      BY <2>5 DEF PathTo
    <3>3. depth' = Len(chain') - 1
      BY <1>2, <3>1
    <3> QED BY <1>2, <3>1, <3>2, <3>3 DEF Along, DepthTells
  <2>6. \A path : PathTo(path, Anchor)' => Along(path)'
    <3>1. \A path : PathTo(path, Anchor)' <=> PathTo(path, Anchor)
      BY <2>1, <2>2 DEF PathTo, Valid, Signed, SelfIssued, ToSet
    <3> QED BY <2>5, <3>1
  <2> QED BY <2>4, <2>6 DEF FailureInv
<1> QED BY <1>1, <1>2 DEF Start

LEMMA ClimbSearch ==
  ASSUME ChainInv, UniqueNames, FailureInv, Climb
  PROVE  FailureInv'
<1>0. /\ TypeOK /\ pc = "climb" /\ current.subject # Anchor.subject /\ Issuers # {}
      /\ \A path : PathTo(path, Anchor) => Along(path)
  BY DEF ChainInv, Climb, FailureInv
<1>1. CASE ~(PassesAsCa(Issuer) /\ Signed(current, Issuer)) /\ GiveUp
  <2>1. \A path : ~PathTo(path, Anchor)
    BY <1>0, <1>1, ClimbKeepsOn
  <2> QED BY <1>0, <1>1, <2>1, GivesUpRightly
<1>2. CASE /\ current' = Issuer
           /\ chain' = IF Issuer \in ToSet(chain) THEN chain ELSE Append(chain, Issuer)
           /\ depth' = IF depth > MaxPathLen + 1 THEN depth - 1 ELSE depth + 1
           /\ UNCHANGED <<input, tried, pc>>
  <2>1. UNCHANGED <<leaf, pool, anchors, tried, pc>> /\ UNCHANGED input
    BY <1>2 DEF input
  <2>2. GivenUp' = GivenUp /\ Anchor' = Anchor
    BY <2>1 DEF GivenUp, Anchor
  <2>3. \A path, a : PathTo(path, a)' <=> PathTo(path, a)
    BY <2>1, SamePaths
  <2>4. \A u \in GivenUp' : \A path : ~PathTo(path, anchors[u])'
    BY <2>1, <2>2, <2>3 DEF FailureInv
  <2>5. ASSUME NEW path, PathTo(path, Anchor) PROVE Along(path)'
    <3>0. /\ Along(path) /\ chain \in Seq(Certs)
          /\ depth \in Nat /\ MaxPathLen \in Nat /\ Len(chain) \in Nat /\ Len(chain) >= 1
      BY <1>0, <2>5, ChainAssumption DEF TypeOK, Along
    <3>1. /\ Len(chain) + 1 \in 1 .. Len(path)
          /\ Issuer = path[Len(chain) + 1] /\ Issuer \notin ToSet(chain)
      BY <1>0, <2>5, <3>0, ClimbKeepsOn
    <3>2. /\ chain' = Append(chain, Issuer) /\ Len(chain') = Len(chain) + 1
          /\ chain'[Len(chain) + 1] = Issuer
          /\ \A i \in 1 .. Len(chain) : chain'[i] = chain[i]
      BY <1>2, <3>0, <3>1
    <3>3. \A i \in 1 .. Len(chain') : chain'[i] = path[i]
      <4> SUFFICES ASSUME NEW i \in 1 .. Len(chain') PROVE chain'[i] = path[i]
        OBVIOUS
      <4>1. CASE i = Len(chain) + 1
        BY <3>1, <3>2, <4>1
      <4>2. CASE i # Len(chain) + 1
        <5>1. i \in 1 .. Len(chain)
          BY <3>0, <3>2, <4>2
        <5> QED BY <3>0, <3>2, <5>1 DEF Along
      <4> QED BY <4>1, <4>2
    <3>4. \A i \in 1 .. Len(chain') - 1 : path[i] # Anchor'
      <4> SUFFICES ASSUME NEW i \in 1 .. Len(chain) PROVE path[i] # Anchor
        BY <2>2, <3>0, <3>2
      <4>1. CASE i = Len(chain)
        BY <1>0, <3>0, <4>1 DEF Along
      <4>2. CASE i # Len(chain)
        BY <3>0, <4>2 DEF Along
      <4> QED BY <4>1, <4>2
    <3>5. current' = path[Len(chain')]
      BY <1>2, <3>1, <3>2
    <3>6. DepthTells'
      BY <1>2, <3>0, <3>2 DEF Along, DepthTells
    <3>7. Len(chain') >= 1 /\ Len(chain') <= Len(path)
      BY <2>5, <3>0, <3>1, <3>2 DEF PathTo
    <3> QED BY <3>3, <3>4, <3>5, <3>6, <3>7 DEF Along
  <2>6. \A path : PathTo(path, Anchor)' => Along(path)'
    <3>1. \A path : PathTo(path, Anchor)' <=> PathTo(path, Anchor)
      BY <2>1, <2>2 DEF PathTo, Valid, Signed, SelfIssued, ToSet
    <3> QED BY <2>5, <3>1
  <2> QED BY <2>4, <2>6 DEF FailureInv
<1> QED BY <1>1, <1>2 DEF Climb

LEMMA CloseSearch ==
  ASSUME ChainInv, UniqueNames, FailureInv, CloseAtAnchor
  PROVE  FailureInv'
<1> DEFINE closes == /\ current.issuer = Anchor.subject
                     /\ PassesAsCa(Anchor)
                     /\ Signed(current, Anchor)
                     /\ Permitted(Append(chain, Anchor))
<1>0. /\ TypeOK /\ pc = "climb" /\ current.subject # Anchor.subject /\ Issuers = {}
      /\ \A path : PathTo(path, Anchor) => Along(path)
  BY DEF ChainInv, CloseAtAnchor, FailureInv
<1>1. CASE ~closes /\ GiveUp
  <2>1. \A path : ~PathTo(path, Anchor)
    BY <1>0, <1>1, CloseKeepsOn
  <2> QED BY <1>0, <1>1, <2>1, GivesUpRightly
<1>2. CASE Return(Append(chain, Anchor))
  BY <1>0, <1>2, ReturnSettlesNone
<1> QED BY <1>1, <1>2 DEF CloseAtAnchor

LEMMA MeetSearch ==
  ASSUME ChainInv, UniqueNames, FailureInv, MeetAnchor
  PROVE  FailureInv'
<1>0. /\ TypeOK /\ pc = "climb" /\ current.subject = Anchor.subject
      /\ \A path : PathTo(path, Anchor) => Along(path)
  BY DEF ChainInv, MeetAnchor, FailureInv
<1>1. CASE ~(MeetsAnchor /\ Permitted(chain)) /\ GiveUp
  <2>1. \A path : ~PathTo(path, Anchor)
    BY <1>0, <1>1, MeetKeepsOn
  <2> QED BY <1>0, <1>1, <2>1, GivesUpRightly
<1>2. CASE Return(chain)
  BY <1>0, <1>2, ReturnSettlesNone
<1> QED BY <1>1, <1>2 DEF MeetAnchor

LEMMA SearchHolds == Spec => [](ChainInv /\ SearchInv)
<1>1. ChainInv /\ SearchInv /\ [Next]_vars => SearchInv'
  <2> SUFFICES ASSUME ChainInv, SearchInv, [Next]_vars, UniqueNames'
               PROVE  FailureInv'
    BY DEF SearchInv
  <2>1. UNCHANGED input
    BY NextKeepsInput DEF vars
  <2>2. UniqueNames /\ FailureInv
    BY <2>1, SamePaths DEF SearchInv
  <2>3. CASE Next
    BY <2>2, <2>3, StartSearch, ClimbSearch, CloseSearch, MeetSearch DEF Next
  <2>4. CASE UNCHANGED vars
    <3>1. UNCHANGED <<leaf, pool, anchors, tried, pc, chain, current, depth>>
      BY <2>4 DEF vars, input
    <3>2. /\ GivenUp' = GivenUp /\ Anchor' = Anchor
          /\ \A path, a : PathTo(path, a)' <=> PathTo(path, a)
      BY <2>1, <3>1, SamePaths DEF GivenUp, Anchor
    <3>3. \A path : PathTo(path, Anchor)' <=> PathTo(path, Anchor)
      BY <3>1, <3>2 DEF PathTo, Valid, Signed, SelfIssued, ToSet
    <3>4. \A path : Along(path)' <=> Along(path)
      BY <3>1, <3>2 DEF Along, DepthTells
    <3>5. \A u \in GivenUp' : \A path : ~PathTo(path, anchors[u])'
      BY <2>2, <3>1, <3>2 DEF FailureInv
    <3> QED BY <2>2, <3>1, <3>3, <3>4, <3>5 DEF FailureInv
  <2> QED BY <2>3, <2>4
<1> QED BY <1>1, InitSearch, ChainHolds, PTL DEF Spec

(* A sequence of intermediates between the leaf and an anchor is a path.   *)
LEMMA BetweenIsPath ==
  ASSUME TypeOK, NEW above \in SeqOf(ToSet(pool), Len(pool)), NEW a \in ToSet(anchors),
         Valid(<<leaf>> \o Append(above, a))
  PROVE  PathTo(<<leaf>> \o Append(above, a), a)
<1> DEFINE path == <<leaf>> \o Append(above, a)
<1>0. /\ above \in Seq(ToSet(pool)) /\ Len(above) \in Nat
      /\ ToSet(pool) \subseteq Certs /\ a \in Certs /\ leaf \in Certs
  <2>1. Len(pool) \in Nat
    BY DEF TypeOK
  <2>2. above \in Seq(ToSet(pool))
    BY <2>1, SeqOfIsSeq
  <2> QED BY <2>2 DEF TypeOK, ToSet, Certs
<1>1. above \in Seq(Certs)
  BY <1>0
<1>2. /\ path \in Seq(Certs) /\ Len(path) = Len(above) + 2
      /\ path[1] = leaf /\ path[Len(above) + 2] = a
      /\ \A i \in 2 .. Len(above) + 1 : path[i] = above[i - 1]
  BY <1>0, <1>1
<1>3. ASSUME NEW i \in 2 .. Len(path) - 1 PROVE path[i] \in ToSet(pool)
  <2>1. i \in 2 .. Len(above) + 1 /\ i - 1 \in 1 .. Len(above)
    BY <1>0, <1>2
  <2> QED BY <1>0, <1>2, <2>1
<1> HIDE DEF path
<1>4. PathTo(path, a)
  BY <1>0, <1>2, <1>3 DEF PathTo, path
<1> QED BY <1>4 DEF path

(* The search never backtracks, and yet, when no two certificates share a  *)
(* name, it fails only where no selection of the intermediates, in any     *)
(* order, is a valid path from the leaf to any of the anchors.             *)
THEOREM FailureMeansNoPathCorrect == Spec => []FailureMeansNoPath
<1>1. ChainInv /\ SearchInv => FailureMeansNoPath
  <2> SUFFICES ASSUME ChainInv, SearchInv, pc = "threw", UniqueNames,
                      NEW above \in SeqOf(ToSet(pool), Len(pool)),
                      NEW a \in ToSet(anchors),
                      Valid(<<leaf>> \o Append(above, a))
               PROVE  FALSE
    BY DEF FailureMeansNoPath
  <2>1. PathTo(<<leaf>> \o Append(above, a), a)
    BY BetweenIsPath DEF ChainInv
  <2>2. PICK t \in DOMAIN anchors : a = anchors[t]
    BY DEF ToSet
  <2>3. \A path : ~PathTo(path, anchors[t])
    BY <2>2 DEF SearchInv, FailureInv, GivenUp
  <2> QED BY <2>1, <2>2, <2>3
<1> QED BY <1>1, SearchHolds, PTL

=============================================================================
