---------------------------- MODULE ChainBuilder ----------------------------
(***************************************************************************)
(* ChainBuilder.build: from the leaf up to one of the trust anchors,       *)
(* through the intermediates that came with the leaf.  The anchors are     *)
(* tried in order; for each the path is extended by the first intermediate *)
(* that bears the issuer's name, without backtracking, until it meets the  *)
(* anchor or a check throws.                                               *)
(*                                                                         *)
(* Of a certificate the model keeps the names, the key it certifies, the   *)
(* key that signed it, and what the checks find in it: `fit' is validity   *)
(* period, algorithm and key usage, `permits' whether its name constraints *)
(* admit the names of the leaf.  A signature is valid under the key that   *)
(* made it, and an Authority Key Identifier that does not match goes with  *)
(* a signature that does not either.                                       *)
(***************************************************************************)
EXTENDS Naturals, SequencesExt

CONSTANTS
  Leaves, CaCerts,   \* the certificates there are
  MaxPathLen,        \* the largest pathLenConstraint among them
  NoLimit,           \* a pathLenConstraint that is absent
  MaxPool,           \* bound: so many intermediates come with the leaf
  MaxAnchors         \* bound: so many anchors are given

Certs == Leaves \cup CaCerts

Attributes == {"subject", "issuer", "key", "signer", "fit", "ca", "pathLen",
               "permits"}

ASSUME ChainAssumption ==
  /\ MaxPathLen \in Nat /\ MaxPool \in Nat /\ MaxAnchors \in Nat \ {0}
  /\ NoLimit \notin Nat
  /\ \A c \in Certs :
       /\ DOMAIN c = Attributes
       /\ {c.fit, c.ca, c.permits} \subseteq BOOLEAN
       /\ c.pathLen \in 0 .. MaxPathLen \cup {NoLimit}

VARIABLES
  leaf, pool, anchors,   \* the arguments of build
  tried,                 \* which anchor tryBuild is at
  pc,
  chain,                 \* the path so far, the leaf first
  current,               \* the certificate the path has come to
  depth                  \* nonLeafDepth

input == <<leaf, pool, anchors>>
vars  == <<input, tried, pc, chain, current, depth>>

(* Beyond MaxPathLen depth takes turns between two values, which no        *)
(* constraint tells apart, and a certificate met again is not recorded     *)
(* again: a search that goes round in circles stays in finitely many       *)
(* states.                                                                 *)
TypeOK ==
  /\ leaf \in Leaves
  /\ pool \in Seq(CaCerts)
  /\ anchors \in Seq(CaCerts) /\ tried \in DOMAIN anchors
  /\ pc \in {"start", "climb", "returned", "threw"}
  /\ chain \in Seq(Certs) /\ current \in Certs
  /\ depth \in 0 .. MaxPathLen + 2

(* An anchor is given because the leaf or an intermediate names it or its  *)
(* key, or by the OCSP client, which has no intermediates.                 *)
Hinted(c) ==
  \/ pool = <<>>
  \/ \E d \in {leaf} \cup ToSet(pool) : d.issuer = c.subject \/ d.signer = c.key

Distinct(n) == {s \in SeqOf(CaCerts, n) : IsInjective(s)}

Init ==
  /\ leaf \in Leaves
  /\ pool \in Distinct(MaxPool)
  /\ anchors \in Distinct(MaxAnchors) \ {<<>>}
  /\ \A c \in ToSet(anchors) : Hinted(c)
  /\ tried = 1
  /\ pc = "start"
  /\ chain = <<>>
  /\ current = leaf
  /\ depth = 0

-----------------------------------------------------------------------------
Anchor == anchors[tried]

(* tryBuild throws: build goes on to the next anchor, if there is one. *)
GiveUp_AtFirst ==
  /\ pc' = "threw"
  /\ UNCHANGED <<input, tried, chain, current, depth>>

GiveUp_Retries ==
  /\ pc' = "start"
  /\ UNCHANGED <<input, tried, chain, current, depth>>

GiveUp ==
  /\ IF tried < Len(anchors)
     THEN tried' = tried + 1 /\ pc' = "start"
     ELSE pc' = "threw" /\ UNCHANGED tried
  /\ UNCHANGED <<input, chain, current, depth>>

(* checkPerCert and checkCaAndPathLen. *)
PassesAsCa(cert) ==
  cert.fit /\ cert.ca /\ (cert.pathLen # NoLimit => depth <= cert.pathLen)

(* verifySignature and checkAkiSkiMatch. *)
Signed(child, issuer) == child.signer = issuer.key

(* checkNameConstraints, of every certificate above the leaf. *)
Permitted(path) == \A i \in 2 .. Len(path) : path[i].permits

Return(path) ==
  /\ pc' = "returned"
  /\ chain' = path
  /\ UNCHANGED <<input, tried, current, depth>>

Start ==
  /\ pc = "start"
  /\ \/ /\ leaf.fit
        /\ pc' = "climb" /\ chain' = <<leaf>> /\ current' = leaf /\ depth' = 0
        /\ UNCHANGED <<input, tried>>
     \/ ~leaf.fit /\ GiveUp

Issuers == {i \in DOMAIN pool : pool[i].subject = current.issuer}
Issuer  == pool[CHOOSE i \in Issuers : \A j \in Issuers : i <= j]

Climb ==
  /\ pc = "climb"
  /\ current.subject # Anchor.subject
  /\ Issuers # {}
  /\ \/ /\ PassesAsCa(Issuer) /\ Signed(current, Issuer)
        /\ current' = Issuer
        /\ chain' = IF Issuer \in ToSet(chain) THEN chain ELSE Append(chain, Issuer)
        /\ depth' = IF depth > MaxPathLen + 1 THEN depth - 1 ELSE depth + 1
        /\ UNCHANGED <<input, tried, pc>>
     \/ ~(PassesAsCa(Issuer) /\ Signed(current, Issuer)) /\ GiveUp

(* No intermediate bears the issuer's name: the anchor has to. *)
CloseAtAnchor ==
  LET path   == Append(chain, Anchor)
      closes == /\ current.issuer = Anchor.subject
                /\ PassesAsCa(Anchor)
                /\ Signed(current, Anchor)
                /\ Permitted(path)
  IN /\ pc = "climb"
     /\ current.subject # Anchor.subject
     /\ Issuers = {}
     /\ \/ closes /\ Return(path)
        \/ ~closes /\ GiveUp

(* The path has come to a certificate with the anchor's name, which must   *)
(* be the anchor and not merely share it.                                  *)
MeetsAnchor_ByName == TRUE

MeetsAnchor == current = Anchor

MeetAnchor ==
  /\ pc = "climb"
  /\ current.subject = Anchor.subject
  /\ \/ MeetsAnchor /\ Permitted(chain) /\ Return(chain)
     \/ ~(MeetsAnchor /\ Permitted(chain)) /\ GiveUp

Next == Start \/ Climb \/ CloseAtAnchor \/ MeetAnchor

Spec == Init /\ [][Next]_vars /\ WF_vars(Next)

-----------------------------------------------------------------------------
SelfIssued(cert) == cert.subject = cert.issuer

(* What RFC 5280 asks of a path, in the part the class comment claims: it  *)
(* is linked by names and signatures, every certificate is fit for its     *)
(* place, and no CA is followed by more CAs, the self-issued not counted,  *)
(* than it allows.                                                         *)
Valid(path) ==
  /\ \A i \in 1 .. Len(path) - 1 :
       path[i].issuer = path[i + 1].subject /\ Signed(path[i], path[i + 1])
  /\ \A i \in 2 .. Len(path) :
       /\ path[i].ca /\ path[i].permits
       /\ path[i].pathLen # NoLimit =>
            Cardinality({j \in 2 .. i - 1 : ~SelfIssued(path[j])}) <= path[i].pathLen
  /\ \A i \in DOMAIN path : path[i].fit

(* A chain that is returned is a valid path from the leaf to one of the    *)
(* anchors, and not to a certificate that only bears an anchor's name.     *)
ReturnedChainIsValid ==
  pc = "returned" => /\ chain[1] = leaf
                     /\ Last(chain) \in ToSet(anchors)
                     /\ Valid(chain)

UniqueNames ==
  \A c, d \in {leaf} \cup ToSet(pool) \cup ToSet(anchors) :
    c.subject = d.subject => c = d

(* Although it never backtracks, the search fails only when there is no    *)
(* valid path, as long as no two certificates share a name.                *)
FailureMeansNoPath ==
  pc = "threw" /\ UniqueNames =>
    \A above \in SeqOf(ToSet(pool), Len(pool)), a \in ToSet(anchors) :
      ~Valid(<<leaf>> \o Append(above, a))

Circle ==
  \E S \in SUBSET ToSet(pool) \ {{}} : \A c \in S : \E d \in S : c.issuer = d.subject

Ended == pc \in {"returned", "threw"}

(* The search ends unless the intermediates close a circle of names. *)
EndsWithoutCircle == ~Circle ~> Ended

-----------------------------------------------------------------------------
(* `Try each anchor; first one that closes a valid chain wins', and build  *)
(* throws on any validation failure: it comes to an end.                   *)
SearchEnds == <>Ended
=============================================================================
