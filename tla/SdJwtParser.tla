----------------------------- MODULE SdJwtParser -----------------------------
(***************************************************************************)
(* SdJwtParser.parse: issuer key, signature, trust, disclosures, holder    *)
(* binding, claims.  A disclosure is committed to by its digest, either in *)
(* the payload the issuer signed or in the value of another disclosure, so *)
(* which disclosures count is a closure, computed pass by pass.            *)
(***************************************************************************)
EXTENDS CredentialParser

CONSTANTS
  Disclosures,   \* what a disclosure can be; each stands for its digest too
  Properties,    \* those with three elements: [salt, name, value]
  Elements,      \* those with two elements: [salt, value]
  RefKv,         \* RefKv[d]: the _sd digests in the value of d
  RefElems       \* RefElems[d]: the {"...": digest} placeholders in it

ASSUME DisclosureAssumption ==
  /\ Properties \subseteq Disclosures
  /\ Elements \subseteq Disclosures
  /\ Properties \cap Elements = {}
  /\ RefKv \in [Disclosures -> SUBSET Disclosures]
  /\ RefElems \in [Disclosures -> SUBSET Disclosures]

VARIABLES
  remaining,     \* disclosures nothing has been found to commit to yet
  kvHashes,      \* digests found in an _sd array
  elemHashes     \* digests found in an array placeholder

closureVars == <<remaining, kvHashes, elemHashes>>
sdVars == <<parserVars, closureVars>>

Presented == {token.disclosures[i] : i \in 1..Len(token.disclosures)}

SdInit ==
  /\ pc = "split"
  /\ verdict = "pending"
  /\ remaining = {}
  /\ kvHashes = {}
  /\ elemHashes = {}
  /\ token.disclosures \in Seq(Disclosures)
  /\ token.issuerKv \subseteq Disclosures
  /\ token.issuerElems \subseteq Disclosures

-----------------------------------------------------------------------------
ReadHeader ==
  /\ Check("split", ~token.splits,
           token.splits /\ token.alg \notin options.allowedAlgorithms, "issuerKey")
  /\ UNCHANGED closureVars

(* An x5c header takes precedence over the trusted JWKs.                   *)
SelectIssuerKey ==
  /\ Check("issuerKey",
           \/ token.x5c = "unreadable"
           \/ token.x5c = None /\ options.trustedIssuerJwks = <<>>,
           FALSE, "signature")
  /\ UNCHANGED closureVars

(* The trusted JWKs the header allows: the first with its kid, or all.     *)
Candidate(i) ==
  /\ i \in 1..Len(options.trustedIssuerJwks)
  /\ token.kid # None =>
       /\ options.trustedIssuerJwks[i].kid = token.kid
       /\ \A j \in 1..(i - 1) : options.trustedIssuerJwks[j].kid # token.kid

(* The signature and the expiry of the issuer JWT; a JWK that cannot be    *)
(* imported for the algorithm is passed over.                              *)
IssuerSigned ==
  /\ token.current
  /\ IF token.x5c # None THEN token.signedBy = token.x5c
     ELSE \E i \in 1..Len(options.trustedIssuerJwks) :
            /\ Candidate(i)
            /\ options.trustedIssuerJwks[i].imports
            /\ options.trustedIssuerJwks[i].key = token.signedBy

VerifyIssuerSignature ==
  /\ Check("signature", FALSE, ~IssuerSigned, "trust")
  /\ UNCHANGED closureVars

(* A key from the trusted JWKs is trusted as it is.                        *)
CheckIssuerTrust ==
  /\ Check("trust", token.x5c # None /\ TrustThrows(token.x5c),
           token.x5c # None /\ TrustRejects(token.x5c), "disclosures")
  /\ UNCHANGED closureVars

-----------------------------------------------------------------------------
DecodeDisclosures ==
  /\ Check("disclosures", FALSE, ~(Presented \subseteq Properties \cup Elements), "anchoring")
  /\ remaining' = Presented
  /\ kvHashes' = token.issuerKv
  /\ elemHashes' = token.issuerElems

Anchored_AnyKind ==
  {d \in remaining : d \in kvHashes \cup elemHashes}

(* A property counts only from an _sd array, an element only from a        *)
(* placeholder.                                                            *)
Anchored ==
  {d \in remaining : \/ d \in Properties /\ d \in kvHashes
                     \/ d \in Elements /\ d \in elemHashes}

DigestsOf(Ref, D) == UNION {Ref[d] : d \in D}

AnchorPass_Shallow ==
  /\ pc = "anchoring"
  /\ Anchored # {}
  /\ remaining' = remaining \ Anchored
  /\ UNCHANGED <<kvHashes, elemHashes, parserVars>>

AnchorPass_Again ==
  /\ pc = "anchoring"
  /\ Anchored # {}
  /\ kvHashes' = kvHashes \cup DigestsOf(RefKv, Anchored)
  /\ elemHashes' = elemHashes \cup DigestsOf(RefElems, Anchored)
  /\ UNCHANGED <<remaining, parserVars>>

(* One pass of the loop: what is anchored adds the digests in its value.   *)
AnchorPass ==
  /\ pc = "anchoring"
  /\ Anchored # {}
  /\ remaining' = remaining \ Anchored
  /\ kvHashes' = kvHashes \cup DigestsOf(RefKv, Anchored)
  /\ elemHashes' = elemHashes \cup DigestsOf(RefElems, Anchored)
  /\ UNCHANGED parserVars

EndAnchoring ==
  /\ Anchored = {}
  /\ Check("anchoring", FALSE, remaining # {}, "binding")
  /\ UNCHANGED closureVars

-----------------------------------------------------------------------------
(* Holder binding: due when the issuer put a holder key into the           *)
(* credential, or when the caller insists.                                 *)
KeyBindingRequired_OnDemand == options.requireKeyBinding

KeyBindingRequired == token.cnf # None \/ options.requireKeyBinding

RequireKeyBinding ==
  /\ LET absent == token.kb = None
     IN Check("binding", ~absent /\ token.cnf = None,
              IF absent THEN KeyBindingRequired ELSE options.nonce \in {None, "empty"},
              IF absent THEN "claims" ELSE "holderKey")
  /\ UNCHANGED closureVars

ImportHolderKey ==
  /\ Check("holderKey",
           \/ token.kb.alg = "unreadable"
           \/ token.kb.alg \in options.allowedAlgorithms /\ token.cnf = "unusable",
           token.kb.alg \notin options.allowedAlgorithms, "holder")
  /\ UNCHANGED closureVars

(* The KB-JWT: signature, exp and nbf, audience if the caller names one,   *)
(* nonce, and the digest over what was presented, in the order it was      *)
(* presented.                                                              *)
HolderProved ==
  /\ token.kb.signedBy = token.cnf
  /\ token.kb.current
  /\ options.audience # None => token.kb.aud = options.audience
  /\ token.kb.nonce = options.nonce
  /\ token.kb.sdHash = token.disclosures

VerifyKeyBinding ==
  /\ Check("holder", FALSE, ~HolderProved, "claims")
  /\ UNCHANGED closureVars

(* decodeSdJwt and getClaims resolve the disclosures into claims.          *)
ExtractClaims ==
  /\ Finish("claims", ~token.resolves, FALSE)
  /\ UNCHANGED closureVars

SdNext ==
  \/ ReadHeader \/ SelectIssuerKey \/ VerifyIssuerSignature \/ CheckIssuerTrust
  \/ DecodeDisclosures \/ AnchorPass \/ EndAnchoring
  \/ RequireKeyBinding \/ ImportHolderKey \/ VerifyKeyBinding \/ ExtractClaims

SdSpec == SdInit /\ [][SdNext]_sdVars

-----------------------------------------------------------------------------
(* The reference: the least set of presented disclosures that holds every  *)
(* one committed to, in the place for its kind, by the issuer's payload or *)
(* by the value of a disclosure of the set.                                *)
Closed(S) ==
  \A d \in Presented :
    \/ d \in Properties /\ d \in token.issuerKv \cup DigestsOf(RefKv, S)
    \/ d \in Elements /\ d \in token.issuerElems \cup DigestsOf(RefElems, S)
    => d \in S

Referenced == {d \in Presented : \A S \in SUBSET Presented : Closed(S) => d \in S}

(* A string with a tilde. *)
IsSdJwt == token.form = "sdJwt"

(* The passes compute the closure: when no pass anchors any more, what is  *)
(* left over is what nothing commits to - a disclosure deep in the value   *)
(* of another is not refused, one that only an uncommitted disclosure, or  *)
(* a commitment of the wrong kind, refers to is.                           *)
LeftoverIsUnreferenced ==
  pc = "anchoring" /\ Anchored = {} => remaining = Presented \ Referenced

(* Claims are only read from disclosures the issuer has committed to.      *)
AcceptedIsReferenced ==
  (pc = "claims" \/ verdict = "valid") /\ IsSdJwt => Presented \subseteq Referenced

=============================================================================
