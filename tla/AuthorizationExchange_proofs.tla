--------------------- MODULE AuthorizationExchange_proofs ---------------------
(***************************************************************************)
(* What an accepted answer guarantees, and which answers are accepted, for *)
(* all cases of AuthorizationExchange.                                     *)
(***************************************************************************)
EXTENDS AuthorizationExchange, WellFoundedInduction, TLAPS

-----------------------------------------------------------------------------
(* The disclosures.                                                        *)
Settled == Presented \ remaining

ClosureInv ==
  /\ pc # "done" => verdict = "pending"
  /\ pc = "anchoring" =>
       /\ Presented \subseteq Properties \cup Elements
       /\ remaining \subseteq Presented
       /\ kvHashes = token.issuerKv \cup DigestsOf(RefKv, Settled)
       /\ elemHashes = token.issuerElems \cup DigestsOf(RefElems, Settled)
       /\ Settled \subseteq Referenced
  /\ IsSdJwt /\ (pc \in {"binding", "holderKey", "holder", "claims"} \/ verdict = "valid")
       => Presented \subseteq Referenced

(* More disclosures commit to more.                                        *)
LEMMA DigestsGrow ==
  ASSUME NEW Ref, NEW S, NEW T, S \subseteq T
  PROVE  DigestsOf(Ref, S) \subseteq DigestsOf(Ref, T)
  BY DEF DigestsOf

LEMMA DigestsOfUnion ==
  ASSUME NEW Ref, NEW S, NEW T
  PROVE  DigestsOf(Ref, S \cup T) = DigestsOf(Ref, S) \cup DigestsOf(Ref, T)
  BY DEF DigestsOf

(* When no pass anchors any more, what is settled is closed.               *)
LEMMA SettledIsClosed ==
  ASSUME ClosureInv, pc = "anchoring", Anchored = {}
  PROVE  Settled = Referenced
<1>1. Closed(Settled)
  BY DEF ClosureInv, Anchored, Closed, Settled
<1>2. Settled \in SUBSET Presented
  BY DEF Settled
<1>3. Referenced \subseteq Settled
  BY <1>1, <1>2 DEF Referenced
<1> QED
  BY <1>3 DEF ClosureInv

(* What a pass anchors is referenced.                                      *)
LEMMA AnchoredIsReferenced ==
  ASSUME ClosureInv, pc = "anchoring"
  PROVE  Anchored \subseteq Referenced
<1>0. Anchored \subseteq Presented
  BY DEF Anchored, ClosureInv
<1> SUFFICES ASSUME NEW d \in Anchored, NEW S \in SUBSET Presented, Closed(S)
             PROVE  d \in S
  BY <1>0 DEF Referenced
<1>1. d \in Presented
  BY <1>0
<1>2. Settled \subseteq S
  BY DEF ClosureInv, Referenced
<1>3. CASE d \in Properties /\ d \in kvHashes
  <2>1. d \in token.issuerKv \cup DigestsOf(RefKv, S)
    BY <1>2, <1>3, DigestsGrow DEF ClosureInv
  <2> QED
    BY <1>1, <1>3, <2>1 DEF Closed
<1>4. CASE d \in Elements /\ d \in elemHashes
  <2>1. d \in token.issuerElems \cup DigestsOf(RefElems, S)
    BY <1>2, <1>4, DigestsGrow DEF ClosureInv
  <2> QED
    BY <1>1, <1>4, <2>1 DEF Closed
<1> QED
  BY <1>3, <1>4 DEF Anchored

LEMMA LeftoverFollows == ClosureInv => LeftoverIsUnreferenced
<1> SUFFICES ASSUME ClosureInv, pc = "anchoring", Anchored = {}
             PROVE  remaining = Presented \ Referenced
  BY DEF LeftoverIsUnreferenced
<1>1. Settled = Referenced
  BY SettledIsClosed
<1>2. remaining \subseteq Presented
  BY DEF ClosureInv
<1> QED
  BY <1>1, <1>2 DEF Settled


-----------------------------------------------------------------------------
(* Where a parser is, and of which parser.                                 *)
AfterSignature ==
  {"trust", "disclosures", "anchoring", "binding", "holderKey", "holder", "claims"}
AfterTrust == AfterSignature \ {"trust"}
SdSteps == {"split", "issuerKey", "signature"} \cup AfterSignature

AfterCertificate == {"cose", "mso", "docType", "digests", "device"}
AfterCose == AfterCertificate \ {"cose"}
AfterMso == AfterCose \ {"mso"}
MdocSteps == {"deviceResponse", "issuerAuth", "x5chain"} \cup AfterCertificate

StageInv ==
  /\ pc # "done" => verdict = "pending" /\ outcome = "pending"
  /\ pc \in SdSteps => IsSdJwt
  /\ pc \in MdocSteps => ~IsSdJwt
  /\ outcome = "accepted" => verdict = "valid"

(* What the checks passed so far have shown of an SD-JWT ...               *)
TrustPassed(cert) == ~TrustThrows(cert) /\ ~TrustRejects(cert)

SdInv ==
  IsSdJwt =>
    /\ pc \in AfterSignature \/ verdict = "valid" => IssuerSigned
    /\ pc \in AfterTrust \/ verdict = "valid" => (token.x5c # None => TrustPassed(token.x5c))
    /\ pc \in {"holderKey", "holder"} => token.kb # None
    /\ pc = "claims" \/ verdict = "valid" =>
         \/ token.kb = None /\ ~KeyBindingRequired
         \/ token.kb # None /\ HolderProved

(* ... and of an mdoc.                                                     *)
MdocInv ==
  ~IsSdJwt =>
    /\ pc \in AfterCertificate \/ verdict = "valid" => TrustPassed(token.x5chain[1])
    /\ pc \in AfterCose \/ verdict = "valid" => token.signedBy = token.x5chain[1]
    /\ pc \in AfterMso \/ verdict = "valid" => ~MsoMalformed /\ ~Expired
    /\ pc = "device" \/ verdict = "valid" =>
         /\ digestMismatchIgnored <=> DigestMismatch
         /\ DigestMismatch => options.allowDigestMismatch
    /\ verdict = "valid" => DeviceProved /\ options.mdocSessionTranscript # None

(* The options are the caller's, but for the transcript, which is the      *)
(* caller's or was built from the options.                                 *)
Built ==
  \/ IsFinalProfile /\ options.mdocSessionTranscript = FinalTranscript
  \/ ~IsFinalProfile /\ \E n : options.mdocSessionTranscript = IsoTranscript(n)

OptionsInv ==
  /\ case.options = [f \in OptionFields |-> case.options[f]]
  /\ \E t : options = [case.options EXCEPT !.mdocSessionTranscript = t]
  /\ options.mdocSessionTranscript = case.options.mdocSessionTranscript \/ Built

ExchangeInv == StageInv /\ ClosureInv /\ SdInv /\ MdocInv /\ OptionsInv

-----------------------------------------------------------------------------
(* A step that leaves the token and the options alone changes nothing that *)
(* was shown of them.                                                      *)
LEMMA Frozen ==
  ASSUME UNCHANGED <<token, options>>
  PROVE  /\ IsSdJwt' <=> IsSdJwt
         /\ Presented' = Presented
         /\ Referenced' = Referenced
         /\ IssuerSigned' <=> IssuerSigned
         /\ (token.x5c # None => TrustPassed(token.x5c))'
              <=> (token.x5c # None => TrustPassed(token.x5c))
         /\ KeyBindingRequired' <=> KeyBindingRequired
         /\ HolderProved' <=> HolderProved
         /\ TrustPassed(token.x5chain[1])' <=> TrustPassed(token.x5chain[1])
         /\ MsoMalformed' <=> MsoMalformed
         /\ Expired' <=> Expired
         /\ DigestMismatch' <=> DigestMismatch
         /\ DeviceProved' <=> DeviceProved
<1>1. Presented' = Presented
  BY DEF Presented
<1>2. ASSUME NEW S PROVE Closed(S)' <=> Closed(S)
  BY <1>1 DEF Closed, DigestsOf
<1>3. Referenced' = Referenced
  BY <1>1, <1>2 DEF Referenced
<1>4. IssuerSigned' <=> IssuerSigned
  BY DEF IssuerSigned, Candidate
<1>5. /\ TrustPassed(token.x5chain[1])' <=> TrustPassed(token.x5chain[1])
      /\ (token.x5c # None => TrustPassed(token.x5c))'
            <=> (token.x5c # None => TrustPassed(token.x5c))
  BY DEF TrustPassed, TrustThrows, TrustRejects
<1>6. /\ KeyBindingRequired' <=> KeyBindingRequired
      /\ HolderProved' <=> HolderProved
  BY DEF KeyBindingRequired, HolderProved
<1>7. /\ MsoMalformed' <=> MsoMalformed
      /\ Expired' <=> Expired
      /\ DigestMismatch' <=> DigestMismatch
  BY DEF MsoMalformed, Expired, Before, DigestMismatch
<1>8. DeviceProved' <=> DeviceProved
  BY DEF DeviceProved
<1>9. IsSdJwt' <=> IsSdJwt
  BY DEF IsSdJwt
<1> QED
  BY <1>1, <1>3, <1>4, <1>5, <1>6, <1>7, <1>8, <1>9

-----------------------------------------------------------------------------
(* The steps, one by one.                                                  *)
LEMMA StageStep ==
  ASSUME StageInv, [Next]_vars
  PROVE  StageInv'
<1>1. CASE BuildQuery
  BY <1>1 DEF StageInv, SdSteps, MdocSteps, AfterSignature, AfterCertificate, BuildQuery, Check, Passes, exchangeVars, IsSdJwt
<1>2. CASE CreateRequest
  BY <1>2 DEF StageInv, SdSteps, MdocSteps, AfterSignature, AfterCertificate, CreateRequest, Check, Passes, exchangeVars, IsSdJwt
<1>3. CASE OpenEncrypted
  BY <1>3 DEF StageInv, SdSteps, MdocSteps, AfterSignature, AfterCertificate, OpenEncrypted, Check, Passes, exchangeVars, IsSdJwt
<1>4. CASE OpenPlain
  BY <1>4 DEF StageInv, SdSteps, MdocSteps, AfterSignature, AfterCertificate, OpenPlain, Check, Passes, exchangeVars, IsSdJwt
<1>5. CASE ChooseParser
  BY <1>5 DEF StageInv, SdSteps, MdocSteps, AfterSignature, AfterCertificate, ChooseParser, Check, Passes, exchangeVars, IsSdJwt
<1>6. CASE SdNext /\ UNCHANGED <<digestMismatchIgnored, exchangeVars>>
  <2>1. CASE ReadHeader
    BY <1>6, <2>1 DEF StageInv, SdSteps, MdocSteps, AfterSignature, AfterCertificate, ReadHeader, Check, Passes, Finish, parserVars, exchangeVars, IsSdJwt
  <2>2. CASE SelectIssuerKey
    BY <1>6, <2>2 DEF StageInv, SdSteps, MdocSteps, AfterSignature, AfterCertificate, SelectIssuerKey, Check, Passes, Finish, parserVars, exchangeVars, IsSdJwt
  <2>3. CASE VerifyIssuerSignature
    BY <1>6, <2>3 DEF StageInv, SdSteps, MdocSteps, AfterSignature, AfterCertificate, VerifyIssuerSignature, Check, Passes, Finish, parserVars, exchangeVars, IsSdJwt
  <2>4. CASE CheckIssuerTrust
    BY <1>6, <2>4 DEF StageInv, SdSteps, MdocSteps, AfterSignature, AfterCertificate, CheckIssuerTrust, Check, Passes, Finish, parserVars, exchangeVars, IsSdJwt
  <2>5. CASE DecodeDisclosures
    BY <1>6, <2>5 DEF StageInv, SdSteps, MdocSteps, AfterSignature, AfterCertificate, DecodeDisclosures, Check, Passes, Finish, parserVars, exchangeVars, IsSdJwt
  <2>6. CASE AnchorPass
    BY <1>6, <2>6 DEF StageInv, SdSteps, MdocSteps, AfterSignature, AfterCertificate, AnchorPass, Check, Passes, Finish, parserVars, exchangeVars, IsSdJwt
  <2>7. CASE EndAnchoring
    BY <1>6, <2>7 DEF StageInv, SdSteps, MdocSteps, AfterSignature, AfterCertificate, EndAnchoring, Check, Passes, Finish, parserVars, exchangeVars, IsSdJwt
  <2>8. CASE RequireKeyBinding
    BY <1>6, <2>8 DEF StageInv, SdSteps, MdocSteps, AfterSignature, AfterCertificate, RequireKeyBinding, Check, Passes, Finish, parserVars, exchangeVars, IsSdJwt
  <2>9. CASE ImportHolderKey
    BY <1>6, <2>9 DEF StageInv, SdSteps, MdocSteps, AfterSignature, AfterCertificate, ImportHolderKey, Check, Passes, Finish, parserVars, exchangeVars, IsSdJwt
  <2>10. CASE VerifyKeyBinding
    BY <1>6, <2>10 DEF StageInv, SdSteps, MdocSteps, AfterSignature, AfterCertificate, VerifyKeyBinding, Check, Passes, Finish, parserVars, exchangeVars, IsSdJwt
  <2>11. CASE ExtractClaims
    BY <1>6, <2>11 DEF StageInv, SdSteps, MdocSteps, AfterSignature, AfterCertificate, ExtractClaims, Check, Passes, Finish, parserVars, exchangeVars, IsSdJwt
  <2> QED
    BY <1>6, <2>1, <2>2, <2>3, <2>4, <2>5, <2>6, <2>7, <2>8, <2>9, <2>10, <2>11 DEF SdNext
<1>7. CASE MdocNext /\ UNCHANGED <<closureVars, exchangeVars>>
  <2>1. CASE DecodeResponse
    BY <1>7, <2>1 DEF StageInv, SdSteps, MdocSteps, AfterSignature, AfterCertificate, DecodeResponse, Check, Passes, Finish, exchangeVars, IsSdJwt
  <2>2. CASE DecodeIssuerAuth
    BY <1>7, <2>2 DEF StageInv, SdSteps, MdocSteps, AfterSignature, AfterCertificate, DecodeIssuerAuth, Check, Passes, Finish, exchangeVars, IsSdJwt
  <2>3. CASE CheckCertificate
    BY <1>7, <2>3 DEF StageInv, SdSteps, MdocSteps, AfterSignature, AfterCertificate, CheckCertificate, Check, Passes, Finish, exchangeVars, IsSdJwt
  <2>4. CASE VerifyIssuerAuth
    BY <1>7, <2>4 DEF StageInv, SdSteps, MdocSteps, AfterSignature, AfterCertificate, VerifyIssuerAuth, Check, Passes, Finish, exchangeVars, IsSdJwt
  <2>5. CASE ValidateMso
    BY <1>7, <2>5 DEF StageInv, SdSteps, MdocSteps, AfterSignature, AfterCertificate, ValidateMso, Check, Passes, Finish, exchangeVars, IsSdJwt
  <2>6. CASE ValidateDocType
    BY <1>7, <2>6 DEF StageInv, SdSteps, MdocSteps, AfterSignature, AfterCertificate, ValidateDocType, Check, Passes, Finish, exchangeVars, IsSdJwt
  <2>7. CASE VerifyDigests
    BY <1>7, <2>7 DEF StageInv, SdSteps, MdocSteps, AfterSignature, AfterCertificate, VerifyDigests, Check, Passes, Finish, exchangeVars, IsSdJwt
  <2>8. CASE AuthenticateDevice
    BY <1>7, <2>8 DEF StageInv, SdSteps, MdocSteps, AfterSignature, AfterCertificate, AuthenticateDevice, Check, Passes, Finish, exchangeVars, IsSdJwt
  <2> QED
    BY <1>7, <2>1, <2>2, <2>3, <2>4, <2>5, <2>6, <2>7, <2>8 DEF MdocNext
<1>8. CASE Conclude
  BY <1>8 DEF StageInv, SdSteps, MdocSteps, AfterSignature, AfterCertificate, Conclude, sdVars, parserVars, IsSdJwt
<1>9. CASE UNCHANGED vars
  BY <1>9 DEF StageInv, SdSteps, MdocSteps, AfterSignature, AfterCertificate, vars, sdVars, parserVars, exchangeVars, IsSdJwt
<1> QED
  BY <1>1, <1>2, <1>3, <1>4, <1>5, <1>6, <1>7, <1>8, <1>9 DEF Next, Parse

(* Before its issuer is known nothing is claimed of a presentation.        *)
Nothing ==
  /\ verdict # "valid"
  /\ pc \notin AfterSignature \cup AfterCertificate
  /\ pc # "done" => verdict = "pending"

LEMMA NothingClaimed == Nothing => ClosureInv /\ SdInv /\ MdocInv
  BY DEF Nothing, ClosureInv, SdInv, MdocInv, AfterSignature, AfterTrust,
         AfterCertificate, AfterCose, AfterMso

EarlyStep ==
  \/ BuildQuery \/ CreateRequest \/ OpenEncrypted \/ OpenPlain \/ ChooseParser
  \/ ReadHeader \/ SelectIssuerKey \/ DecodeResponse \/ DecodeIssuerAuth

LEMMA EarlySteps ==
  ASSUME StageInv, EarlyStep
  PROVE  (ClosureInv /\ SdInv /\ MdocInv)'
<1> SUFFICES Nothing'
  BY NothingClaimed, PTL
<1>1. CASE BuildQuery
  BY <1>1 DEF StageInv, BuildQuery, Check, Passes, Nothing, AfterSignature, AfterCertificate
<1>2. CASE CreateRequest
  BY <1>2 DEF StageInv, CreateRequest, Check, Passes, Nothing, AfterSignature, AfterCertificate
<1>3. CASE OpenEncrypted
  BY <1>3 DEF StageInv, OpenEncrypted, Check, Passes, Nothing, AfterSignature, AfterCertificate
<1>4. CASE OpenPlain
  BY <1>4 DEF StageInv, OpenPlain, Check, Passes, Nothing, AfterSignature, AfterCertificate
<1>5. CASE ChooseParser
  BY <1>5 DEF StageInv, ChooseParser, Check, Passes, Nothing, AfterSignature, AfterCertificate
<1>6. CASE ReadHeader
  BY <1>6 DEF StageInv, ReadHeader, Check, Passes, Nothing, AfterSignature, AfterCertificate
<1>7. CASE SelectIssuerKey
  BY <1>7 DEF StageInv, SelectIssuerKey, Check, Passes, Nothing, AfterSignature, AfterCertificate
<1>8. CASE DecodeResponse
  BY <1>8 DEF StageInv, DecodeResponse, Check, Passes, Nothing, AfterSignature, AfterCertificate
<1>9. CASE DecodeIssuerAuth
  BY <1>9 DEF StageInv, DecodeIssuerAuth, Check, Passes, Nothing, AfterSignature, AfterCertificate
<1> QED
  BY <1>1, <1>2, <1>3, <1>4, <1>5, <1>6, <1>7, <1>8, <1>9 DEF EarlyStep

(* From the signature on an SD-JWT gains one fact a step.                  *)
LateSdStep ==
  \/ VerifyIssuerSignature \/ CheckIssuerTrust
  \/ DecodeDisclosures \/ AnchorPass \/ EndAnchoring
  \/ RequireKeyBinding \/ ImportHolderKey \/ VerifyKeyBinding \/ ExtractClaims

LEMMA SdFactSteps ==
  ASSUME StageInv, SdInv, LateSdStep
  PROVE  (SdInv /\ MdocInv)'
<1>0. /\ UNCHANGED <<token, options>>
      /\ IsSdJwt
  BY DEF StageInv, SdSteps, AfterSignature, LateSdStep, VerifyIssuerSignature, CheckIssuerTrust,
         DecodeDisclosures, AnchorPass, EndAnchoring, RequireKeyBinding, ImportHolderKey,
         VerifyKeyBinding, ExtractClaims, Check, Passes, Finish, parserVars
<1>f. /\ IsSdJwt'
      /\ IssuerSigned' <=> IssuerSigned
      /\ (token.x5c # None => TrustPassed(token.x5c))'
            <=> (token.x5c # None => TrustPassed(token.x5c))
      /\ KeyBindingRequired' <=> KeyBindingRequired
      /\ HolderProved' <=> HolderProved
  BY <1>0, Frozen
<1> SUFFICES SdInv'
  BY <1>f DEF MdocInv
<1> USE <1>0, <1>f DEF StageInv, SdInv, AfterSignature, AfterTrust
<1>1. CASE VerifyIssuerSignature
  BY <1>1 DEF VerifyIssuerSignature, Check, Passes
<1>2. CASE CheckIssuerTrust
  BY <1>2 DEF CheckIssuerTrust, Check, Passes, TrustPassed
<1>3. CASE DecodeDisclosures
  BY <1>3 DEF DecodeDisclosures, Check, Passes
<1>4. CASE AnchorPass
  BY <1>4 DEF AnchorPass, Check, Passes, parserVars
<1>5. CASE EndAnchoring
  BY <1>5 DEF EndAnchoring, Check, Passes
<1>6. CASE RequireKeyBinding
  BY <1>6 DEF RequireKeyBinding, Check, Passes
<1>7. CASE ImportHolderKey
  BY <1>7 DEF ImportHolderKey, Check, Passes
<1>8. CASE VerifyKeyBinding
  BY <1>8 DEF VerifyKeyBinding, Check, Passes
<1>9. CASE ExtractClaims
  BY <1>9 DEF ExtractClaims, Check, Passes, Finish
<1> QED
  BY <1>1, <1>2, <1>3, <1>4, <1>5, <1>6, <1>7, <1>8, <1>9 DEF LateSdStep

LEMMA SdClosureSteps ==
  ASSUME StageInv, ClosureInv, LateSdStep
  PROVE  ClosureInv'
<1>0. /\ UNCHANGED <<token, options>>
      /\ IsSdJwt
  BY DEF StageInv, SdSteps, AfterSignature, LateSdStep, VerifyIssuerSignature, CheckIssuerTrust,
         DecodeDisclosures, AnchorPass, EndAnchoring, RequireKeyBinding, ImportHolderKey,
         VerifyKeyBinding, ExtractClaims, Check, Passes, Finish, parserVars
<1>f. /\ IsSdJwt' <=> IsSdJwt
      /\ Presented' = Presented
      /\ Referenced' = Referenced
  BY <1>0, Frozen
<1>1. CASE DecodeDisclosures
  <2>1. Settled' = {}
    BY <1>1, <1>f DEF Settled, DecodeDisclosures
  <2>2. /\ DigestsOf(RefKv, {}) = {}
        /\ DigestsOf(RefElems, {}) = {}
    BY DEF DigestsOf
  <2>3. pc' = "anchoring" => Presented' \subseteq Properties \cup Elements
    BY <1>1, <1>f DEF DecodeDisclosures, Check, Passes
  <2>4. pc' \in {"anchoring", "done"} /\ verdict' # "valid" /\ (pc' # "done" => verdict' = "pending")
    BY <1>1 DEF DecodeDisclosures, Check, Passes, StageInv
  <2>5. remaining' = Presented' /\ kvHashes' = token'.issuerKv /\ elemHashes' = token'.issuerElems
    BY <1>0, <1>1, <1>f DEF DecodeDisclosures
  <2>6. /\ DigestsOf(RefKv, Settled') = {}
        /\ DigestsOf(RefElems, Settled') = {}
    BY <2>1, <2>2
  <2> QED
    BY <2>1, <2>3, <2>4, <2>5, <2>6 DEF ClosureInv
<1>2. CASE AnchorPass
  <2>1. pc = "anchoring" /\ pc' = "anchoring" /\ verdict' = verdict
    BY <1>2 DEF AnchorPass, parserVars
  <2>2. Anchored \subseteq remaining /\ remaining \subseteq Presented
    BY <2>1 DEF Anchored, ClosureInv
  <2>3. Settled' = Settled \cup Anchored
    BY <1>2, <1>f, <2>2 DEF Settled, AnchorPass
  <2>4. Settled' \subseteq Referenced'
    BY <1>f, <2>1, <2>3, AnchoredIsReferenced DEF ClosureInv
  <2>5. kvHashes' = token'.issuerKv \cup DigestsOf(RefKv, Settled')
    BY <1>0, <1>2, <2>1, <2>3, DigestsOfUnion DEF ClosureInv, AnchorPass
  <2>6. elemHashes' = token'.issuerElems \cup DigestsOf(RefElems, Settled')
    BY <1>0, <1>2, <2>1, <2>3, DigestsOfUnion DEF ClosureInv, AnchorPass
  <2>7. remaining' \subseteq Presented' /\ Presented' \subseteq Properties \cup Elements
    BY <1>2, <1>f, <2>1, <2>2 DEF ClosureInv, AnchorPass
  <2> QED
    BY <2>1, <2>4, <2>5, <2>6, <2>7 DEF ClosureInv
<1>3. CASE EndAnchoring
  <2>1. pc = "anchoring" /\ Anchored = {} /\ pc' \in {"binding", "done"} /\ verdict' # "valid"
        /\ (pc' # "done" => verdict' = "pending" /\ remaining = {})
    BY <1>3 DEF EndAnchoring, Check, Passes, StageInv
  <2>2. Settled = Referenced
    BY <2>1, SettledIsClosed
  <2>3. pc' = "binding" => Presented' \subseteq Referenced'
    BY <1>f, <2>1, <2>2 DEF Settled
  <2> QED
    BY <2>1, <2>3 DEF ClosureInv
<1>4. CASE VerifyIssuerSignature \/ CheckIssuerTrust
  BY <1>4 DEF VerifyIssuerSignature, CheckIssuerTrust, Check, Passes, StageInv, ClosureInv
<1>5. CASE RequireKeyBinding \/ ImportHolderKey \/ VerifyKeyBinding \/ ExtractClaims
  <2>1. /\ pc \in {"binding", "holderKey", "holder", "claims"}
        /\ pc' # "anchoring" /\ (pc' # "done" => verdict' = "pending")
    BY <1>5 DEF RequireKeyBinding, ImportHolderKey, VerifyKeyBinding, ExtractClaims,
                Check, Passes, Finish, StageInv
  <2> QED
    BY <1>0, <1>f, <2>1 DEF ClosureInv
<1> QED
  BY <1>1, <1>2, <1>3, <1>4, <1>5 DEF LateSdStep

(* So does an mdoc from its certificate on.                                *)
LateMdocStep ==
  \/ CheckCertificate \/ VerifyIssuerAuth \/ ValidateMso \/ ValidateDocType
  \/ VerifyDigests \/ AuthenticateDevice

LEMMA MdocFactSteps ==
  ASSUME StageInv, MdocInv, LateMdocStep
  PROVE  (ClosureInv /\ SdInv /\ MdocInv)'
<1>0. /\ UNCHANGED <<token, options>>
      /\ ~IsSdJwt
      /\ pc' # "anchoring"
      /\ pc' # "done" => verdict' = "pending"
  BY DEF StageInv, MdocSteps, AfterCertificate, LateMdocStep, CheckCertificate, VerifyIssuerAuth,
         ValidateMso, ValidateDocType, VerifyDigests, AuthenticateDevice, Check, Passes, Finish
<1>f. /\ ~IsSdJwt'
      /\ TrustPassed(token.x5chain[1])' <=> TrustPassed(token.x5chain[1])
      /\ MsoMalformed' <=> MsoMalformed
      /\ Expired' <=> Expired
      /\ DigestMismatch' <=> DigestMismatch
      /\ DeviceProved' <=> DeviceProved
  BY <1>0, Frozen
<1> SUFFICES MdocInv'
  BY <1>0, <1>f DEF SdInv, ClosureInv
<1> USE <1>0, <1>f DEF StageInv, MdocInv, AfterCertificate, AfterCose, AfterMso
<1>1. CASE CheckCertificate
  BY <1>1 DEF CheckCertificate, Check, Passes, TrustPassed
<1>2. CASE VerifyIssuerAuth
  BY <1>2 DEF VerifyIssuerAuth, Check, Passes
<1>3. CASE ValidateMso
  BY <1>3 DEF ValidateMso, Check, Passes
<1>4. CASE ValidateDocType
  BY <1>4 DEF ValidateDocType, Check, Passes
<1>5. CASE VerifyDigests
  BY <1>5 DEF VerifyDigests, Check, Passes
<1>6. CASE AuthenticateDevice
  BY <1>6 DEF AuthenticateDevice, Check, Passes, Finish
<1> QED
  BY <1>1, <1>2, <1>3, <1>4, <1>5, <1>6 DEF LateMdocStep

(* The verdict on the exchange, or no step, leaves the parser as it is.    *)
LEMMA QuietSteps ==
  ASSUME ClosureInv, SdInv, MdocInv, Conclude \/ UNCHANGED vars
  PROVE  (ClosureInv /\ SdInv /\ MdocInv)'
<1>1. UNCHANGED <<token, options, pc, verdict, remaining, kvHashes, elemHashes,
                  digestMismatchIgnored>>
  BY DEF Conclude, vars, sdVars, parserVars, closureVars
<1>2. /\ IsSdJwt' <=> IsSdJwt
      /\ Presented' = Presented
      /\ Referenced' = Referenced
      /\ IssuerSigned' <=> IssuerSigned
      /\ (token.x5c # None => TrustPassed(token.x5c))'
            <=> (token.x5c # None => TrustPassed(token.x5c))
      /\ KeyBindingRequired' <=> KeyBindingRequired
      /\ HolderProved' <=> HolderProved
      /\ TrustPassed(token.x5chain[1])' <=> TrustPassed(token.x5chain[1])
      /\ MsoMalformed' <=> MsoMalformed
      /\ Expired' <=> Expired
      /\ DigestMismatch' <=> DigestMismatch
      /\ DeviceProved' <=> DeviceProved
  BY <1>1, Frozen
<1>3. Settled' = Settled
  BY <1>1, <1>2 DEF Settled
<1>4. ClosureInv'
  BY <1>1, <1>2, <1>3 DEF ClosureInv
<1>5. SdInv'
  BY <1>1, <1>2 DEF SdInv
<1>6. MdocInv'
  BY <1>1, <1>2 DEF MdocInv
<1> QED
  BY <1>4, <1>5, <1>6

(* The option records differ in the transcript only.                       *)
LEMMA SameOptions ==
  ASSUME OptionsInv, NEW f \in OptionFields, f # "mdocSessionTranscript"
  PROVE  options[f] = case.options[f]
  BY DEF OptionsInv

LEMMA OptionsStep ==
  ASSUME OptionsInv, [Next]_vars
  PROVE  OptionsInv'
<1>1. CASE OpenEncrypted
  <2>1. UNCHANGED case
    BY <1>1 DEF OpenEncrypted
  <2>2. CASE UNCHANGED options
    BY <2>1, <2>2 DEF OptionsInv, Built, IsFinalProfile, FinalTranscript, IsoTranscript
  <2>3. CASE BuildsTranscript /\ options' = [options EXCEPT !.mdocSessionTranscript =
                 IF IsFinalProfile THEN FinalTranscript ELSE IsoTranscript(envelope.apu)]
    <3> DEFINE new == IF IsFinalProfile THEN FinalTranscript ELSE IsoTranscript(envelope.apu)
    <3>1. PICK t : options = [case.options EXCEPT !.mdocSessionTranscript = t]
      BY DEF OptionsInv
    <3>2. DOMAIN options = OptionFields
      BY <3>1 DEF OptionsInv
    <3>3. options' = [case.options EXCEPT !.mdocSessionTranscript = new]
      BY <2>3, <3>1 DEF OptionsInv
    <3>4. options'.mdocSessionTranscript = new
      BY <2>3, <3>2 DEF OptionFields
    <3>5. /\ options'.clientId = options.clientId
          /\ options'.nonce = options.nonce
          /\ options'.responseUri = options.responseUri
          /\ options'.verifierEncryptionJwk = options.verifierEncryptionJwk
          /\ options'.sessionTranscriptProfile = options.sessionTranscriptProfile
      BY <2>3, <3>2 DEF OptionFields
    <3>6. /\ IsFinalProfile' <=> IsFinalProfile
          /\ FinalTranscript' = FinalTranscript
      BY <3>5 DEF IsFinalProfile, FinalTranscript
    <3>7. ASSUME NEW n PROVE IsoTranscript(n)' = IsoTranscript(n)
      BY <3>5 DEF IsoTranscript
    <3>8. Built'
      <4>1. CASE IsFinalProfile
        BY <3>4, <3>6, <4>1 DEF Built
      <4>2. CASE ~IsFinalProfile
        <5>1. PICK n : n = envelope.apu
          OBVIOUS
        <5>2. options'.mdocSessionTranscript = IsoTranscript(n)
          BY <3>4, <4>2, <5>1
        <5>3. IsoTranscript(n)' = IsoTranscript(n)
          BY <3>7
        <5> QED
          BY <3>6, <4>2, <5>2, <5>3 DEF Built
      <4> QED
        BY <4>1, <4>2
    <3> QED
      BY <2>1, <3>3, <3>8 DEF OptionsInv
  <2> QED
    BY <1>1, <2>2, <2>3 DEF OpenEncrypted
<1>2. CASE UNCHANGED <<case, options>>
  BY <1>2 DEF OptionsInv, Built, IsFinalProfile, FinalTranscript, IsoTranscript
<1>3. [Next]_vars => OpenEncrypted \/ UNCHANGED <<case, options>>
  BY DEF Next, BuildQuery, CreateRequest, OpenPlain, ChooseParser, Conclude, Parse, vars, exchangeVars,
         sdVars, parserVars, Check, Passes, Finish, SdNext, ReadHeader, SelectIssuerKey,
         VerifyIssuerSignature, CheckIssuerTrust, DecodeDisclosures, AnchorPass, EndAnchoring,
         RequireKeyBinding, ImportHolderKey, VerifyKeyBinding, ExtractClaims, MdocNext,
         DecodeResponse, DecodeIssuerAuth, CheckCertificate, VerifyIssuerAuth, ValidateMso,
         ValidateDocType, VerifyDigests, AuthenticateDevice
<1> QED
  BY <1>1, <1>2, <1>3

-----------------------------------------------------------------------------
LEMMA ExchangeInvHolds == Spec => []ExchangeInv
<1>1. Init => ExchangeInv
  <2> SUFFICES ASSUME Init PROVE ExchangeInv
    OBVIOUS
  <2>1. StageInv
    BY DEF Init, StageInv, SdSteps, MdocSteps, AfterSignature, AfterCertificate
  <2>2. ClosureInv /\ SdInv /\ MdocInv
    BY NothingClaimed DEF Init, Nothing, AfterSignature, AfterCertificate
  <2>3. OptionsInv
    <3>1. case.options = [f \in OptionFields |-> case.options[f]]
      BY ExchangeAssumption DEF Init
    <3>2. options = [case.options EXCEPT !.mdocSessionTranscript = case.options.mdocSessionTranscript]
      BY <3>1 DEF Init
    <3> QED
      BY <3>1, <3>2 DEF Init, OptionsInv
  <2> QED
    BY <2>1, <2>2, <2>3 DEF ExchangeInv
<1>2. ExchangeInv /\ [Next]_vars => ExchangeInv'
  <2> SUFFICES ASSUME ExchangeInv, [Next]_vars PROVE ExchangeInv'
    OBVIOUS
  <2>1. StageInv' /\ OptionsInv'
    BY StageStep, OptionsStep DEF ExchangeInv
  <2>2. CASE EarlyStep
    BY <2>1, <2>2, EarlySteps DEF ExchangeInv
  <2>3. CASE LateSdStep
    BY <2>1, <2>3, SdFactSteps, SdClosureSteps DEF ExchangeInv
  <2>4. CASE LateMdocStep
    BY <2>1, <2>4, MdocFactSteps DEF ExchangeInv
  <2>5. CASE Conclude \/ UNCHANGED vars
    BY <2>1, <2>5, QuietSteps DEF ExchangeInv
  <2> QED
    BY <2>2, <2>3, <2>4, <2>5
       DEF Next, Parse, SdNext, MdocNext, EarlyStep, LateSdStep, LateMdocStep
<1> QED
  BY <1>1, <1>2, PTL DEF Spec

(* The passes over the disclosures compute the closure (sd-jwt.parser.ts,  *)
(* the loop over the remaining disclosures).                               *)
THEOREM LeftoverCorrect == Spec => []LeftoverIsUnreferenced
<1>1. ExchangeInv => LeftoverIsUnreferenced
  BY LeftoverFollows DEF ExchangeInv
<1> QED
  BY <1>1, ExchangeInvHolds, PTL

(* Claims are only read from disclosures the issuer has committed to.      *)
THEOREM ReferencedCorrect == Spec => []AcceptedIsReferenced
<1>1. ExchangeInv => AcceptedIsReferenced
  BY DEF ExchangeInv, ClosureInv, AcceptedIsReferenced
<1> QED
  BY <1>1, ExchangeInvHolds, PTL

LEMMA TrustPassedIsVouched ==
  ASSUME NEW cert, TrustPassed(cert)
  PROVE  Vouched(cert)
  BY DEF TrustPassed, TrustThrows, TrustRejects, Vouched, VouchedBy

(* An accepted credential was signed by an issuer the options vouch for,   *)
(* was valid at the time, and is shown as it was issued unless the caller  *)
(* debugs: none of the checks the verdict stands for can be passed over.   *)
THEOREM VouchedForCorrect == Spec => []AcceptedIsVouchedFor
<1>1. ExchangeInv => AcceptedIsVouchedFor
  <2> SUFFICES ASSUME ExchangeInv, outcome = "accepted" PROVE AcceptedIsVouchedFor
    BY DEF AcceptedIsVouchedFor
  <2>1. verdict = "valid"
    BY DEF ExchangeInv, StageInv
  <2>2. CASE IsSdJwt
    <3>1. IssuerSigned /\ (token.x5c # None => TrustPassed(token.x5c))
      BY <2>1, <2>2 DEF ExchangeInv, SdInv
    <3>2. CASE token.x5c # None
      BY <2>2, <3>1, <3>2, TrustPassedIsVouched DEF AcceptedIsVouchedFor, IssuerSigned
    <3>3. CASE token.x5c = None
      BY <2>2, <3>1, <3>3 DEF AcceptedIsVouchedFor, IssuerSigned, Candidate
    <3> QED
      BY <3>2, <3>3
  <2>3. CASE ~IsSdJwt
    <3>1. /\ Vouched(token.x5chain[1])
          /\ token.signedBy = token.x5chain[1]
          /\ ~MsoMalformed /\ ~Expired
          /\ digestMismatchIgnored <=> DigestMismatch
          /\ DigestMismatch => options.allowDigestMismatch
      BY <2>1, <2>3, TrustPassedIsVouched DEF ExchangeInv, MdocInv
    <3> DEFINE dates == <<token.validFrom, token.signed, Now, token.validUntil>>
    <3>2. ASSUME NEW i \in 1..4, NEW j \in 1..4, i < j, Readable(dates[i], dates[j])
          PROVE  ~(dates[j] < dates[i])
      <4>1. i \in {1, 2, 3} /\ j \in {2, 3, 4}
        BY <3>2
      <4>2. ~Before(dates[j], dates[i])
        BY <3>1, <3>2, <4>1 DEF MsoMalformed, Expired
      <4> QED BY <3>2, <4>2 DEF Before, Readable
    <3>3. options.allowDigestMismatch = case.options.allowDigestMismatch
      BY SameOptions DEF ExchangeInv, OptionFields
    <3> QED
      BY <2>3, <3>1, <3>2, <3>3 DEF AcceptedIsVouchedFor, DigestMismatch
  <2> QED
    BY <2>2, <2>3
<1> QED
  BY <1>1, ExchangeInvHolds, PTL

(* What the holder signed names this request: its nonce, and the client    *)
(* and response URI the transcript or the audience holds.                  *)
THEOREM AnswersThisRequestCorrect == Spec => []AcceptedAnswersThisRequest
<1>1. ExchangeInv => AcceptedAnswersThisRequest
  <2> SUFFICES ASSUME ExchangeInv, outcome = "accepted", CallerUsesRequest
               PROVE  AcceptedAnswersThisRequest
    BY DEF AcceptedAnswersThisRequest
  <2>1. verdict = "valid"
    BY DEF ExchangeInv, StageInv
  <2>2. CASE IsSdJwt
    BY <2>1, <2>2 DEF AcceptedAnswersThisRequest, ExchangeInv, SdInv, CallerUsesRequest,
                      KeyBindingRequired, HolderProved
  <2>3. CASE ~IsSdJwt
    <3>1. /\ token.device.signedBy = token.deviceKey
          /\ token.device.transcript = options.mdocSessionTranscript
          /\ options.mdocSessionTranscript # None
      BY <2>1, <2>3 DEF ExchangeInv, MdocInv, DeviceProved
    <3>2. Built
      BY <3>1 DEF ExchangeInv, OptionsInv, CallerUsesRequest
    <3>3. BoundToRequest(options.mdocSessionTranscript)
      <4>1. CASE IsFinalProfile
        <5>1. options.mdocSessionTranscript = FinalTranscript
          BY <3>2, <4>1 DEF Built
        <5> QED
          BY <4>1, <5>1 DEF FinalTranscript, BoundToRequest, CallerUsesRequest
      <4>2. CASE ~IsFinalProfile
        <5>1. PICK n : options.mdocSessionTranscript = IsoTranscript(n)
          BY <3>2, <4>2 DEF Built
        <5>2. options.mdocSessionTranscript =
                [handover |-> "OID4VPHandover", clientId |-> <<options.clientId, n>>,
                 responseUri |-> <<options.responseUri, n>>, nonce |-> options.nonce]
          BY <3>1, <5>1 DEF IsoTranscript
        <5> QED
          BY <5>2 DEF BoundToRequest, CallerUsesRequest
      <4> QED
        BY <4>1, <4>2
    <3> QED
      BY <2>3, <3>1, <3>3 DEF AcceptedAnswersThisRequest
  <2> QED
    BY <2>2, <2>3
<1> QED
  BY <1>1, ExchangeInvHolds, PTL

-----------------------------------------------------------------------------
(* The request that leaves the verifier: it is created after the query and *)
(* neither changes afterwards.                                             *)
Typed(in) ==
  /\ in.haip.format \in {"dc+sd-jwt", "mso_mdoc"}
  /\ None \notin in.haip.vctValues
  /\ in.clientIdPrefix \in {"x509_hash", "x509_san_dns"}
  /\ in.encryptionKey # None => in.encryptionKey.key # None

RequestInv ==
  /\ Typed(case.input)
  /\ pc \in {"query", "request"} => request = None
  /\ pc = "request" => IsHaipQuery(query)
  /\ SentRequestIsBacked

LEMMA SignedIsBacked ==
  ASSUME NEW in, Typed(in), ~SignedRefused(in)
  PROVE  /\ Leaf(in).key = in.signer
         /\ \/ SignedRequest(in).clientId = <<"x509_hash", Leaf(in).cert>>
            \/ \E name \in Leaf(in).dnsNames :
                 SignedRequest(in).clientId = <<"x509_san_dns", name>>
         /\ in.responseMode = "direct_post.jwt" =>
              /\ SignedRequest(in).encryptionKey # None
              /\ SignedRequest(in).encValues # {}
<1>1. Leaf(in).key = in.signer
  BY DEF SignedRefused
<1>2. CASE in.clientIdPrefix = "x509_hash"
  BY <1>1, <1>2 DEF SignedRequest, SignedRefused, Typed
<1>3. CASE in.clientIdPrefix = "x509_san_dns"
  <2>1. in.hostname \in Leaf(in).dnsNames
    BY <1>3 DEF SignedRefused
  <2>2. SignedRequest(in).clientId = <<"x509_san_dns", in.hostname>>
    BY <1>3 DEF SignedRequest
  <2> QED BY <1>1, <2>1, <2>2 DEF SignedRequest, SignedRefused, Typed
<1> QED BY <1>2, <1>3 DEF Typed

LEMMA RequestStep == RequestInv /\ [Next]_vars => RequestInv'
<1> SUFFICES ASSUME RequestInv, [Next]_vars PROVE RequestInv'
  OBVIOUS
<1>1. CASE BuildQuery
  <2>1. /\ UNCHANGED <<case, request>> /\ request = None
        /\ pc' = "request" => QueryBuilds(case.input.haip) /\ query' = BuiltQuery(case.input.haip)
        /\ pc' # "query"
    BY <1>1 DEF BuildQuery, Check, Passes, RequestInv
  <2>2. ASSUME QueryBuilds(case.input.haip) PROVE IsHaipQuery(BuiltQuery(case.input.haip))
    <3> DEFINE in == case.input.haip
    <3>1. /\ in.claims # {} /\ in.format \in {"dc+sd-jwt", "mso_mdoc"}
          /\ None \notin in.vctValues
          /\ IF in.format = "dc+sd-jwt" THEN in.vctValues # {} ELSE in.doctypeValue # None
      BY <2>2 DEF QueryBuilds, RequestInv, Typed
    <3>2. CASE in.format = "dc+sd-jwt"
      <4>1. /\ BuiltQuery(in).format = in.format /\ BuiltQuery(in).types = in.vctValues
            /\ BuiltQuery(in).claims = {<<c>> : c \in in.claims}
        BY <3>2 DEF BuiltQuery
      <4>2. {<<c>> : c \in in.claims} # {}
        BY <3>1
      <4> QED BY <3>1, <3>2, <4>1, <4>2 DEF IsHaipQuery
    <3>3. CASE in.format # "dc+sd-jwt"
      <4>1. /\ BuiltQuery(in).format = in.format /\ BuiltQuery(in).types = {in.doctypeValue}
            /\ BuiltQuery(in).claims = {<<Namespace(in.doctypeValue), c>> : c \in in.claims}
        BY <3>3 DEF BuiltQuery
      <4>2. {<<Namespace(in.doctypeValue), c>> : c \in in.claims} # {}
        BY <3>1
      <4> QED BY <3>1, <3>3, <4>1, <4>2 DEF IsHaipQuery
    <3> QED BY <3>2, <3>3
  <2>3. Typed(case.input)'
    BY <2>1 DEF RequestInv, Typed
  <2>4. (pc = "request" => IsHaipQuery(query))'
    BY <2>1, <2>2 DEF IsHaipQuery
  <2> QED BY <2>1, <2>3, <2>4 DEF RequestInv, SentRequestIsBacked
<1>2. CASE CreateRequest
  <2> DEFINE in == case.input
             refused == IF in.signed THEN SignedRefused(in) ELSE PlainRefused(in)
  <2>1. /\ UNCHANGED <<case, query>> /\ pc = "request" /\ pc' \notin {"query", "request"}
        /\ request' = IF refused THEN None
                      ELSE IF in.signed THEN SignedRequest(in) ELSE PlainRequest(in)
    BY <1>2 DEF CreateRequest, Check, Passes, Refused, RequestFor
  <2>2. Typed(in) /\ IsHaipQuery(query)
    BY <2>1 DEF RequestInv
  <2>3. Typed(case.input)' /\ IsHaipQuery(query)'
    BY <2>1, <2>2 DEF Typed, IsHaipQuery
  <2>4. CASE request' = None
    BY <2>1, <2>3, <2>4 DEF RequestInv, SentRequestIsBacked
  <2>5. CASE in.signed /\ ~SignedRefused(in) /\ request' = SignedRequest(in)
    <3>1. SentRequestIsBacked'
      BY <2>1, <2>2, <2>3, <2>5, SignedIsBacked DEF SentRequestIsBacked, Leaf
    <3> QED BY <2>1, <2>3, <3>1 DEF RequestInv
  <2>6. CASE ~in.signed
    BY <2>1, <2>3, <2>6 DEF RequestInv, SentRequestIsBacked
  <2> QED BY <2>1, <2>4, <2>5, <2>6
<1>3. CASE /\ UNCHANGED <<case, query, request>>
           /\ pc' \in {"query", "request"} => pc' = pc
  BY <1>3 DEF RequestInv, Typed, SentRequestIsBacked, IsHaipQuery, Leaf
<1>4. BuildQuery \/ CreateRequest \/ (UNCHANGED <<case, query, request>>
        /\ (pc' \in {"query", "request"} => pc' = pc))
  BY DEF Next, OpenEncrypted, OpenPlain, ChooseParser, Conclude, Parse, vars, exchangeVars,
         sdVars, parserVars, Check, Passes, Finish, SdNext, ReadHeader, SelectIssuerKey,
         VerifyIssuerSignature, CheckIssuerTrust, DecodeDisclosures, AnchorPass, EndAnchoring,
         RequireKeyBinding, ImportHolderKey, VerifyKeyBinding, ExtractClaims, MdocNext,
         DecodeResponse, DecodeIssuerAuth, CheckCertificate, VerifyIssuerAuth, ValidateMso,
         ValidateDocType, VerifyDigests, AuthenticateDevice
<1> QED BY <1>1, <1>2, <1>3, <1>4

LEMMA InitRequest == Init => RequestInv
<1> SUFFICES ASSUME Init PROVE RequestInv
  OBVIOUS
<1>1. Typed(case.input)
  BY InputAssumption DEF Init, Typed
<1> QED BY <1>1 DEF Init, RequestInv, SentRequestIsBacked

(* What leaves the verifier can be stood behind: a query the library itself *)
(* takes for valid, a client id that the signer's certificate carries, and  *)
(* a key and a cipher wherever an encrypted answer is asked for.            *)
THEOREM SentRequestIsBackedCorrect == Spec => []SentRequestIsBacked
<1>1. RequestInv => SentRequestIsBacked
  BY DEF RequestInv
<1> QED BY <1>1, InitRequest, RequestStep, PTL DEF Spec

-----------------------------------------------------------------------------
(* The other direction: whoever conforms gets through.  Disclosures that   *)
(* hang on those before them are in every closed set, by induction on what *)
(* comes before.                                                           *)
LEMMA AnchorsAreReferenced ==
  ASSUME Anchors(token)
  PROVE  Presented \subseteq Referenced /\ Presented \subseteq Properties \cup Elements
<1>0. Presented = Shown(token)
  BY DEF Presented, Shown
<1>1. PICK rank \in [Presented -> 1 .. Len(token.disclosures)] :
        \A d \in Presented :
          \/ HangsOn(d, token.issuerKv, token.issuerElems)
          \/ \E e \in Presented : rank[e] < rank[d] /\ HangsOn(d, RefKv[e], RefElems[e])
  BY <1>0 DEF Anchors
<1>2. Presented \subseteq Properties \cup Elements
  BY <1>1 DEF HangsOn
<1>3. ASSUME NEW S \in SUBSET Presented, Closed(S) PROVE Presented \subseteq S
  <2> DEFINE Outside == {rank[d] : d \in Presented \ S}
  <2> SUFFICES ASSUME Presented \ S # {} PROVE FALSE
    OBVIOUS
  <2>1. Outside \subseteq Nat /\ Outside # {}
    BY <1>1
  <2>2. PICK n \in Outside : \A m \in Outside : ~(<<m, n>> \in OpToRel(<, Nat))
    BY <2>1, WFMin, NatLessThanWellFounded, Zenon
  <2>3. \A m \in Outside : ~(m < n)
    BY <2>1, <2>2, Zenon DEF OpToRel
  <2>4. PICK d \in Presented \ S : n = rank[d]
    BY <2>2
  <2>5. CASE HangsOn(d, token.issuerKv, token.issuerElems)
    BY <1>3, <2>4, <2>5 DEF HangsOn, Closed
  <2>6. ASSUME NEW e \in Presented, rank[e] < rank[d], HangsOn(d, RefKv[e], RefElems[e])
        PROVE  FALSE
    <3>1. e \in S
      BY <2>3, <2>4, <2>6
    <3>2. RefKv[e] \subseteq DigestsOf(RefKv, S) /\ RefElems[e] \subseteq DigestsOf(RefElems, S)
      BY <3>1 DEF DigestsOf
    <3> QED BY <1>3, <2>4, <2>6, <3>2 DEF HangsOn, Closed
  <2> QED BY <1>1, <2>4, <2>5, <2>6
<1>4. Presented \subseteq Referenced
  BY <1>3 DEF Referenced
<1> QED BY <1>2, <1>4

(* Who answers, as the case has it: with an SD-JWT or with an mdoc.        *)
AsksSdJwt == case.input.haip.format = "dc+sd-jwt"

(* The transcript, if one is needed, is the one the device has signed.     *)
Ready == ~AsksSdJwt =>
  options.mdocSessionTranscript = TokenOf(case).device.transcript

AtEnvelope ==
  \/ envelope.kind = "encrypted" /\ envelope = case.envelope /\ options = case.options
  \/ envelope.kind = "plain" /\ envelope = Plain(case) /\ Ready

AcceptInv ==
  Conforming(case) =>
    /\ pc \in {"query", "request"} => envelope = case.envelope /\ options = case.options
    /\ pc = "envelope" => AtEnvelope
    /\ pc # "query" => query = BuiltQuery(case.input.haip)
    /\ pc \notin {"query", "request", "envelope"} => token = TokenOf(case) /\ Ready
    /\ pc = "done" => verdict = "valid"
    /\ outcome \in {"pending", "accepted"}

HonestInv == ExchangeInv /\ RequestInv /\ AcceptInv

(* What a parser has to find, once the token is before it.                 *)
LEMMA FollowsOptions ==
  ASSUME HonestInv, Conforming(case)
  PROVE  /\ options.allowedAlgorithms = case.options.allowedAlgorithms
         /\ options.trustedIssuerJwks = case.options.trustedIssuerJwks
         /\ options.nonce = case.options.nonce
         /\ options.audience = case.options.audience
         /\ options.requireKeyBinding = case.options.requireKeyBinding
         /\ options.expectedDocType = case.options.expectedDocType
         /\ options.trustStore = case.options.trustStore
         /\ options.authorityIds = case.options.authorityIds
         /\ \A cert : VouchedBy(case.options, cert) => TrustPassed(cert)
<1>1. \A f \in OptionFields : f # "mdocSessionTranscript" => options[f] = case.options[f]
  BY SameOptions DEF HonestInv, ExchangeInv
<1>2. /\ options.trustStore = case.options.trustStore
      /\ options.trustedCertificates = case.options.trustedCertificates
      /\ options.skipTrustCheck = case.options.skipTrustCheck
  BY <1>1 DEF OptionFields
<1>3. \A cert : VouchedBy(case.options, cert) => TrustPassed(cert)
  BY <1>2 DEF VouchedBy, TrustPassed, TrustThrows, TrustRejects
<1> QED BY <1>1, <1>2, <1>3 DEF OptionFields

SdJwtPasses ==
  /\ token.splits /\ token.alg \in options.allowedAlgorithms
  /\ token.x5c # "unreadable"
  /\ token.x5c = None => options.trustedIssuerJwks # <<>>
  /\ IssuerSigned
  /\ token.x5c # None => TrustPassed(token.x5c)
  /\ Presented \subseteq Properties \cup Elements /\ Presented \subseteq Referenced
  /\ token.kb = None => ~KeyBindingRequired
  /\ token.kb # None =>
       /\ token.cnf \notin {None, "unusable"} /\ options.nonce \notin {None, "empty"}
       /\ token.kb.alg # "unreadable" /\ token.kb.alg \in options.allowedAlgorithms
       /\ HolderProved
  /\ token.resolves

LEMMA SdJwtFinds ==
  ASSUME HonestInv, Conforming(case), AsksSdJwt, token = TokenOf(case)
  PROVE  SdJwtPasses /\ IsSdJwt
<1> DEFINE o == case.options
           r == RequestFor(case.input)
<1>1. SdJwtFollows(token, o, case.input) /\ FollowsRequest(o, r)
  BY DEF Conforming, AsksSdJwt
<1>2. IsSdJwt /\ token.splits /\ token.resolves /\ token.alg \in options.allowedAlgorithms
  BY <1>1, FollowsOptions DEF SdJwtFollows, IsSdJwt
<1>3. Presented \subseteq Properties \cup Elements /\ Presented \subseteq Referenced
  BY <1>1, AnchorsAreReferenced DEF SdJwtFollows
<1>4. /\ token.x5c # "unreadable" /\ IssuerSigned
      /\ token.x5c = None => options.trustedIssuerJwks # <<>>
      /\ token.x5c # None => TrustPassed(token.x5c)
  <2>1. IssuedUnder(token, o) /\ token.current
    BY <1>1 DEF SdJwtFollows
  <2>2. CASE token.x5c # None
    BY <2>1, <2>2, FollowsOptions DEF IssuedUnder, IssuerSigned
  <2>3. CASE token.x5c = None
    <3>1. PICK i \in 1 .. Len(o.trustedIssuerJwks) :
            /\ o.trustedIssuerJwks[i].imports /\ o.trustedIssuerJwks[i].key = token.signedBy
            /\ token.kid # None =>
                 /\ o.trustedIssuerJwks[i].kid = token.kid
                 /\ \A j \in 1 .. i - 1 : o.trustedIssuerJwks[j].kid # token.kid
      BY <2>1, <2>3 DEF IssuedUnder
    <3>2. options.trustedIssuerJwks = o.trustedIssuerJwks
      BY FollowsOptions
    <3>3. IssuerSigned
      BY <2>1, <2>3, <3>1, <3>2 DEF IssuerSigned, Candidate
    <3>4. options.trustedIssuerJwks # <<>>
      BY <3>1, <3>2
    <3>5. token.x5c # "unreadable"
      BY <2>3, NoneAssumption
    <3> QED BY <2>3, <3>3, <3>4, <3>5
  <2> QED BY <2>2, <2>3
<1>5. HolderSigns(token, o, r)
  BY <1>1 DEF SdJwtFollows
<1>6. token.kb = None => ~KeyBindingRequired
  BY <1>5, FollowsOptions DEF HolderSigns, KeyBindingRequired
<1>7. token.kb # None =>
       /\ token.cnf \notin {None, "unusable"} /\ options.nonce \notin {None, "empty"}
       /\ token.kb.alg # "unreadable" /\ token.kb.alg \in options.allowedAlgorithms
       /\ HolderProved
  BY <1>1, <1>5, FollowsOptions DEF HolderSigns, HolderProved, FollowsRequest
<1> QED BY <1>2, <1>3, <1>4, <1>6, <1>7 DEF SdJwtPasses

MdocPasses ==
  /\ token.form \in {"bytes", "base64url"}
  /\ token.broken = None /\ token.alg \in options.allowedAlgorithms
  /\ token.x5chain # <<>> /\ token.x5chain[1] # "unreadable"
  /\ token.signedBy = token.x5chain[1] /\ TrustPassed(token.x5chain[1])
  /\ ~MsoMalformed /\ ~Expired
  /\ options.expectedDocType \in {None, token.docType}
  /\ token.items \subseteq token.listed /\ token.items \subseteq token.committed
  /\ token.device # None /\ token.deviceKey # None
  /\ options.mdocSessionTranscript # None
  /\ DeviceProved

LEMMA MdocFinds ==
  ASSUME HonestInv, Conforming(case), ~AsksSdJwt, token = TokenOf(case), Ready
  PROVE  MdocPasses /\ ~IsSdJwt
<1> DEFINE o == case.options
           r == RequestFor(case.input)
<1>1. MdocFollows(token, o, case.input, case.envelope)
  BY DEF Conforming, AsksSdJwt
<1>2. /\ token.form \in {"bytes", "base64url"} /\ ~IsSdJwt
      /\ token.broken = None /\ token.alg \in options.allowedAlgorithms
      /\ options.expectedDocType \in {None, token.docType}
      /\ token.items \subseteq token.listed /\ token.items \subseteq token.committed
      /\ token.device # None /\ token.deviceKey # None
  BY <1>1, FollowsOptions DEF MdocFollows, IsSdJwt
<1>3. /\ token.x5chain # <<>> /\ token.x5chain[1] # "unreadable"
      /\ token.signedBy = token.x5chain[1] /\ TrustPassed(token.x5chain[1])
  BY <1>1, FollowsOptions DEF MdocFollows
<1>4. ~MsoMalformed /\ ~Expired
  <2>1. /\ token.validFrom \in Nat /\ token.signed \in Nat /\ token.validUntil \in Nat
        /\ token.validFrom <= token.signed /\ token.signed <= Now /\ Now <= token.validUntil
    BY <1>1 DEF MdocFollows
  <2> QED BY <2>1, ClockAssumption DEF MsoMalformed, Expired, Before
<1>5. options.mdocSessionTranscript # None /\ DeviceProved
  BY <1>1, FollowsOptions DEF MdocFollows, DeviceProved, Ready
<1> QED BY <1>2, <1>3, <1>4, <1>5 DEF MdocPasses

(* The envelope.                                                           *)
LEMMA EncryptedOpens ==
  ASSUME HonestInv, Conforming(case), OpenEncrypted
  PROVE  /\ pc' = "envelope" /\ verdict' = verdict
         /\ envelope' = Plain(case) /\ envelope'.kind = "plain" /\ Ready'
<1> DEFINE o == case.options
           r == RequestFor(case.input)
<1>1. pc = "envelope" /\ envelope.kind = "encrypted"
  BY DEF OpenEncrypted, Passes
<1>2. envelope = case.envelope /\ options = case.options
  BY <1>1 DEF HonestInv, AcceptInv, AtEnvelope
<1>3. FollowsRequest(o, r) /\ FollowsTransport(case.envelope, r) /\ PresentsOne(Plain(case))
  BY DEF Conforming
<1>4. /\ r.encryptionKey # None /\ envelope.alg = "ECDH-ES"
      /\ envelope.enc \in {"A128GCM", "A256GCM"} /\ envelope.encryptedTo = r.encryptionKey
  BY <1>1, <1>2, <1>3 DEF FollowsTransport
<1>5. envelope.content = Plain(case) /\ envelope.content # None /\ envelope.content.kind = "plain"
  BY <1>1, <1>2, <1>3 DEF Plain, PresentsOne
<1>6. Decrypts(envelope) /\ options.decryptionKey # None
      /\ (IsFinalProfile => options.verifierEncryptionJwk # None)
  BY <1>2, <1>3, <1>4, <1>5 DEF Decrypts, FollowsRequest, IsFinalProfile
<1>7. /\ pc' = "envelope" /\ verdict' = verdict /\ envelope' = envelope.content
      /\ UNCHANGED case
      /\ options' = IF ~BuildsTranscript THEN options
                    ELSE [options EXCEPT !.mdocSessionTranscript =
                            IF IsFinalProfile THEN FinalTranscript
                            ELSE IsoTranscript(envelope.apu)]
  BY <1>6 DEF OpenEncrypted, Passes
<1>8. ASSUME ~AsksSdJwt
      PROVE  options'.mdocSessionTranscript = TokenOf(case).device.transcript
  <2>1. MdocFollows(TokenOf(case), o, case.input, case.envelope)
    BY <1>8 DEF Conforming, AsksSdJwt
  <2>2. /\ None \notin {r.clientId, r.responseUri}
        /\ o.sessionTranscriptProfile # "openid4vp-1.0" => case.envelope.apu # None
        /\ TokenOf(case).device.transcript =
             WalletTranscript(r, o.sessionTranscriptProfile, case.envelope.apu)
    BY <2>1 DEF MdocFollows
  <2>3. /\ o.nonce = r.nonce /\ o.nonce # None
        /\ o.clientId = r.clientId /\ o.responseUri = r.responseUri
        /\ o.mdocSessionTranscript = None
        /\ IsFinalProfile => o.verifierEncryptionJwk = r.encryptionKey
    BY <1>2, <1>3 DEF FollowsRequest, IsFinalProfile
  <2>4. BuildsTranscript
    BY <1>2, <2>2, <2>3 DEF BuildsTranscript
  <2>5. DOMAIN options = OptionFields
    BY DEF HonestInv, ExchangeInv, OptionsInv
  <2>6. options'.mdocSessionTranscript =
          IF IsFinalProfile THEN FinalTranscript ELSE IsoTranscript(envelope.apu)
    BY <1>7, <2>4, <2>5 DEF OptionFields
  <2>7. CASE IsFinalProfile
    BY <1>2, <2>2, <2>3, <2>6, <2>7 DEF IsFinalProfile, FinalTranscript, WalletTranscript
  <2>8. CASE ~IsFinalProfile
    BY <1>2, <2>2, <2>3, <2>6, <2>8 DEF IsFinalProfile, IsoTranscript, WalletTranscript
  <2> QED BY <2>7, <2>8
<1>9. Ready'
  BY <1>7, <1>8 DEF Ready, AsksSdJwt, TokenOf, Plain
<1> QED BY <1>5, <1>7, <1>9

LEMMA PlainOpens ==
  ASSUME HonestInv, Conforming(case), OpenPlain
  PROVE  pc' = "dispatch" /\ verdict' = verdict /\ token' = TokenOf(case) /\ Ready
<1>1. pc = "envelope" /\ envelope.kind # "encrypted"
  BY DEF OpenPlain, Passes
<1>2. envelope.kind = "plain" /\ envelope = Plain(case) /\ Ready
  BY <1>1 DEF HonestInv, AcceptInv, AtEnvelope
<1> DEFINE v == envelope.vpToken
<1>3. v = <<<<v[1][1]>>>> /\ v[1] # None
  BY <1>2 DEF Conforming, PresentsOne
<1>4. Len(v) = 1 /\ Len(v[1]) = 1 /\ v[1] # <<>>
  BY <1>3
<1>5. TakesPresentation(v)
  BY <1>3, <1>4 DEF TakesPresentation
<1> QED BY <1>2, <1>4, <1>5 DEF OpenPlain, Passes, TokenOf

-----------------------------------------------------------------------------
(* Then no step of the parsers ends with another verdict than valid.       *)
GoesOn ==
  /\ pc' \notin {"query", "request", "envelope"}
  /\ pc' = "done" => verdict' = "valid"

LEMMA SdJwtGoesOn ==
  ASSUME HonestInv, Conforming(case), token = TokenOf(case), Ready, SdNext
  PROVE  GoesOn
<1>0. pc \in SdSteps
  BY DEF SdSteps, AfterSignature, SdNext, ReadHeader, SelectIssuerKey, VerifyIssuerSignature,
         CheckIssuerTrust, DecodeDisclosures, AnchorPass, EndAnchoring, RequireKeyBinding,
         ImportHolderKey, VerifyKeyBinding, ExtractClaims, Check, Passes, Finish
<1>1. IsSdJwt /\ pc # "done"
  BY <1>0 DEF HonestInv, ExchangeInv, StageInv, SdSteps, AfterSignature
<1>2. SdJwtPasses
  BY <1>1, SdJwtFinds, MdocFinds
<1>3. CASE EndAnchoring
  <2>1. pc = "anchoring" /\ Anchored = {}
    BY <1>3 DEF EndAnchoring, Check, Passes
  <2>2. remaining = Presented \ Referenced
    BY <2>1, LeftoverFollows DEF HonestInv, ExchangeInv, LeftoverIsUnreferenced
  <2>3. remaining = {}
    BY <1>2, <2>2 DEF SdJwtPasses
  <2> QED BY <1>3, <2>3 DEF EndAnchoring, Check, Passes, GoesOn
<1>4. CASE AnchorPass
  BY <1>4 DEF AnchorPass, parserVars, GoesOn
<1>5. CASE ReadHeader
  BY <1>2, <1>5 DEF ReadHeader, Check, Passes, SdJwtPasses, GoesOn
<1>6. CASE SelectIssuerKey
  BY <1>2, <1>6 DEF SelectIssuerKey, Check, Passes, SdJwtPasses, GoesOn
<1>7. CASE VerifyIssuerSignature
  BY <1>2, <1>7 DEF VerifyIssuerSignature, Check, Passes, SdJwtPasses, GoesOn
<1>8. CASE CheckIssuerTrust
  BY <1>2, <1>8 DEF CheckIssuerTrust, Check, Passes, SdJwtPasses, TrustPassed, GoesOn
<1>9. CASE DecodeDisclosures
  BY <1>2, <1>9 DEF DecodeDisclosures, Check, Passes, SdJwtPasses, GoesOn
<1>10. CASE RequireKeyBinding
  BY <1>2, <1>10 DEF RequireKeyBinding, Check, Passes, SdJwtPasses, GoesOn
<1>11. CASE ImportHolderKey
  <2>1. token.kb # None
    BY <1>1, <1>11 DEF HonestInv, ExchangeInv, SdInv, ImportHolderKey, Check, Passes
  <2> QED BY <1>2, <1>11, <2>1 DEF ImportHolderKey, Check, Passes, SdJwtPasses, GoesOn
<1>12. CASE VerifyKeyBinding
  <2>1. token.kb # None
    BY <1>1, <1>12 DEF HonestInv, ExchangeInv, SdInv, VerifyKeyBinding, Check, Passes
  <2> QED BY <1>2, <1>12, <2>1 DEF VerifyKeyBinding, Check, Passes, SdJwtPasses, GoesOn
<1>13. CASE ExtractClaims
  BY <1>2, <1>13 DEF ExtractClaims, Finish, SdJwtPasses, GoesOn
<1> QED BY <1>3, <1>4, <1>5, <1>6, <1>7, <1>8, <1>9, <1>10, <1>11, <1>12, <1>13 DEF SdNext

LEMMA MdocGoesOn ==
  ASSUME HonestInv, Conforming(case), token = TokenOf(case), Ready, MdocNext
  PROVE  GoesOn
<1>0. pc \in MdocSteps
  BY DEF MdocSteps, AfterCertificate, MdocNext, DecodeResponse, DecodeIssuerAuth, CheckCertificate,
         VerifyIssuerAuth, ValidateMso, ValidateDocType, VerifyDigests, AuthenticateDevice,
         Check, Passes, Finish
<1>1. ~IsSdJwt
  BY <1>0 DEF HonestInv, ExchangeInv, StageInv
<1>2. MdocPasses
  BY <1>1, SdJwtFinds, MdocFinds
<1>3. CASE DecodeResponse
  BY <1>2, <1>3, NoneAssumption DEF DecodeResponse, Check, Passes, MdocPasses, GoesOn
<1>4. CASE DecodeIssuerAuth
  BY <1>2, <1>4, NoneAssumption DEF DecodeIssuerAuth, Check, Passes, MdocPasses, GoesOn
<1>5. CASE CheckCertificate
  BY <1>2, <1>5 DEF CheckCertificate, Check, Passes, MdocPasses, TrustPassed, GoesOn
<1>6. CASE VerifyIssuerAuth
  BY <1>2, <1>6 DEF VerifyIssuerAuth, Check, Passes, MdocPasses, GoesOn
<1>7. CASE ValidateMso
  BY <1>2, <1>7, NoneAssumption DEF ValidateMso, Check, Passes, MdocPasses, GoesOn
<1>8. CASE ValidateDocType
  BY <1>2, <1>8 DEF ValidateDocType, Check, Passes, MdocPasses, GoesOn
<1>9. CASE VerifyDigests
  BY <1>2, <1>9, NoneAssumption
     DEF VerifyDigests, Check, Passes, MdocPasses, DigestsThrow, DigestMismatch, GoesOn
<1>10. CASE AuthenticateDevice
  BY <1>2, <1>10 DEF AuthenticateDevice, ImportThrows, DeviceProved, Finish, MdocPasses, GoesOn
<1> QED BY <1>3, <1>4, <1>5, <1>6, <1>7, <1>8, <1>9, <1>10 DEF MdocNext

LEMMA ChoiceGoesOn ==
  ASSUME HonestInv, Conforming(case), token = TokenOf(case), Ready, ChooseParser
  PROVE  GoesOn
<1>1. pc = "dispatch" /\ query = BuiltQuery(case.input.haip)
      /\ case.input.haip.format \in {"dc+sd-jwt", "mso_mdoc"}
  BY DEF ChooseParser, Check, Passes, HonestInv, AcceptInv, RequestInv, Typed
<1>2. query.format = case.input.haip.format
  BY <1>1 DEF BuiltQuery
<1>3. CASE AsksSdJwt
  <2>1. token.form = "sdJwt" /\ query.format = "dc+sd-jwt"
    BY <1>2, <1>3, SdJwtFinds DEF IsSdJwt, AsksSdJwt
  <2> QED BY <2>1 DEF ChooseParser, Check, Passes, GoesOn
<1>4. CASE ~AsksSdJwt
  <2>1. token.form \in {"bytes", "base64url"} /\ query.format = "mso_mdoc"
    BY <1>1, <1>2, <1>4, MdocFinds DEF MdocPasses, AsksSdJwt
  <2> QED BY <2>1 DEF ChooseParser, Check, Passes, GoesOn
<1> QED BY <1>3, <1>4

(* And what is presented is what was asked for.                            *)
LEMMA ConformingSatisfies ==
  ASSUME HonestInv, Conforming(case), token = TokenOf(case), Ready,
         query = BuiltQuery(case.input.haip)
  PROVE  Satisfied
<1> DEFINE h == case.input.haip
<1>1. CASE AsksSdJwt
  <2>1. IsSdJwt /\ SdJwtFollows(token, case.options, case.input)
    BY <1>1, SdJwtFinds DEF Conforming, AsksSdJwt
  <2>2. /\ query.format = "dc+sd-jwt" /\ query.types = h.vctValues
        /\ query.claims = {<<c>> : c \in h.claims} /\ query.authorities = h.trustedAuthorities
    BY <1>1 DEF BuiltQuery, AsksSdJwt
  <2>3. query.claims \subseteq ReportedClaims
    <3>1. Presented = Shown(token)
      BY DEF Presented, Shown
    <3>2. h.claims \subseteq (token.plainClaims \cup (Presented \cap token.issuerKv)) \ ReservedClaims
      BY <2>1, <3>1 DEF SdJwtFollows
    <3> QED BY <2>1, <2>2, <3>2 DEF ReportedClaims
  <2>4. query.authorities # {} => query.authorities \cap ReportedAuthorities # {}
    <3> SUFFICES ASSUME query.authorities # {} PROVE query.authorities \cap ReportedAuthorities # {}
      OBVIOUS
    <3>1. ReportedAuthorities = options.authorityIds
      BY <2>1, <2>2, FollowsOptions DEF SdJwtFollows, ReportedAuthorities
    <3> QED BY <2>1, <2>2, <3>1, FollowsOptions DEF SdJwtFollows
  <2> QED BY <2>1, <2>2, <2>3, <2>4 DEF Satisfied, SdJwtFollows
<1>2. CASE ~AsksSdJwt
  <2>1. ~IsSdJwt /\ MdocFollows(token, case.options, case.input, case.envelope)
    BY <1>2, MdocFinds DEF Conforming, AsksSdJwt
  <2>2. /\ query.format = "mso_mdoc" /\ query.types = {h.doctypeValue}
        /\ query.claims = {<<Namespace(h.doctypeValue), c>> : c \in h.claims}
        /\ query.authorities = h.trustedAuthorities
    BY <1>2 DEF BuiltQuery, AsksSdJwt, HonestInv, RequestInv, Typed
  <2>3. query.claims \subseteq ReportedClaims
    <3>1. token.docType = h.doctypeValue
          /\ {<<IssuedNamespace(token.docType), c>> : c \in h.claims} \subseteq token.items
      BY <2>1 DEF MdocFollows
    <3>2. IssuedNamespace(token.docType) = Namespace(token.docType)
      BY DEF IssuedNamespace, Namespace
    <3> QED BY <2>1, <2>2, <3>1, <3>2 DEF ReportedClaims
  <2>4. query.authorities # {} => query.authorities \cap ReportedAuthorities # {}
    <3> SUFFICES ASSUME query.authorities # {} PROVE query.authorities \cap ReportedAuthorities # {}
      OBVIOUS
    <3>1. ReportedAuthorities = options.authorityIds
      BY <2>1, <2>2, FollowsOptions DEF MdocFollows, ReportedAuthorities
    <3> QED BY <2>1, <2>2, <3>1, FollowsOptions DEF MdocFollows
  <2> QED BY <2>1, <2>2, <2>3, <2>4 DEF Satisfied, MdocFollows
<1> QED BY <1>1, <1>2

LEMMA StepAccepts == HonestInv /\ [Next]_vars => AcceptInv'
<1> SUFFICES ASSUME HonestInv, [Next]_vars, Conforming(case)' PROVE
       /\ (pc \in {"query", "request"} => envelope = case.envelope /\ options = case.options)'
       /\ (pc = "envelope" => AtEnvelope)'
       /\ (pc # "query" => query = BuiltQuery(case.input.haip))'
       /\ (pc \notin {"query", "request", "envelope"} => token = TokenOf(case) /\ Ready)'
       /\ (pc = "done" => verdict = "valid")'
       /\ (outcome \in {"pending", "accepted"})'
  BY DEF AcceptInv
<1> USE DEF AcceptInv
<1>0. case' = case /\ Conforming(case)
  <2>1. case' = case
    BY DEF Next, BuildQuery, CreateRequest, OpenEncrypted, OpenPlain, ChooseParser, Conclude,
           Parse, vars, exchangeVars
  <2> QED BY <2>1
<1>2. CASE BuildQuery
  <2>1. QueryBuilds(case.input.haip)
    BY <1>0 DEF Conforming
  <2>2. /\ pc = "query" /\ pc' = "request" /\ query' = BuiltQuery(case.input.haip)
        /\ UNCHANGED <<envelope, options, outcome>>
    BY <1>2, <2>1 DEF BuildQuery, Check, Passes
  <2> QED BY <1>0, <2>2 DEF HonestInv
<1>3. CASE CreateRequest
  <2>1. ~Refused(case.input)
    BY <1>0 DEF Conforming
  <2>2. pc = "request" /\ pc' = "envelope" /\ UNCHANGED <<query, envelope, options, outcome>>
    BY <1>3, <2>1 DEF CreateRequest, Check, Passes
  <2>3. envelope = case.envelope /\ options = case.options
    BY <1>0, <2>2 DEF HonestInv
  <2>4. AtEnvelope'
    <3>1. CASE case.envelope.kind = "encrypted"
      BY <1>0, <2>2, <2>3, <3>1 DEF AtEnvelope
    <3>2. CASE case.envelope.kind # "encrypted"
      <4>1. RequestFor(case.input).encryptionKey = None /\ case.envelope.kind = "plain"
        BY <1>0, <3>2 DEF Conforming, FollowsTransport
      <4>2. AsksSdJwt
        BY <1>0, <4>1 DEF Conforming, AsksSdJwt, MdocFollows
      <4>3. envelope' = Plain(case') /\ envelope'.kind = "plain"
        BY <1>0, <2>2, <2>3, <4>1 DEF Plain
      <4> QED BY <1>0, <4>2, <4>3 DEF AtEnvelope, Ready, AsksSdJwt
    <3> QED BY <3>1, <3>2
  <2> QED BY <1>0, <2>2, <2>4 DEF HonestInv
<1>4. CASE OpenEncrypted
  <2>1. UNCHANGED <<query, outcome>> /\ pc = "envelope"
    BY <1>4 DEF OpenEncrypted, Passes
  <2>2. /\ pc' = "envelope" /\ envelope' = Plain(case) /\ envelope'.kind = "plain" /\ Ready'
    BY <1>0, <1>4, EncryptedOpens
  <2>3. AtEnvelope'
    BY <1>0, <2>2 DEF AtEnvelope
  <2> QED BY <1>0, <2>1, <2>2, <2>3 DEF HonestInv
<1>5. CASE OpenPlain
  <2>1. UNCHANGED <<options, query, outcome>> /\ pc = "envelope"
    BY <1>5 DEF OpenPlain, Passes, exchangeVars
  <2>2. pc' = "dispatch" /\ token' = TokenOf(case) /\ Ready
    BY <1>0, <1>5, PlainOpens
  <2>3. Ready'
    BY <1>0, <2>1, <2>2 DEF Ready, AsksSdJwt
  <2> QED BY <1>0, <2>1, <2>2, <2>3 DEF HonestInv
<1>6. CASE ChooseParser \/ Parse
  <2>1. /\ UNCHANGED <<token, options, query, outcome>>
        /\ pc \notin {"query", "request", "envelope"}
    BY <1>6 DEF ChooseParser, Parse, exchangeVars, parserVars, Check, Passes, Finish,
           SdNext, ReadHeader, SelectIssuerKey, VerifyIssuerSignature, CheckIssuerTrust,
           DecodeDisclosures, AnchorPass, EndAnchoring, RequireKeyBinding, ImportHolderKey,
           VerifyKeyBinding, ExtractClaims, MdocNext, DecodeResponse, DecodeIssuerAuth,
           CheckCertificate, VerifyIssuerAuth, ValidateMso, ValidateDocType, VerifyDigests,
           AuthenticateDevice
  <2>2. token = TokenOf(case) /\ Ready /\ query = BuiltQuery(case.input.haip)
        /\ outcome \in {"pending", "accepted"}
    BY <1>0, <2>1 DEF HonestInv
  <2>3. GoesOn
    BY <1>0, <1>6, <2>2, ChoiceGoesOn, SdJwtGoesOn, MdocGoesOn DEF Parse
  <2>4. Ready'
    BY <1>0, <2>1, <2>2 DEF Ready, AsksSdJwt
  <2> QED BY <1>0, <2>1, <2>2, <2>3, <2>4 DEF GoesOn
<1>7. CASE Conclude
  <2>1. /\ pc = "done" /\ UNCHANGED <<pc, verdict, token, options, query>>
        /\ outcome' = IF verdict = "threw" THEN "threw"
                      ELSE IF verdict = "valid" /\ Satisfied THEN "accepted" ELSE "refused"
    BY <1>7 DEF Conclude, sdVars, parserVars
  <2>2. /\ verdict = "valid" /\ token = TokenOf(case) /\ Ready
        /\ query = BuiltQuery(case.input.haip)
    BY <1>0, <2>1 DEF HonestInv
  <2>3. Satisfied
    BY <1>0, <2>2, ConformingSatisfies
  <2>4. Ready'
    BY <1>0, <2>1, <2>2 DEF Ready, AsksSdJwt
  <2> QED BY <1>0, <2>1, <2>2, <2>3, <2>4
<1>8. CASE UNCHANGED vars
  <2>1. UNCHANGED <<pc, verdict, token, options, query, envelope, outcome>>
    BY <1>8 DEF vars, sdVars, parserVars, exchangeVars
  <2>2. (Ready' <=> Ready) /\ (AtEnvelope' <=> AtEnvelope)
    BY <1>0, <2>1 DEF Ready, AsksSdJwt, AtEnvelope
  <2> QED BY <1>0, <2>1, <2>2 DEF HonestInv
<1> QED BY <1>2, <1>3, <1>4, <1>5, <1>6, <1>7, <1>8 DEF Next

LEMMA HonestHolds == Spec => []HonestInv
<1>1. Init => RequestInv /\ AcceptInv
  BY InitRequest DEF Init, AcceptInv
<1>2. Spec => []RequestInv
  BY InitRequest, RequestStep, PTL DEF Spec
<1>3. ExchangeInv /\ RequestInv /\ AcceptInv /\ [Next]_vars => AcceptInv'
  BY StepAccepts DEF HonestInv
<1>4. ExchangeInv /\ RequestInv /\ AcceptInv => HonestInv
  BY DEF HonestInv
<1> QED BY <1>1, <1>2, <1>3, <1>4, ExchangeInvHolds, PTL DEF Spec

(* The library is not stricter than the request it writes: whatever it     *)
(* asks for, of whomever, an answer that conforms goes through every check *)
(* of the envelope, the parser and the query, and is accepted.             *)
THEOREM ConformingIsAccepted ==
  Spec => [](Conforming(case) => outcome \in {"pending", "accepted"})
<1>1. HonestInv => (Conforming(case) => outcome \in {"pending", "accepted"})
  BY DEF HonestInv, AcceptInv
<1> QED BY <1>1, HonestHolds, PTL

(* The cases that the runs take for honest are such answers.               *)
THEOREM HonestAnswerIsAcceptedCorrect == Spec => []HonestAnswerIsAccepted
<1>1. (Conforming(case) => outcome \in {"pending", "accepted"}) => HonestAnswerIsAccepted
  BY HonestAssumption DEF HonestAnswerIsAccepted
<1> QED BY <1>1, ConformingIsAccepted, PTL

=============================================================================
