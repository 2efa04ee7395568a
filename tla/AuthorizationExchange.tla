------------------------ MODULE AuthorizationExchange ------------------------
(***************************************************************************)
(* One OpenID4VP exchange, from the query to the verdict: the query is     *)
(* built, the authorization request is created, a wallet answers it or     *)
(* something else arrives in its place, and verifyAuthorizationResponse    *)
(* unwraps, parses and matches what arrived.                               *)
(*                                                                         *)
(* A case fixes what comes from outside: the input of the request, the     *)
(* envelope that arrives, the options of the caller.  Hashes and client    *)
(* identifiers are tuples of what they are made from.                      *)
(***************************************************************************)
EXTENDS SdJwtParser, MdocParser

CONSTANTS
  HonestCases,   \* cases in which a conforming wallet answers the request
                 \* and the caller verifies with the values of the request
  Departures     \* Departures[c]: cases that depart from c

OptionFields ==
  {"allowedAlgorithms", "trustStore", "trustedCertificates", "skipTrustCheck",
   "trustedIssuerJwks", "nonce", "audience", "requireKeyBinding", "expectedDocType",
   "allowDigestMismatch", "mdocSessionTranscript", "decryptionKey", "clientId",
   "responseUri", "sessionTranscriptProfile", "verifierEncryptionJwk", "authorityIds"}

ASSUME ExchangeAssumption ==
  \A h \in HonestCases : \A c \in {h} \cup Departures[h] :
    c.options = [f \in OptionFields |-> c.options[f]]

(* What the types of the inputs promise (HaipQueryInput and                *)
(* SignedAuthorizationRequestInput).                                       *)
ASSUME InputAssumption ==
  \A h \in HonestCases : \A c \in {h} \cup Departures[h] :
    /\ c.input.haip.format \in {"dc+sd-jwt", "mso_mdoc"}
    /\ None \notin c.input.haip.vctValues
    /\ c.input.clientIdPrefix \in {"x509_hash", "x509_san_dns"}
    /\ c.input.encryptionKey # None => c.input.encryptionKey.key # None

VARIABLES
  case,
  query,         \* DcqlQuery
  request,       \* AuthorizationRequest
  envelope,      \* AuthorizationResponse or EncryptedResponse
  outcome        \* VerifyResult.valid, or that verification threw

exchangeVars == <<case, query, request, envelope, outcome>>
vars == <<sdVars, digestMismatchIgnored, exchangeVars>>

Init ==
  /\ \E h \in HonestCases : case \in {h} \cup Departures[h]
  /\ options = case.options
  /\ envelope = case.envelope
  /\ query = None
  /\ request = None
  /\ token = None
  /\ pc = "query"
  /\ verdict = "pending"
  /\ outcome = "pending"
  /\ digestMismatchIgnored = FALSE
  /\ remaining = {}
  /\ kvHashes = {}
  /\ elemHashes = {}

-----------------------------------------------------------------------------
(* buildHaipQuery.  A claim of an mdoc is addressed by its namespace, which*)
(* for a driving licence is not the docType.                               *)
Namespace_IsDocType(docType) == docType

Namespace(docType) ==
  IF docType = "org.iso.18013.5.1.mDL" THEN "org.iso.18013.5.1" ELSE docType

QueryBuilds(in) ==
  /\ in.claims # {}
  /\ IF in.format = "dc+sd-jwt" THEN in.vctValues # {} ELSE in.doctypeValue # None

BuiltQuery(in) ==
  LET sdJwt == in.format = "dc+sd-jwt"
  IN [format |-> in.format,
      types |-> IF sdJwt THEN in.vctValues ELSE {in.doctypeValue},
      claims |-> IF sdJwt THEN {<<c>> : c \in in.claims}
                 ELSE {<<Namespace(in.doctypeValue), c>> : c \in in.claims},
      authorities |-> in.trustedAuthorities]

BuildQuery ==
  LET in == case.input.haip
  IN /\ Check("query", ~QueryBuilds(in), FALSE, "request")
     /\ query' = IF QueryBuilds(in) THEN BuiltQuery(in) ELSE None
     /\ UNCHANGED <<closureVars, digestMismatchIgnored, case, request, envelope, outcome>>

(* validateHaipQuery, without the two fields the builder never sets.       *)
IsHaipQuery(q) ==
  /\ q.format \in {"dc+sd-jwt", "mso_mdoc"}
  /\ q.types # {} /\ None \notin q.types
  /\ q.claims # {}

-----------------------------------------------------------------------------
(* createSignedAuthorizationRequest.                                       *)
Leaf(in) == in.certificateChain[1]

SignedRefused_AnyHost(in) ==
  \/ in.certificateChain = <<>>
  \/ in.signingAlgorithm \notin {"ES256", "ES384", "RS256"}
  \/ in.vpFormatsSupported = {}
  \/ in.clientIdPrefix = "x509_san_dns" /\ in.hostname = None
  \/ in.signer # Leaf(in).key
  \/ /\ in.responseMode = "direct_post.jwt"
     /\ \/ in.encryptionKey = None
        \/ ~in.encryptionKey.namesAlg
        \/ in.encryptionKey.supportedEncValues = {}

SignedRefused(in) ==
  \/ in.certificateChain = <<>>
  \/ in.signingAlgorithm \notin {"ES256", "ES384", "RS256"}
  \/ in.vpFormatsSupported = {}
  \/ in.clientIdPrefix = "x509_san_dns" /\ in.hostname = None
  \/ in.hostname # None /\ in.hostname \notin Leaf(in).dnsNames
  \/ in.signer # Leaf(in).key
  \/ /\ in.responseMode = "direct_post.jwt"
     /\ \/ in.encryptionKey = None
        \/ ~in.encryptionKey.namesAlg
        \/ in.encryptionKey.supportedEncValues = {}

SignedRequest(in) ==
  LET encrypted == in.responseMode = "direct_post.jwt"
  IN [clientId |-> IF in.clientIdPrefix = "x509_hash" THEN <<"x509_hash", Leaf(in).cert>>
                   ELSE <<"x509_san_dns", in.hostname>>,
      nonce |-> in.nonce, responseUri |-> in.responseUri,
      encryptionKey |-> IF encrypted THEN in.encryptionKey.key ELSE None,
      encValues |-> IF ~encrypted THEN {}
                    ELSE IF in.encryptionKey.supportedEncValues = None
                         THEN {"A128GCM", "A256GCM"}
                         ELSE in.encryptionKey.supportedEncValues]

(* createAuthorizationRequest: no signature, and the client_id is given.   *)
(* It sends no client_metadata, hence no key in any response mode.         *)
PlainRefused(in) == None \in {in.clientId, in.nonce, in.responseUri}

PlainRequest(in) ==
  [clientId |-> in.clientId, nonce |-> in.nonce, responseUri |-> in.responseUri,
   encryptionKey |-> None, encValues |-> {}]

Refused(in)    == IF in.signed THEN SignedRefused(in) ELSE PlainRefused(in)
RequestFor(in) == IF in.signed THEN SignedRequest(in) ELSE PlainRequest(in)

CreateRequest ==
  LET in == case.input
  IN /\ Check("request", Refused(in), FALSE, "envelope")
     /\ request' = IF Refused(in) THEN None ELSE RequestFor(in)
     /\ UNCHANGED <<closureVars, digestMismatchIgnored, case, query, envelope, outcome>>

-----------------------------------------------------------------------------
(* The two session transcripts; None for a nonce that cannot be read.      *)
IsoTranscript(mdocNonce) ==
  IF mdocNonce = None THEN None
  ELSE [handover |-> "OID4VPHandover", clientId |-> <<options.clientId, mdocNonce>>,
        responseUri |-> <<options.responseUri, mdocNonce>>, nonce |-> options.nonce]

FinalTranscript_NoKey ==
  [handover |-> "OpenID4VPHandover", clientId |-> options.clientId,
   nonce |-> options.nonce, key |-> None, responseUri |-> options.responseUri]

FinalTranscript ==
  [handover |-> "OpenID4VPHandover", clientId |-> options.clientId,
   nonce |-> options.nonce, key |-> options.verifierEncryptionJwk,
   responseUri |-> options.responseUri]

(* What the caller supplies wins; otherwise all three values are needed.   *)
BuildsTranscript ==
  /\ options.mdocSessionTranscript = None
  /\ None \notin {options.clientId, options.responseUri, options.nonce}

IsFinalProfile == options.sessionTranscriptProfile = "openid4vp-1.0"

(* decryptAuthorizationResponse.                                           *)
Decrypts(jwe) ==
  /\ jwe.alg = "ECDH-ES"
  /\ jwe.enc \in {"A128GCM", "A256GCM"}
  /\ jwe.encryptedTo = options.decryptionKey
  /\ jwe.content # None

(* The encrypted branch: the transcript is built from the header before    *)
(* the content is decrypted, and the content is verified in its turn.      *)
OpenEncrypted ==
  LET misconfigured == BuildsTranscript /\ IsFinalProfile
                       /\ options.verifierEncryptionJwk = None
      throws == options.decryptionKey = None \/ misconfigured \/ ~Decrypts(envelope)
  IN /\ envelope.kind = "encrypted"
     /\ Passes("envelope", throws, FALSE, "envelope")
     /\ envelope' = IF throws THEN envelope ELSE envelope.content
     /\ options' = IF throws \/ ~BuildsTranscript THEN options
                   ELSE [options EXCEPT !.mdocSessionTranscript =
                           IF IsFinalProfile THEN FinalTranscript
                           ELSE IsoTranscript(envelope.apu)]
     /\ UNCHANGED <<token, closureVars, digestMismatchIgnored, case, query, request, outcome>>

(* The plain branch: one query id with one presentation; a list without    *)
(* any is an unsupported format.  None stands for an entry that is no list.*)
TakesPresentation(vpToken) ==
  /\ Len(vpToken) = 1
  /\ vpToken[1] # None
  /\ Len(vpToken[1]) <= 1

OpenPlain ==
  LET opens == envelope.kind = "plain" /\ TakesPresentation(envelope.vpToken)
      empty == opens /\ envelope.vpToken[1] = <<>>
  IN /\ envelope.kind # "encrypted"
     /\ Passes("envelope", ~opens, empty, "dispatch")
     /\ token' = IF opens /\ ~empty THEN envelope.vpToken[1][1] ELSE None
     /\ UNCHANGED <<options, closureVars, digestMismatchIgnored, exchangeVars>>

(* A string is decoded first when an mdoc is asked for, and an SD-JWT does *)
(* not decode; parsers are chosen by the form of what results.             *)
ChooseParser ==
  LET asksMdoc == query.format = "mso_mdoc"
      isMdoc == token.form = "bytes" \/ (token.form = "base64url" /\ asksMdoc)
  IN /\ Check("dispatch", asksMdoc /\ token.form = "sdJwt",
              token.form # "sdJwt" /\ ~isMdoc,
              IF isMdoc THEN "deviceResponse" ELSE "split")
     /\ UNCHANGED <<closureVars, digestMismatchIgnored, exchangeVars>>

-----------------------------------------------------------------------------
(* mapToCredentialClaims and mapRawToClaims: what the result tells of.     *)
ReservedClaims == {"iss", "exp", "iat", "cnf", "vct"}

ReportedClaims ==
  IF IsSdJwt
  THEN {<<c>> : c \in (token.plainClaims \cup (Presented \cap token.issuerKv)) \ ReservedClaims}
  ELSE token.items

(* The authority ids of the trust result, which only a store gives.        *)
ReportedAuthorities ==
  IF options.trustStore = None \/ (IsSdJwt /\ token.x5c = None) THEN {}
  ELSE options.authorityIds

(* matchQuery of @openeudi/dcql, for a query of one credential.            *)
Satisfied ==
  /\ query.format = (IF IsSdJwt THEN "dc+sd-jwt" ELSE "mso_mdoc")
  /\ (IF IsSdJwt THEN token.vct ELSE token.docType) \in query.types
  /\ query.claims \subseteq ReportedClaims
  /\ query.authorities # {} => query.authorities \cap ReportedAuthorities # {}

Conclude_OnMatch ==
  /\ pc = "done" /\ outcome = "pending"
  /\ outcome' = IF verdict = "threw" THEN "threw"
                ELSE IF token # None /\ Satisfied THEN "accepted" ELSE "refused"
  /\ UNCHANGED <<sdVars, digestMismatchIgnored, case, query, request, envelope>>

(* verifyPresentation: valid only if parsed and matched.                   *)
Conclude ==
  /\ pc = "done" /\ outcome = "pending"
  /\ outcome' = IF verdict = "threw" THEN "threw"
                ELSE IF verdict = "valid" /\ Satisfied THEN "accepted" ELSE "refused"
  /\ UNCHANGED <<sdVars, digestMismatchIgnored, case, query, request, envelope>>

Parse ==
  \/ SdNext /\ UNCHANGED <<digestMismatchIgnored, exchangeVars>>
  \/ MdocNext /\ UNCHANGED <<closureVars, exchangeVars>>

Next ==
  \/ BuildQuery \/ CreateRequest
  \/ OpenEncrypted \/ OpenPlain \/ ChooseParser
  \/ Parse \/ Conclude

(* Everything the library awaits here is local computation.                *)
Spec == Init /\ [][Next]_vars /\ WF_vars(Next)

-----------------------------------------------------------------------------
(* A caller who verifies with the values of the request it created, and    *)
(* leaves the session transcript to the library.                           *)
CallerUsesRequest ==
  /\ options.nonce = request.nonce
  /\ options.clientId = request.clientId
  /\ options.responseUri = request.responseUri
  /\ case.options.mdocSessionTranscript = None
  /\ IsFinalProfile => options.verifierEncryptionJwk = request.encryptionKey

(* The ISO handover hashes the two values with the nonce of the device.    *)
BoundToRequest(transcript) ==
  /\ transcript.nonce = request.nonce
  /\ IF transcript.handover = "OpenID4VPHandover"
     THEN /\ transcript.clientId = request.clientId
          /\ transcript.responseUri = request.responseUri
          /\ transcript.key = request.encryptionKey
     ELSE \E mdocNonce \in {transcript.clientId[2]} :
          /\ transcript.clientId = <<request.clientId, mdocNonce>>
          /\ transcript.responseUri = <<request.responseUri, mdocNonce>>

(* An answer is only accepted for the request it was made for: what the    *)
(* holder signed names the nonce of the request, and its client and        *)
(* response URI as far as the format lets it, and covers just what is      *)
(* presented.  An answer to another request, delivered here, is not.       *)
AcceptedAnswersThisRequest ==
  outcome = "accepted" /\ CallerUsesRequest =>
    IF IsSdJwt
    THEN token.cnf # None =>
           /\ token.kb # None
           /\ token.kb.signedBy = token.cnf
           /\ token.kb.nonce = request.nonce
           /\ token.kb.sdHash = token.disclosures
           /\ options.audience \in {request.clientId} \ {None} =>
                token.kb.aud = request.clientId
    ELSE /\ token.device.signedBy = token.deviceKey
         /\ BoundToRequest(token.device.transcript)

Readable(s, t) == NotADate \notin {s, t}

(* Whatever the options, an accepted credential was signed by an issuer    *)
(* they vouch for, was valid at the time, and - unless the caller debugs   *)
(* and is told - is shown as it was issued.  Of the dates of an mdoc those *)
(* that can be read are in order among themselves and with the time of the *)
(* check; one that cannot be read excuses none of the others.              *)
AcceptedIsVouchedFor ==
  outcome = "accepted" =>
    IF IsSdJwt
    THEN /\ token.current
         /\ \/ token.x5c # None /\ token.signedBy = token.x5c /\ Vouched(token.x5c)
            \/ token.x5c = None /\ \E i \in 1..Len(options.trustedIssuerJwks) :
                 LET jwk == options.trustedIssuerJwks[i]
                 IN jwk.key = token.signedBy /\ token.kid \in {None, jwk.kid}
    ELSE /\ token.signedBy = token.x5chain[1] /\ Vouched(token.signedBy)
         /\ LET dates == <<token.validFrom, token.signed, Now, token.validUntil>>
            IN \A i, j \in 1..4 :
                 i < j /\ Readable(dates[i], dates[j]) => ~(dates[j] < dates[i])
         /\ digestMismatchIgnored <=> ~(token.items \subseteq token.committed)
         /\ digestMismatchIgnored => case.options.allowDigestMismatch

(* What the two sides have agreed on.  Whoever verifies hands on the values*)
(* of the request it created, and the key it has put into it.              *)
FollowsRequest(o, r) ==
  /\ o.nonce = r.nonce /\ o.nonce \notin {None, "empty"}
  /\ o.clientId = r.clientId /\ o.responseUri = r.responseUri
  /\ o.audience \in {None, r.clientId}
  /\ o.decryptionKey = r.encryptionKey
  /\ o.mdocSessionTranscript = None
  /\ o.sessionTranscriptProfile = "openid4vp-1.0" => o.verifierEncryptionJwk = r.encryptionKey

(* The wallet encrypts where it is asked to, with a cipher of the request  *)
(* that the library can read, and presents one credential.                 *)
Plain(c)   == IF c.envelope.kind = "encrypted" THEN c.envelope.content ELSE c.envelope
TokenOf(c) == Plain(c).vpToken[1][1]

FollowsTransport(e, r) ==
  IF r.encryptionKey = None THEN e.kind = "plain"
  ELSE /\ e.kind = "encrypted" /\ e.alg = "ECDH-ES"
       /\ e.enc \in r.encValues \cap {"A128GCM", "A256GCM"}
       /\ e.encryptedTo = r.encryptionKey

PresentsOne(p) ==
  /\ None \notin {p, p.vpToken[1]}
  /\ p.kind = "plain" /\ p.vpToken = <<<<p.vpToken[1][1]>>>>

(* The issuer has committed to everything that is shown, at one remove or  *)
(* another: each disclosure is in the payload or hangs on one before it.   *)
Shown(t) == {t.disclosures[i] : i \in 1 .. Len(t.disclosures)}

HangsOn(d, kv, elems) ==
  \/ d \in Properties /\ d \in kv
  \/ d \in Elements /\ d \in elems

Anchors(t) ==
  \E rank \in [Shown(t) -> 1 .. Len(t.disclosures)] : \A d \in Shown(t) :
    \/ HangsOn(d, t.issuerKv, t.issuerElems)
    \/ \E e \in Shown(t) : rank[e] < rank[d] /\ HangsOn(d, RefKv[e], RefElems[e])

(* Its key is one the caller trusts: the certificate it sends along, or,   *)
(* without one, the first of the listed keys with the identifier it names. *)
IssuedUnder(t, o) ==
  IF t.x5c # None
  THEN t.x5c # "unreadable" /\ t.signedBy = t.x5c /\ VouchedBy(o, t.x5c)
  ELSE \E i \in 1 .. Len(o.trustedIssuerJwks) :
         LET jwk == o.trustedIssuerJwks[i]
         IN /\ jwk.imports /\ jwk.key = t.signedBy
            /\ t.kid # None =>
                 /\ jwk.kid = t.kid
                 /\ \A j \in 1 .. i - 1 : o.trustedIssuerJwks[j].kid # t.kid

(* A holder whose key is in the credential proves to have it; and nobody   *)
(* insists on that proof where there is no key.                            *)
HolderSigns(t, o, r) ==
  IF t.cnf = None THEN t.kb = None /\ ~o.requireKeyBinding
  ELSE /\ t.cnf # "unusable" /\ t.kb # None
       /\ t.kb.alg # "unreadable" /\ t.kb.alg \in o.allowedAlgorithms
       /\ t.kb.current /\ t.kb.signedBy = t.cnf /\ t.kb.sdHash = t.disclosures
       /\ t.kb.aud = r.clientId /\ t.kb.nonce = r.nonce

(* The claims that are asked for are shown; the library does not report    *)
(* the reserved ones, nor what only another disclosure commits to.         *)
SdJwtFollows(t, o, in) ==
  /\ t.form = "sdJwt" /\ t.splits /\ t.resolves /\ t.current
  /\ t.alg \in o.allowedAlgorithms /\ IssuedUnder(t, o)
  /\ Anchors(t)
  /\ HolderSigns(t, o, RequestFor(in))
  /\ t.vct \in in.haip.vctValues
  /\ in.haip.claims \subseteq (t.plainClaims \cup (Shown(t) \cap t.issuerKv)) \ ReservedClaims
  /\ in.haip.trustedAuthorities # {} =>
       t.x5c # None /\ o.trustStore # None /\ in.haip.trustedAuthorities \cap o.authorityIds # {}

(* The transcript the device signs, of the request alone.                  *)
WalletTranscript(r, profile, mdocNonce) ==
  IF profile = "openid4vp-1.0"
  THEN [handover |-> "OpenID4VPHandover", clientId |-> r.clientId, nonce |-> r.nonce,
        key |-> r.encryptionKey, responseUri |-> r.responseUri]
  ELSE [handover |-> "OID4VPHandover", clientId |-> <<r.clientId, mdocNonce>>,
        responseUri |-> <<r.responseUri, mdocNonce>>, nonce |-> r.nonce]

(* Where ISO/IEC 18013-5 has an issuer put the items of a driving licence; *)
(* other documents have one namespace, named like their type.              *)
IssuedNamespace(docType) ==
  CASE docType = "org.iso.18013.5.1.mDL" -> "org.iso.18013.5.1"
    [] OTHER -> docType

(* An mdoc is only sent encrypted, it is signed within its validity, and   *)
(* its items are those the issuer listed the digests of.                   *)
MdocFollows(t, o, in, e) ==
  LET r == RequestFor(in)
  IN /\ t.form \in {"bytes", "base64url"} /\ t.broken = None
     /\ None \notin {r.encryptionKey, r.clientId, r.responseUri}
     /\ o.sessionTranscriptProfile # "openid4vp-1.0" => e.apu # None
     /\ t.alg \in o.allowedAlgorithms
     /\ t.x5chain # <<>> /\ t.x5chain[1] # "unreadable"
     /\ t.signedBy = t.x5chain[1] /\ VouchedBy(o, t.signedBy)
     /\ {t.validFrom, t.signed, t.validUntil} \subseteq Nat
     /\ t.validFrom <= t.signed /\ t.signed <= Now /\ Now <= t.validUntil
     /\ t.docType = in.haip.doctypeValue /\ o.expectedDocType \in {None, t.docType}
     /\ t.items \subseteq t.listed /\ t.items \subseteq t.committed
     /\ t.deviceKey \notin {None, "unsupported", "unusable"}
     /\ None \notin {t.device, t.device.transcript} /\ t.device.kind = "signature"
     /\ t.device.alg \in o.allowedAlgorithms /\ t.device.signedBy = t.deviceKey
     /\ t.device.transcript = WalletTranscript(r, o.sessionTranscriptProfile, e.apu)
     /\ t.device.docType = t.docType
     /\ {<<IssuedNamespace(t.docType), x>> : x \in in.haip.claims} \subseteq t.items
     /\ in.haip.trustedAuthorities # {} =>
          o.trustStore # None /\ in.haip.trustedAuthorities \cap o.authorityIds # {}

Conforming(c) ==
  LET in == c.input
      r  == RequestFor(in)
  IN /\ QueryBuilds(in.haip) /\ ~Refused(in)
     /\ FollowsRequest(c.options, r)
     /\ FollowsTransport(c.envelope, r) /\ PresentsOne(Plain(c))
     /\ IF in.haip.format = "dc+sd-jwt" THEN SdJwtFollows(TokenOf(c), c.options, in)
        ELSE MdocFollows(TokenOf(c), c.options, in, c.envelope)

ASSUME HonestAssumption == \A h \in HonestCases : Conforming(h)

(* The two sides agree: a conforming answer to a request this library      *)
(* created, verified with the values of that request, is accepted, for     *)
(* every kind of request, credential, trust and transcript.                *)
HonestAnswerIsAccepted ==
  case \in HonestCases => outcome \in {"pending", "accepted"}

(* What leaves the verifier can be stood behind: the query passes the      *)
(* library's own validator, the client id of a signed request is one that  *)
(* the certificate of its signer carries, and an encrypted answer is asked *)
(* for with a key and a cipher.                                            *)
SentRequestIsBacked ==
  request # None =>
    /\ IsHaipQuery(query)
    /\ case.input.signed =>
         /\ Leaf(case.input).key = case.input.signer
         /\ \/ request.clientId = <<"x509_hash", Leaf(case.input).cert>>
            \/ \E name \in Leaf(case.input).dnsNames :
                 request.clientId = <<"x509_san_dns", name>>
         /\ case.input.responseMode = "direct_post.jwt" =>
              request.encryptionKey # None /\ request.encValues # {}

(* Every answer gets a verdict: the passes over the disclosures end,       *)
(* whatever these refer to.                                                *)
EveryAnswerIsJudged == <>(outcome # "pending")

(* What the options promise of expectedDocType: a credential of another    *)
(* type than the one the caller asks for does not parse.                   *)
ExpectedTypeIsEnforced ==
  verdict = "valid" /\ options.expectedDocType # None =>
    (IF IsSdJwt THEN token.vct ELSE token.docType) = options.expectedDocType

=============================================================================
