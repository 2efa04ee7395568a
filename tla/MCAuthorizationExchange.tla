----------------------- MODULE MCAuthorizationExchange -----------------------
(***************************************************************************)
(* The cases of AuthorizationExchange for TLC: conforming exchanges of     *)
(* every kind, all that depart from one of them in one field, those that   *)
(* depart from a main one in an option and a field of the token, and every *)
(* choice of disclosures and of the digests the issuer committed to.       *)
(***************************************************************************)
EXTENDS AuthorizationExchange, FiniteSets

MCDisclosures == {"name", "address", "country", "nationalities", "nat", "stray", "junk"}
MCProperties == {"name", "address", "country", "nationalities", "stray"}
MCElements == {"nat"}

MCRefKv == [d \in MCDisclosures |->
  IF d \in {"address", "stray"} THEN {"country"} ELSE {}]
MCRefElems == [d \in MCDisclosures |->
  CASE d = "nationalities" -> {"nat"} [] d = "stray" -> {"nat", "address"} [] OTHER -> {}]

Mdl == "org.iso.18013.5.1.mDL"
Host == "v.example"

-----------------------------------------------------------------------------
SdHaip == [format |-> "dc+sd-jwt", claims |-> {"name"}, vctValues |-> {"pid"},
           doctypeValue |-> None, trustedAuthorities |-> {}]

MdocHaip(docType) ==
  [format |-> "mso_mdoc", claims |-> {"family_name"}, vctValues |-> {},
   doctypeValue |-> docType, trustedAuthorities |-> {}]

SignedInput(haip) ==
  [haip |-> haip, signed |-> TRUE,
   certificateChain |-> <<[cert |-> "leaf", dnsNames |-> {Host}, key |-> "k1"]>>,
   signingAlgorithm |-> "ES256", vpFormatsSupported |-> {haip.format},
   clientIdPrefix |-> "x509_san_dns", hostname |-> Host, signer |-> "k1",
   responseMode |-> "direct_post.jwt",
   encryptionKey |-> [key |-> "e1", namesAlg |-> TRUE, supportedEncValues |-> None],
   clientId |-> None, nonce |-> "n1", responseUri |-> "u1"]

HashInput(haip) ==
  [SignedInput(haip) EXCEPT !.clientIdPrefix = "x509_hash", !.hostname = None,
                            !.encryptionKey.supportedEncValues = {"A256GCM"}]

(* A signed and an unsigned request for an answer that is not encrypted.   *)
OpenInput(haip) == [SignedInput(haip) EXCEPT !.responseMode = "direct_post"]

UnsignedInput(haip) ==
  [OpenInput(haip) EXCEPT !.signed = FALSE, !.clientId = <<"redirect_uri", "u1">>]

(* A caller who verifies with the values of its request.                   *)
CallerOptions(in, profile) ==
  LET r == RequestFor(in)
  IN [allowedAlgorithms |-> {"ES256"}, trustStore |-> {"c1"}, trustedCertificates |-> {},
      skipTrustCheck |-> FALSE, trustedIssuerJwks |-> <<>>, nonce |-> r.nonce,
      audience |-> r.clientId, requireKeyBinding |-> FALSE, expectedDocType |-> None,
      allowDigestMismatch |-> FALSE, mdocSessionTranscript |-> None,
      decryptionKey |-> r.encryptionKey, clientId |-> r.clientId,
      responseUri |-> r.responseUri, sessionTranscriptProfile |-> profile,
      verifierEncryptionJwk |-> r.encryptionKey, authorityIds |-> {"a1"}]

(* What a conforming wallet does with a request.                           *)
SdToken(r) ==
  LET shown == <<"name", "address", "country">>
  IN [form |-> "sdJwt", splits |-> TRUE, alg |-> "ES256",
      x5c |-> "c1", kid |-> None, signedBy |-> "c1", current |-> TRUE,
      issuerKv |-> {"name", "address", "nationalities"}, issuerElems |-> {},
      disclosures |-> shown, cnf |-> "h1",
      kb |-> [alg |-> "ES256", signedBy |-> "h1", current |-> TRUE, aud |-> r.clientId,
              nonce |-> r.nonce, sdHash |-> shown],
      vct |-> "pid", plainClaims |-> {"iss"}, resolves |-> TRUE]

MdocToken(r, docType, profile) ==
  LET items == {<<IF docType = Mdl THEN "org.iso.18013.5.1" ELSE docType, "family_name">>}
  IN [form |-> "base64url", broken |-> None, alg |-> "ES256",
      x5chain |-> <<"c1">>, signedBy |-> "c1", signed |-> 2, validFrom |-> 2,
      validUntil |-> 3, docType |-> docType, items |-> items, listed |-> items,
      committed |-> items, deviceKey |-> "h1",
      device |-> [kind |-> "signature", alg |-> "ES256", signedBy |-> "h1",
                  transcript |-> WalletTranscript(r, profile, "m1"), docType |-> docType]]

Answer(r, t) ==
  LET plain == [kind |-> "plain", vpToken |-> <<<<t>>>>]
  IN IF r.encryptionKey = None THEN plain
     ELSE [kind |-> "encrypted", alg |-> "ECDH-ES", enc |-> CHOOSE e \in r.encValues : TRUE,
           encryptedTo |-> r.encryptionKey, apu |-> "m1", content |-> plain]

SdCase(in) == [input |-> in, envelope |-> Answer(RequestFor(in), SdToken(RequestFor(in))),
               options |-> CallerOptions(in, "iso-18013-7")]

MdocCase(in, profile) ==
  LET r == RequestFor(in)
  IN [input |-> in, envelope |-> Answer(r, MdocToken(r, in.haip.doctypeValue, profile)),
      options |-> CallerOptions(in, profile)]

WithToken(c, t) == IF c.envelope.kind = "plain"
                   THEN [c EXCEPT !.envelope.vpToken = <<<<t>>>>]
                   ELSE [c EXCEPT !.envelope.content.vpToken = <<<<t>>>>]

(* An issuer key the caller trusts as a JWK, and a listed certificate.     *)
Jwk(k, id) == [key |-> k, kid |-> id, imports |-> TRUE]

JwkCase(c, kid) ==
  LET t == TokenOf(c)
  IN [WithToken(c, [t EXCEPT !.x5c = None, !.signedBy = "j1", !.kid = kid])
        EXCEPT !.options.trustStore = None,
               !.options.trustedIssuerJwks =
                 <<[Jwk("j3", None) EXCEPT !.imports = FALSE], Jwk("j2", "two"), Jwk("j1", "one")>>]

ListCase(c) ==
  [c EXCEPT !.options.trustStore = None, !.options.trustedCertificates = {"c1", "c2"}]

SkipCase(c) ==
  [c EXCEPT !.options.trustStore = None, !.options.skipTrustCheck = TRUE]

AuthorityCase(c) == [c EXCEPT !.input.haip.trustedAuthorities = {"a1", "a2"}]

SdMain == SdCase(SignedInput(SdHaip))
SdOpen == SdCase(OpenInput(SdHaip))
MdocMain == MdocCase(SignedInput(MdocHaip(Mdl)), "openid4vp-1.0")

MCHonestCases ==
  LET sd == {SdMain, SdCase(HashInput(SdHaip)), SdOpen,
             SdCase(UnsignedInput(SdHaip))}
      mdoc == {MdocMain, MdocCase(HashInput(MdocHaip("pid")), "iso-18013-7"),
               MdocCase(SignedInput(MdocHaip(Mdl)), "iso-18013-7")}
      unbound == LET t == TokenOf(SdMain)
                 IN WithToken(SdMain, [t EXCEPT !.cnf = None, !.kb = None])
  IN sd \cup mdoc \cup {unbound, JwkCase(SdMain, None), JwkCase(SdMain, "one")}
     \cup {ListCase(c) : c \in sd \cup mdoc} \cup {SkipCase(c) : c \in sd \cup mdoc}
     \cup {AuthorityCase(c) : c \in sd \cup mdoc}

-----------------------------------------------------------------------------
(* Departures in one field.                                                *)
InputFaults(in) ==
  LET chain == in.certificateChain
  IN {[in EXCEPT !.haip = h] : h \in
        {[in.haip EXCEPT !.claims = {}], [in.haip EXCEPT !.vctValues = {}],
         [in.haip EXCEPT !.doctypeValue = None], [in.haip EXCEPT !.claims = {"iss"}],
         [in.haip EXCEPT !.trustedAuthorities = {"a2"}],
         [in.haip EXCEPT !.vctValues = {"diploma"}], SdHaip, MdocHaip("pid")}}
     \cup {[in EXCEPT !.certificateChain = ch] : ch \in
        {<<>>, <<[cert |-> "leaf", dnsNames |-> {}, key |-> "k1"]>>,
         <<[cert |-> "leaf", dnsNames |-> {Host}, key |-> "k2"]>>}}
     \cup {[in EXCEPT !.signingAlgorithm = "HS256"], [in EXCEPT !.vpFormatsSupported = {}],
           [in EXCEPT !.hostname = None], [in EXCEPT !.hostname = "other"],
           [in EXCEPT !.signer = "k2"], [in EXCEPT !.encryptionKey = None],
           [in EXCEPT !.clientId = None], [in EXCEPT !.nonce = None],
           [in EXCEPT !.nonce = "n2"], [in EXCEPT !.responseUri = "u2"]}
     \cup {[in EXCEPT !.encryptionKey = [key |-> k, namesAlg |-> a, supportedEncValues |-> v]] :
             k \in {"e1", "e2"}, a \in BOOLEAN, v \in {None, {}, {"A128GCM"}}}

OtherTranscripts(r) ==
  {WalletTranscript(s, p, "m1") : p \in {"iso-18013-7", "openid4vp-1.0"},
     s \in {r, [r EXCEPT !.nonce = "n2"], [r EXCEPT !.responseUri = "u2"],
            [r EXCEPT !.clientId = <<"x509_san_dns", "other">>],
            [r EXCEPT !.encryptionKey = "e2"], [r EXCEPT !.encryptionKey = None]}}

OptionFaults(c) ==
  LET o == c.options
  IN {[o EXCEPT !.allowedAlgorithms = {"ES384"}], [o EXCEPT !.trustStore = {"c2"}],
      [o EXCEPT !.trustStore = None], [o EXCEPT !.skipTrustCheck = TRUE],
      [o EXCEPT !.trustedCertificates = {"c2"}], [o EXCEPT !.trustedIssuerJwks = <<Jwk("j2", "two")>>],
      [o EXCEPT !.nonce = "n2"], [o EXCEPT !.nonce = "empty"], [o EXCEPT !.nonce = None],
      [o EXCEPT !.audience = None], [o EXCEPT !.audience = <<"x509_san_dns", "other">>],
      [o EXCEPT !.requireKeyBinding = TRUE], [o EXCEPT !.expectedDocType = "pid"], [o EXCEPT !.expectedDocType = "diploma"],
      [o EXCEPT !.allowDigestMismatch = TRUE], [o EXCEPT !.decryptionKey = None],
      [o EXCEPT !.decryptionKey = "e2"], [o EXCEPT !.clientId = None],
      [o EXCEPT !.clientId = <<"x509_san_dns", "other">>], [o EXCEPT !.responseUri = "u2"],
      [o EXCEPT !.responseUri = None], [o EXCEPT !.verifierEncryptionJwk = None],
      [o EXCEPT !.verifierEncryptionJwk = "e2"], [o EXCEPT !.authorityIds = {}]}
     \cup {[o EXCEPT !.sessionTranscriptProfile = p] : p \in {"iso-18013-7", "openid4vp-1.0"}}
     \cup {[o EXCEPT !.mdocSessionTranscript = t] : t \in OtherTranscripts(RequestFor(c.input))}

EnvelopeFaults(e) ==
  LET plain == IF e.kind = "plain" THEN e ELSE e.content
      t == plain.vpToken[1][1]
      plains == {plain, [kind |-> "other"]}
                \cup {[plain EXCEPT !.vpToken = v] : v \in
                        {<<>>, <<None>>, <<<<>>>>, <<<<t, t>>>>, <<<<t>>, <<t>>>>}}
  IN plains \cup
     IF e.kind = "plain" THEN {}
     ELSE {[e EXCEPT !.content = p] : p \in plains \cup {None, e}}
          \cup {[e EXCEPT !.alg = "RSA-OAEP"], [e EXCEPT !.enc = "A256CBC-HS512"],
                [e EXCEPT !.encryptedTo = "e2"], [e EXCEPT !.apu = None], [e EXCEPT !.apu = "m2"]}

KbFaults(t) ==
  IF t.kb = None THEN {}
  ELSE {[t.kb EXCEPT !.alg = "unreadable"], [t.kb EXCEPT !.alg = "ES384"],
        [t.kb EXCEPT !.signedBy = "h2"], [t.kb EXCEPT !.current = FALSE],
        [t.kb EXCEPT !.aud = <<"x509_san_dns", "other">>],
        [t.kb EXCEPT !.nonce = "n2"], [t.kb EXCEPT !.sdHash = <<"name">>], None}

SdFaults(t) ==
  {[t EXCEPT !.splits = FALSE], [t EXCEPT !.alg = "none"], [t EXCEPT !.current = FALSE],
   [t EXCEPT !.cnf = None], [t EXCEPT !.cnf = "h2"], [t EXCEPT !.cnf = "unusable"],
   [t EXCEPT !.vct = None], [t EXCEPT !.vct = "diploma"], [t EXCEPT !.resolves = FALSE],
   [t EXCEPT !.form = "other"]}
  \cup {[t EXCEPT !.x5c = x] : x \in {"c2", None, "unreadable"}}
  \cup {[t EXCEPT !.signedBy = k] : k \in {"c2", "j2", None}}
  \cup {[t EXCEPT !.kid = k] : k \in {None, "one", "two", "none of them"}}
  \cup {[t EXCEPT !.disclosures = q] : q \in
          {<<>>, <<"name">>, <<"name", "country">>, <<"address", "name", "country">>,
           <<"name", "stray">>, <<"name", "junk">>}}
  \cup {[t EXCEPT !.kb = k] : k \in KbFaults(t)}

(* Before, at and after the time of the check, and what is no date at all. *)
Dates == {2, 3, 4, NotADate}

MdocFaults(t, r) ==
  {[t EXCEPT !.broken = b] : b \in {"deviceResponse", "issuerAuth", "mso", "nameSpaces"}}
  \cup {[t EXCEPT !.form = f] : f \in {"bytes", "other"}}
  \cup {[t EXCEPT !.x5chain = x] : x \in {<<>>, <<"c2">>, <<"c2", "c1">>, <<"unreadable">>}}
  \cup {[t EXCEPT !.validFrom = from, !.signed = at, !.validUntil = until] :
          from \in Dates, at \in Dates, until \in Dates}
  \cup {[t EXCEPT !.alg = "ES384"], [t EXCEPT !.signedBy = "c2"], [t EXCEPT !.signedBy = None],
        [t EXCEPT !.docType = "pid"], [t EXCEPT !.listed = {}], [t EXCEPT !.committed = {}],
        [t EXCEPT !.items = {}], [t EXCEPT !.items = {<<Mdl, "family_name">>}]}
  \cup {[t EXCEPT !.deviceKey = k] : k \in {None, "h2", "unsupported", "unusable"}}
  \cup {[t EXCEPT !.device.transcript = x] : x \in OtherTranscripts(r)}
  \cup {[t EXCEPT !.device.kind = "mac"], [t EXCEPT !.device.alg = "ES384"],
        [t EXCEPT !.device.signedBy = "h2"], [t EXCEPT !.device.docType = "pid"],
        [t EXCEPT !.device = None]}

IsOrdinary(c) ==
  LET e == c.envelope
      p == IF e.kind = "encrypted" THEN e.content ELSE e
  IN p # None /\ p.kind = "plain" /\ Len(p.vpToken) = 1 /\ p.vpToken[1] # None
     /\ Len(p.vpToken[1]) = 1

HasRequest(in) ==
  in.certificateChain # <<>> /\ (in.responseMode = "direct_post" \/ in.encryptionKey # None)

TokenFaults(c) ==
  LET t == TokenOf(c)
  IN IF t.form = "sdJwt" THEN SdFaults(t)
     ELSE IF t.device = None \/ ~HasRequest(c.input) THEN {}
     ELSE MdocFaults(t, RequestFor(c.input))

OneFault(c) ==
  {[c EXCEPT !.input = in] : in \in InputFaults(c.input)}
  \cup (IF HasRequest(c.input) THEN {[c EXCEPT !.options = o] : o \in OptionFaults(c)} ELSE {})
  \cup (IF IsOrdinary(c)
        THEN {[c EXCEPT !.envelope = e] : e \in EnvelopeFaults(c.envelope)}
             \cup {WithToken(c, t) : t \in TokenFaults(c)}
        ELSE {})

(* Every choice of up to three disclosures, in every order, under every    *)
(* commitment of the issuer to some of them.                               *)
DisclosureLists ==
  UNION {{q \in [1..n -> MCDisclosures \ {"junk"}] : Cardinality({q[i] : i \in 1..n}) = n} :
           n \in 0..3}

DisclosureCases ==
  LET t == TokenOf(SdOpen)
  IN {WithToken(SdOpen, [t EXCEPT !.disclosures = q, !.kb.sdHash = q,
                                  !.issuerKv = kv, !.issuerElems = el]) :
        q \in DisclosureLists, kv \in SUBSET {"name", "address", "nationalities"},
        el \in SUBSET {"nat", "name"}}

(* A departure of the caller together with one of the wallet or issuer.    *)
TwoFaults(c) ==
  LET tokens == TokenFaults(c)
      callers == OptionFaults(c)
  IN {WithToken([c EXCEPT !.options = o], t) : o \in callers, t \in tokens}

MCDepartures ==
  [c \in MCHonestCases |->
    OneFault(c) \cup (CASE c \in {SdMain, MdocMain} -> TwoFaults(c)
                       [] c = SdOpen -> DisclosureCases
                       [] OTHER -> {})]

=============================================================================
