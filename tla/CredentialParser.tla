-------------------------- MODULE CredentialParser --------------------------
(***************************************************************************)
(* What the two credential parsers share.  A parser takes one presentation *)
(* and the caller's options through a list of checks; a check that fails   *)
(* either makes the result invalid or throws, and ends the parsing.        *)
(*                                                                         *)
(* Cryptography is ideal: a signature is the key that made it, a digest is *)
(* the thing it was computed from.  A certificate stands for its key.      *)
(***************************************************************************)
EXTENDS Naturals, Sequences

CONSTANT
  None           \* undefined, or a field that is absent

(* What is there and cannot be used is not absent.                         *)
ASSUME NoneAssumption ==
  None \notin {"unreadable", "unusable", "unsupported",
               "deviceResponse", "issuerAuth", "mso", "nameSpaces"}

VARIABLES
  token,         \* vpToken: the presentation
  options,       \* ParseOptions
  pc,            \* the next check
  verdict        \* PresentationResult.valid, or that parse threw

parserVars == <<token, options, pc, verdict>>

Verdicts == {"pending", "valid", "invalid", "threw"}

(* One check: it throws, returns an invalid result, or goes on.            *)
Passes(here, throws, rejects, next) ==
  /\ pc = here
  /\ pc' = IF throws \/ rejects THEN "done" ELSE next
  /\ verdict' = IF throws THEN "threw" ELSE IF rejects THEN "invalid" ELSE verdict

Check(here, throws, rejects, next) ==
  /\ Passes(here, throws, rejects, next)
  /\ UNCHANGED <<token, options>>

(* The last step of a parser.                                              *)
Finish(here, throws, rejects) ==
  /\ pc = here
  /\ pc' = "done"
  /\ verdict' = IF throws THEN "threw" ELSE IF rejects THEN "invalid" ELSE "valid"
  /\ UNCHANGED <<token, options>>

-----------------------------------------------------------------------------
(* The trust check on the issuer certificate.  options.trustStore is None  *)
(* or the certificates TrustEvaluator.evaluate resolves for; it throws for *)
(* any other.  Without a store the certificate itself must be listed.      *)
TrustThrows(cert) ==
  \/ options.trustStore # None /\ cert \notin options.trustStore
  \/ /\ options.trustStore = None
     /\ options.trustedCertificates = {}
     /\ ~options.skipTrustCheck

TrustRejects(cert) ==
  /\ options.trustStore = None
  /\ options.trustedCertificates # {}
  /\ cert \notin options.trustedCertificates

(* What the options ask of an issuer: a certificate that the store or the  *)
(* list vouches for, and any certificate only from a caller who has asked  *)
(* for no check and named nobody.                                          *)
VouchedBy(o, cert) ==
  IF o.trustStore # None THEN cert \in o.trustStore
  ELSE \/ cert \in o.trustedCertificates
       \/ o.skipTrustCheck /\ o.trustedCertificates = {}

Vouched(cert) == VouchedBy(options, cert)

=============================================================================
