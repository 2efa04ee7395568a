----------------------------- MODULE MdocParser -----------------------------
(***************************************************************************)
(* MdocParser.parse: the first document of a DeviceResponse, its COSE      *)
(* signature, trust, the Mobile Security Object (MSO) with its validity    *)
(* and docType, the digests of the items, and device authentication over   *)
(* the session transcript.                                                 *)
(*                                                                         *)
(* token.broken names the part of the CBOR structure that does not decode. *)
(***************************************************************************)
EXTENDS CredentialParser

CONSTANTS
  Now,           \* the time of the check
  NotADate       \* an MSO date that is a string but no date: getTime is NaN

ASSUME ClockAssumption == Now \in Nat /\ NotADate \notin Nat

VARIABLE
  digestMismatchIgnored

mdocVars == <<parserVars, digestMismatchIgnored>>

DecodeResponse ==
  /\ Check("deviceResponse", token.broken = "deviceResponse", FALSE, "issuerAuth")
  /\ UNCHANGED digestMismatchIgnored

(* decodeCoseSign1, and the algorithm it names.                            *)
DecodeIssuerAuth ==
  /\ Check("issuerAuth", token.broken = "issuerAuth",
           token.alg \notin options.allowedAlgorithms, "x5chain")
  /\ UNCHANGED digestMismatchIgnored

(* Only the first certificate of the chain is looked at.                   *)
CheckCertificate ==
  LET absent == token.x5chain = <<>>
  IN /\ Check("x5chain", absent \/ TrustThrows(token.x5chain[1]),
              ~absent /\ TrustRejects(token.x5chain[1]), "cose")
     /\ UNCHANGED digestMismatchIgnored

VerifyIssuerAuth ==
  /\ Check("cose", token.x5chain[1] = "unreadable",
           token.signedBy # token.x5chain[1], "mso")
  /\ UNCHANGED digestMismatchIgnored

-----------------------------------------------------------------------------
(* Comparisons of getTime: all are false for a NaN.                        *)
Before(s, t) == s # NotADate /\ t # NotADate /\ s < t

MsoMalformed ==
  \/ Before(Now, token.signed)
  \/ Before(Now, token.validFrom)
  \/ Before(token.validUntil, token.validFrom)
  \/ Before(token.signed, token.validFrom)
  \/ Before(token.validUntil, token.signed)

Expired == ~MsoMalformed /\ Before(token.validUntil, Now)

(* decodeMso and validateMsoValidity: an expired credential is invalid,    *)
(* anything else wrong with the MSO or its dates throws.                   *)
ValidateMso ==
  /\ Check("mso", token.broken = "mso" \/ MsoMalformed, Expired, "docType")
  /\ UNCHANGED digestMismatchIgnored

ValidateDocType ==
  /\ Check("docType", FALSE,
           options.expectedDocType # None /\ options.expectedDocType # token.docType,
           "digests")
  /\ UNCHANGED digestMismatchIgnored

(* Every item needs a digest in the MSO, listed under its namespace and    *)
(* id, and that digest has to be the item's.                               *)
DigestsThrow ==
  token.broken = "nameSpaces" \/ ~(token.items \subseteq token.listed)

DigestMismatch == ~(token.items \subseteq token.committed)

(* A mismatch ends the parsing unless the caller debugs; it is then noted. *)
VerifyDigests ==
  /\ Check("digests", DigestsThrow, DigestMismatch /\ ~options.allowDigestMismatch, "device")
  /\ digestMismatchIgnored' = (DigestMismatch /\ ~DigestsThrow /\ options.allowDigestMismatch)

-----------------------------------------------------------------------------
(* verifyDeviceAuth: a signature, not a MAC, by the device key of the MSO, *)
(* over the session transcript and the docType.                            *)
DeviceProved ==
  /\ token.device.kind = "signature"
  /\ token.device.alg \in options.allowedAlgorithms
  /\ token.deviceKey \notin {"unsupported", "unusable"}
  /\ token.device.signedBy = token.deviceKey
  /\ token.device.transcript = options.mdocSessionTranscript
  /\ token.device.docType = token.docType

(* A key of a kind that is not supported is refused; one that is no point  *)
(* of its curve is only found out by importKey, whose error is passed on.  *)
ImportThrows ==
  /\ token.deviceKey = "unusable"
  /\ token.device.kind = "signature" /\ token.device.alg \in options.allowedAlgorithms

AuthenticateDevice ==
  /\ LET missing == \/ token.device = None
                    \/ options.mdocSessionTranscript = None
                    \/ token.deviceKey = None
     IN Finish("device", ~missing /\ ImportThrows, missing \/ ~DeviceProved)
  /\ UNCHANGED digestMismatchIgnored

MdocNext ==
  \/ DecodeResponse \/ DecodeIssuerAuth \/ CheckCertificate \/ VerifyIssuerAuth
  \/ ValidateMso \/ ValidateDocType \/ VerifyDigests \/ AuthenticateDevice

=============================================================================
