----------------------------- MODULE Revocation -----------------------------
(***************************************************************************)
(* Revocation checking of one certificate: RevocationChecker.check with    *)
(* its OcspClient and CrlFetcher, which share one Cache.  Concurrent       *)
(* checks run it, each with the `now' it was called with; OCSP is asked    *)
(* first, then the CRL distribution points in order, every source through  *)
(* the cache.                                                              *)
(*                                                                         *)
(* The CA revokes the certificate at revokedAt.  What it signs tells the   *)
(* truth of the time it was issued, and may arrive at any time after that; *)
(* what it did not sign may say anything.                                  *)
(***************************************************************************)
EXTENDS Naturals, FiniteSets

CONSTANTS
  Checks,
  CrlCount,      \* CRL distribution points the certificate may have
  MaxAge,        \* DEFAULT_MAX_RESPONSE_AGE_MS of an OCSP response
  CrlLife,       \* nextUpdate - thisUpdate of the CA's CRLs
  MinTtl,        \* the 60 s floor of every cache TTL
  MaxOcspTtl,    \* the 1 h ceiling of the OCSP cache TTL
  Horizon        \* bound: the clock stops here

ASSUME RevocationAssumption ==
  /\ CrlCount \in Nat /\ MaxAge \in Nat /\ CrlLife \in Nat /\ Horizon \in Nat
  /\ MinTtl \in Nat \ {0} /\ MaxOcspTtl \in Nat /\ MaxOcspTtl >= MinTtl

VARIABLES
  now,           \* Date.now()
  revokedAt,     \* when the CA revoked the certificate, or later than Horizon
  config,        \* policy, the cache option and the URLs in the certificate
  cache,         \* the cached answer of each source
  checks         \* the calls of check

vars == <<now, revokedAt, config, cache, checks>>

Ocsp    == 0
Crls    == 1 .. CrlCount
Slots   == {Ocsp} \cup Crls

(* An OCSP response or a CRL; issuedAt is its thisUpdate.  An OCSP         *)
(* response whose status the responder does not know is not `known'.  An   *)
(* unsigned answer is one whose signature does not verify; it claims to be *)
(* old, and that nothing is revoked, or to come from a time when all is.   *)
Answer == [signed : BOOLEAN, issuedAt : Nat, nextUpdate : Nat, known : BOOLEAN]

UnsignedAnswers ==
  [signed : {FALSE}, issuedAt : {0, Horizon + 1}, nextUpdate : {Horizon},
   known : {TRUE}]

OcspAnswers ==
  UnsignedAnswers \cup
  [signed : {TRUE}, issuedAt : 0 .. now, nextUpdate : {now, Horizon},
   known : BOOLEAN]

CrlAnswers ==
  UnsignedAnswers \cup
  {[signed |-> TRUE, issuedAt |-> t, nextUpdate |-> t + CrlLife,
    known |-> TRUE] : t \in 0 .. now}

Revokes(answer) == revokedAt <= answer.issuedAt

Empty == [held |-> FALSE, expiresAt |-> 0,
          answer |-> [signed |-> FALSE, issuedAt |-> 0, nextUpdate |-> 0,
                      known |-> TRUE]]

Config == [policy : {"skip", "prefer", "require"}, cached : BOOLEAN,
           ocsp : BOOLEAN, crls : 0 .. CrlCount]

Check == [pc : {"idle", "ocspLookup", "ocspFetch", "crlLookup", "crlFetch", "ended"},
          at : Nat,
          crl : 1 .. CrlCount + 1,
          verdict : {"none", "good", "revoked", "unknown", "threw"},
          source : {"none", "ocsp", "crl"},
          tried : SUBSET Slots]

TypeOK ==
  /\ now \in Nat /\ revokedAt \in Nat
  /\ config \in Config
  /\ cache \in [Slots -> [held : BOOLEAN, answer : Answer, expiresAt : Nat]]
  /\ checks \in [Checks -> Check]

Init ==
  /\ now = 0
  /\ revokedAt \in 1 .. Horizon + 1
  /\ config \in Config
  /\ cache = [k \in Slots |-> Empty]
  /\ checks = [c \in Checks |-> [pc |-> "idle", at |-> 0, crl |-> 1,
                verdict |-> "none", source |-> "none", tried |-> {}]]

-----------------------------------------------------------------------------
Sources == (IF config.ocsp THEN {Ocsp} ELSE {}) \cup 1 .. config.crls

Hit(k) == config.cached /\ cache[k].held /\ now <= cache[k].expiresAt

Later(a, b)   == IF a > b THEN a ELSE b
Earlier(a, b) == IF a < b THEN a ELSE b

(* Seconds left until nextUpdate at the time the check was called with. *)
Left(c, answer) ==
  IF answer.nextUpdate > checks[c].at THEN answer.nextUpdate - checks[c].at ELSE 0

Store(k, answer, ttl) ==
  cache' = IF config.cached
           THEN [cache EXCEPT ![k] =
                   [held |-> TRUE, answer |-> answer, expiresAt |-> now + ttl]]
           ELSE cache

End(c, verdict, source) ==
  checks' = [checks EXCEPT ![c].pc = "ended", ![c].verdict = verdict,
                           ![c].source = source]

EndWith(c, k, verdict, source) ==
  checks' = [checks EXCEPT ![c].pc = "ended", ![c].verdict = verdict,
                           ![c].source = source, ![c].tried = @ \cup {k}]

-----------------------------------------------------------------------------
Start(c, pc, verdict) ==
  checks' = [checks EXCEPT ![c].pc = pc, ![c].at = now, ![c].verdict = verdict]

(* Without a URL in the certificate there is nothing to ask. *)
Begin(c) ==
  /\ checks[c].pc = "idle"
  /\ \/ config.policy = "skip" /\ Start(c, "ended", "good")
     \/ /\ config.policy # "skip" /\ Sources = {}
        /\ Start(c, "ended", IF config.policy = "require" THEN "threw" ELSE "unknown")
     \/ /\ config.policy # "skip" /\ Sources # {}
        /\ Start(c, IF config.ocsp THEN "ocspLookup" ELSE "crlLookup", "none")
  /\ UNCHANGED <<now, revokedAt, config, cache>>

(* verifyResponse and extractVerdict; any throw leads on to the CRLs. *)
OcspUsable_AnyAge(c, answer) == answer.signed

OcspUsable(c, answer) ==
  answer.signed /\ ~(checks[c].at > answer.issuedAt + MaxAge)

OcspVerdict(answer) ==
  IF ~answer.known THEN "unknown" ELSE IF Revokes(answer) THEN "revoked" ELSE "good"

JudgeOcsp(c, answer) ==
  IF OcspUsable(c, answer)
  THEN EndWith(c, Ocsp, OcspVerdict(answer), "ocsp")
  ELSE checks' = [checks EXCEPT ![c].pc = "crlLookup", ![c].tried = @ \cup {Ocsp}]

OcspLookup(c) ==
  /\ checks[c].pc = "ocspLookup"
  /\ IF Hit(Ocsp)
     THEN JudgeOcsp(c, cache[Ocsp].answer)
     ELSE checks' = [checks EXCEPT ![c].pc = "ocspFetch"]
  /\ UNCHANGED <<now, revokedAt, config, cache>>

OcspTtl(c, answer) == Later(Earlier(Left(c, answer), MaxOcspTtl), MinTtl)

OcspArrives(c, answer) ==
  /\ checks[c].pc = "ocspFetch"
  /\ JudgeOcsp(c, answer)
  /\ IF OcspUsable(c, answer)
     THEN Store(Ocsp, answer, OcspTtl(c, answer))
     ELSE UNCHANGED cache
  /\ UNCHANGED <<now, revokedAt, config>>

(* Reports `unknown' at once instead of leaving it to the CRLs. *)
OcspFails_GivesUp(c) ==
  /\ checks[c].pc = "ocspFetch"
  /\ EndWith(c, Ocsp, "unknown", "none")
  /\ UNCHANGED <<now, revokedAt, config, cache>>

OcspFails(c) ==
  /\ checks[c].pc = "ocspFetch"
  /\ checks' = [checks EXCEPT ![c].pc = "crlLookup", ![c].tried = @ \cup {Ocsp}]
  /\ UNCHANGED <<now, revokedAt, config, cache>>

-----------------------------------------------------------------------------
IsStale(c, answer) == checks[c].at > answer.nextUpdate

NextCrl(c) ==
  checks' = [checks EXCEPT ![c].pc = "crlLookup", ![c].crl = @ + 1,
                           ![c].tried = @ \cup {checks[c].crl}]

(* verifyCrl, isStale, isRevoked. *)
JudgeCrl(c, answer) ==
  IF ~answer.signed THEN NextCrl(c)
  ELSE IF IsStale(c, answer)
  THEN IF config.policy = "require" THEN EndWith(c, checks[c].crl, "threw", "none")
       ELSE NextCrl(c)
  ELSE EndWith(c, checks[c].crl, IF Revokes(answer) THEN "revoked" ELSE "good", "crl")

AllFailed_Open(c) == End(c, "unknown", "none")

AllFailed(c) ==
  End(c, IF config.policy = "require" THEN "threw" ELSE "unknown", "none")

CrlLookup(c) ==
  /\ checks[c].pc = "crlLookup"
  /\ IF checks[c].crl > config.crls THEN AllFailed(c)
     ELSE IF Hit(checks[c].crl) THEN JudgeCrl(c, cache[checks[c].crl].answer)
     ELSE checks' = [checks EXCEPT ![c].pc = "crlFetch"]
  /\ UNCHANGED <<now, revokedAt, config, cache>>

(* The CRL is stored as soon as it parses, and verified afterwards. *)
CrlArrives(c, answer) ==
  /\ checks[c].pc = "crlFetch"
  /\ JudgeCrl(c, answer)
  /\ Store(checks[c].crl, answer, Later(Left(c, answer), MinTtl))
  /\ UNCHANGED <<now, revokedAt, config>>

(* No answer, an error status, or a CRL without nextUpdate. *)
CrlFails(c) ==
  /\ checks[c].pc = "crlFetch"
  /\ NextCrl(c)
  /\ UNCHANGED <<now, revokedAt, config, cache>>

-----------------------------------------------------------------------------
(* The cache may evict any entry to make room for others'. *)
CacheForgets(k) ==
  /\ cache[k].held
  /\ cache' = [cache EXCEPT ![k] = Empty]
  /\ UNCHANGED <<now, revokedAt, config, checks>>

Tick ==
  /\ now < Horizon
  /\ now' = now + 1
  /\ UNCHANGED <<revokedAt, config, cache, checks>>

OcspSettles(c) == OcspFails(c) \/ \E answer \in OcspAnswers : OcspArrives(c, answer)
CrlSettles(c)  == CrlFails(c) \/ \E answer \in CrlAnswers : CrlArrives(c, answer)

CheckStep(c) ==
  OcspLookup(c) \/ OcspSettles(c) \/ CrlLookup(c) \/ CrlSettles(c)

Next ==
  \/ \E c \in Checks : Begin(c) \/ CheckStep(c)
  \/ \E k \in Slots : CacheForgets(k)
  \/ Tick

Spec == Init /\ [][Next]_vars

-----------------------------------------------------------------------------
(* A verdict from a source is never older than its source allows, however  *)
(* it came through the cache: `good' means not revoked MaxAge before the   *)
(* check (OCSP) or one CRL lifetime before it, and `revoked' means the CA  *)
(* did revoke.                                                             *)
VerdictsAreCurrent ==
  \A c \in Checks :
    LET check == checks[c] IN
    /\ check.verdict = "good" /\ check.source = "ocsp" => revokedAt + MaxAge > check.at
    /\ check.verdict = "good" /\ check.source = "crl"  => revokedAt + CrlLife > check.at
    /\ check.verdict = "revoked" => revokedAt <= now

(* Under `require' a check that got nothing usable from any source throws; *)
(* it never reports a status no source gave it.                            *)
RequireFailsClosed ==
  \A c \in Checks :
    /\ config.policy = "require"
    /\ checks[c].verdict \in {"good", "unknown", "revoked"}
    => checks[c].source # "none"

(* Under `prefer', `unknown' without a source means every source that the  *)
(* certificate names was tried.                                            *)
PreferTriesEverything ==
  \A c \in Checks :
    /\ config.policy = "prefer"
    /\ checks[c].verdict = "unknown" /\ checks[c].source = "none"
    => checks[c].tried = Sources

=============================================================================
