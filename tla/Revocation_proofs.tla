-------------------------- MODULE Revocation_proofs --------------------------
(***************************************************************************)
(* What a revocation verdict is worth, for any number of checks and CRLs   *)
(* and any lifetimes: it is as current as its source allows, however it    *)
(* came through the cache, and the policies keep what they say.            *)
(***************************************************************************)
EXTENDS Revocation, TLAPS

(* What the CA signed cannot be from the future, and its CRLs live equally *)
(* long, when they are cached too.                                         *)
CacheInv ==
  \A k \in Slots : cache[k].answer.signed =>
    /\ cache[k].answer.issuedAt <= now
    /\ k \in Crls => cache[k].answer.nextUpdate = cache[k].answer.issuedAt + CrlLife

(* The CRL distribution points before i, and the OCSP responder if the     *)
(* certificate names one.                                                  *)
TriedBefore(i) == (IF config.ocsp THEN {Ocsp} ELSE {}) \cup 1 .. (i - 1)

(* A check in progress has tried every source before the one it is at.     *)
Progress(check) ==
  /\ check.pc # "ended" => check.verdict = "none" /\ check.source = "none"
  /\ check.pc = "idle" => check.crl = 1 /\ check.tried = {}
  /\ check.pc \in {"ocspLookup", "ocspFetch"} =>
       config.ocsp /\ check.crl = 1 /\ check.tried = {}
  /\ check.pc \in {"crlLookup", "crlFetch"} =>
       check.crl <= config.crls + 1 /\ check.tried = TriedBefore(check.crl)
  /\ check.pc = "crlFetch" => check.crl <= config.crls

(* What the properties say of one check. *)
Current(check) ==
  /\ check.verdict = "good" /\ check.source = "ocsp" => revokedAt + MaxAge > check.at
  /\ check.verdict = "good" /\ check.source = "crl"  => revokedAt + CrlLife > check.at
  /\ check.verdict = "revoked" => revokedAt <= now

FailsClosed(check) ==
  config.policy = "require" /\ check.verdict \in {"good", "unknown", "revoked"}
    => check.source # "none"

TriedAll(check) ==
  config.policy = "prefer" /\ check.verdict = "unknown" /\ check.source = "none"
    => check.tried = Sources

Sound(check) ==
  check.at <= now /\ Progress(check) /\ Current(check) /\ FailsClosed(check) /\ TriedAll(check)

RevInv == TypeOK /\ CacheInv /\ \A c \in Checks : Sound(checks[c])

-----------------------------------------------------------------------------
LEMMA InitRev == Init => RevInv
<1> SUFFICES ASSUME Init PROVE RevInv
  OBVIOUS
<1>1. TypeOK
  BY RevocationAssumption DEF Init, TypeOK, Empty, Answer, Check
<1>2. CacheInv
  BY DEF Init, CacheInv, Empty
<1>3. ASSUME NEW c \in Checks PROVE Sound(checks[c])
  BY DEF Init, Sound, Progress, Current, FailsClosed, TriedAll
<1> QED
  BY <1>1, <1>2, <1>3 DEF RevInv

(* A step of one check touches no other. *)
LEMMA OneCheckMoves ==
  ASSUME RevInv, NEW c \in Checks,
         UNCHANGED <<now, revokedAt, config>>,
         checks' \in [Checks -> Check],
         \A d \in Checks \ {c} : checks'[d] = checks[d],
         Sound(checks[c])',
         cache' \in [Slots -> [held : BOOLEAN, answer : Answer, expiresAt : Nat]],
         CacheInv'
  PROVE  RevInv'
<1>1. TypeOK'
  BY DEF RevInv, TypeOK
<1>2. ASSUME NEW d \in Checks PROVE Sound(checks[d])'
  <2>1. CASE d = c
    BY <2>1
  <2>2. CASE d # c
    BY <2>2 DEF RevInv, Sound, Progress, Current, FailsClosed, TriedAll, TriedBefore, Sources
  <2> QED BY <2>1, <2>2
<1> QED
  BY <1>1, <1>2 DEF RevInv

(* The cache stays as it is for most steps. *)
LEMMA CacheKept ==
  ASSUME RevInv, UNCHANGED <<now, cache>>
  PROVE  /\ cache' \in [Slots -> [held : BOOLEAN, answer : Answer, expiresAt : Nat]]
         /\ CacheInv'
BY DEF RevInv, TypeOK, CacheInv

LEMMA CacheStored ==
  ASSUME RevInv, UNCHANGED now, NEW k \in Slots, NEW answer \in Answer, NEW ttl \in Nat,
         Store(k, answer, ttl),
         answer.signed =>
           /\ answer.issuedAt <= now
           /\ k \in Crls => answer.nextUpdate = answer.issuedAt + CrlLife
  PROVE  /\ cache' \in [Slots -> [held : BOOLEAN, answer : Answer, expiresAt : Nat]]
         /\ CacheInv'
<1>1. CASE cache' = cache
  BY <1>1, CacheKept
<1>2. CASE cache' = [cache EXCEPT ![k] = [held |-> TRUE, answer |-> answer, expiresAt |-> now + ttl]]
  BY <1>2 DEF RevInv, TypeOK, CacheInv
<1> QED
  BY <1>1, <1>2 DEF Store

-----------------------------------------------------------------------------
(* The ways a check moves on. *)
Verdicts == {"none", "good", "revoked", "unknown", "threw"}

LEMMA Ends ==
  ASSUME checks \in [Checks -> Check], NEW c \in Checks, NEW k \in Slots,
         NEW verdict \in Verdicts, NEW source \in {"none", "ocsp", "crl"},
         EndWith(c, k, verdict, source)
  PROVE  /\ checks' \in [Checks -> Check]
         /\ \A d \in Checks \ {c} : checks'[d] = checks[d]
         /\ checks'[c].pc = "ended" /\ checks'[c].at = checks[c].at
         /\ checks'[c].verdict = verdict /\ checks'[c].source = source
         /\ checks'[c].tried = checks[c].tried \cup {k}
<1>1. /\ checks' = [checks EXCEPT ![c] = checks'[c]]
      /\ checks'[c] = [checks[c] EXCEPT !.pc = "ended", !.verdict = verdict, !.source = source,
                                       !.tried = @ \cup {k}]
  BY DEF EndWith
<1>2. checks[c] \in Check
  OBVIOUS
<1>3. checks[c].tried \cup {k} \in SUBSET Slots
  BY <1>2 DEF Check
<1>4. checks'[c] \in Check
  BY <1>1, <1>2, <1>3 DEF Check, Verdicts
<1>5. /\ checks'[c].pc = "ended" /\ checks'[c].at = checks[c].at
      /\ checks'[c].verdict = verdict /\ checks'[c].source = source
      /\ checks'[c].tried = checks[c].tried \cup {k}
  BY <1>1, <1>2 DEF Check
<1> QED BY <1>1, <1>4, <1>5

LEMMA AsksCrl ==
  ASSUME RevInv, UNCHANGED <<now, revokedAt, config>>, NEW c \in Checks,
         checks[c].pc \in {"ocspLookup", "ocspFetch"},
         checks' = [checks EXCEPT ![c].pc = "crlLookup", ![c].tried = @ \cup {Ocsp}]
  PROVE  /\ checks' \in [Checks -> Check]
         /\ \A d \in Checks \ {c} : checks'[d] = checks[d]
         /\ Sound(checks[c])'
<1>1. /\ checks' \in [Checks -> Check]
      /\ \A d \in Checks \ {c} : checks'[d] = checks[d]
      /\ checks'[c].pc = "crlLookup" /\ checks'[c].at = checks[c].at
      /\ checks'[c].verdict = checks[c].verdict /\ checks'[c].source = checks[c].source
      /\ checks'[c].tried = checks[c].tried \cup {Ocsp} /\ checks'[c].crl = checks[c].crl
  BY DEF RevInv, TypeOK, Check, Slots
<1>2. /\ checks[c].verdict = "none" /\ checks[c].source = "none"
      /\ config.ocsp /\ checks[c].crl = 1 /\ checks[c].tried = {}
      /\ checks[c].at <= now /\ config.crls \in Nat
  BY RevocationAssumption DEF RevInv, TypeOK, Config, Sound, Progress
<1>3. Progress(checks[c])'
  BY <1>1, <1>2 DEF Progress, TriedBefore
<1> QED
  BY <1>1, <1>2, <1>3 DEF Sound, Current, FailsClosed, TriedAll

LEMMA AsksNextCrl ==
  ASSUME RevInv, UNCHANGED <<now, revokedAt, config>>, NEW c \in Checks,
         checks[c].pc \in {"crlLookup", "crlFetch"}, checks[c].crl <= config.crls,
         NextCrl(c)
  PROVE  /\ checks' \in [Checks -> Check]
         /\ \A d \in Checks \ {c} : checks'[d] = checks[d]
         /\ Sound(checks[c])'
<1>1. /\ checks[c].verdict = "none" /\ checks[c].source = "none"
      /\ checks[c].tried = TriedBefore(checks[c].crl)
      /\ checks[c].at <= now /\ config.crls \in 0 .. CrlCount
      /\ checks[c].crl \in 1 .. CrlCount /\ checks[c].crl \in Slots
  BY RevocationAssumption DEF RevInv, TypeOK, Config, Check, Sound, Progress, Slots, Crls
<1>2. /\ checks' \in [Checks -> Check]
      /\ \A d \in Checks \ {c} : checks'[d] = checks[d]
      /\ checks'[c].pc = "crlLookup" /\ checks'[c].at = checks[c].at
      /\ checks'[c].verdict = checks[c].verdict /\ checks'[c].source = checks[c].source
      /\ checks'[c].tried = checks[c].tried \cup {checks[c].crl}
      /\ checks'[c].crl = checks[c].crl + 1
  <2>1. checks[c].crl + 1 \in 1 .. CrlCount + 1
    BY <1>1, RevocationAssumption
  <2>2. checks \in [Checks -> Check]
    BY DEF RevInv, TypeOK
  <2> QED BY <1>1, <2>1, <2>2 DEF Check, NextCrl
<1>3. TriedBefore(checks[c].crl) \cup {checks[c].crl} = TriedBefore(checks[c].crl + 1)
  <2>1. 1 .. (checks[c].crl - 1) \cup {checks[c].crl} = 1 .. checks[c].crl
    BY <1>1, RevocationAssumption
  <2> QED BY <1>1, <2>1, RevocationAssumption DEF TriedBefore
<1>4. Progress(checks[c])'
  <2>1. TriedBefore(checks[c].crl)' = TriedBefore(checks'[c].crl)
    BY DEF TriedBefore
  <2> QED BY <1>1, <1>2, <1>3, <2>1, RevocationAssumption DEF Progress
<1> QED
  BY <1>1, <1>2, <1>4 DEF Sound, Current, FailsClosed, TriedAll

-----------------------------------------------------------------------------
(* What the two kinds of answer decide. *)
LEMMA OcspDecides ==
  ASSUME RevInv, UNCHANGED <<now, revokedAt, config>>, NEW c \in Checks,
         checks[c].pc \in {"ocspLookup", "ocspFetch"},
         NEW answer \in Answer, answer.signed => answer.issuedAt <= now,
         JudgeOcsp(c, answer)
  PROVE  /\ checks' \in [Checks -> Check]
         /\ \A d \in Checks \ {c} : checks'[d] = checks[d]
         /\ Sound(checks[c])'
<1>1. CASE OcspUsable(c, answer)
  <2> DEFINE verdict == OcspVerdict(answer)
  <2>0. Ocsp \in Slots /\ verdict \in {"unknown", "revoked", "good"}
    BY DEF Slots, OcspVerdict
  <2>1. /\ checks' \in [Checks -> Check]
        /\ \A d \in Checks \ {c} : checks'[d] = checks[d]
        /\ checks'[c].pc = "ended" /\ checks'[c].at = checks[c].at
        /\ checks'[c].verdict = verdict /\ checks'[c].source = "ocsp"
    BY <1>1, <2>0, Ends DEF JudgeOcsp, RevInv, TypeOK, Verdicts
  <2>2. checks[c].at <= now /\ checks[c].at \in Nat /\ revokedAt \in Nat /\ now \in Nat
    BY DEF RevInv, TypeOK, Check, Sound
  <2>3. answer.issuedAt \in Nat /\ answer.issuedAt <= now
        /\ checks[c].at <= answer.issuedAt + MaxAge
    BY <1>1, <2>2, RevocationAssumption DEF OcspUsable, Answer
  <2>4. verdict = "good" => revokedAt > answer.issuedAt
    BY <2>2, <2>3 DEF OcspVerdict, Revokes
  <2>5. verdict = "revoked" => revokedAt <= answer.issuedAt
    BY <2>2, <2>3 DEF OcspVerdict, Revokes
  <2>6. Current(checks[c])'
    BY <2>1, <2>2, <2>3, <2>4, <2>5, RevocationAssumption DEF Current
  <2>7. Progress(checks[c])' /\ FailsClosed(checks[c])' /\ TriedAll(checks[c])'
    BY <2>1 DEF Progress, FailsClosed, TriedAll
  <2> QED BY <2>1, <2>2, <2>6, <2>7 DEF Sound
<1>2. CASE ~OcspUsable(c, answer)
  BY <1>2, AsksCrl DEF JudgeOcsp
<1> QED BY <1>1, <1>2

LEMMA CrlDecides ==
  ASSUME RevInv, UNCHANGED <<now, revokedAt, config>>, NEW c \in Checks,
         checks[c].pc \in {"crlLookup", "crlFetch"}, checks[c].crl <= config.crls,
         NEW answer \in Answer,
         answer.signed => /\ answer.issuedAt <= now
                          /\ answer.nextUpdate = answer.issuedAt + CrlLife,
         JudgeCrl(c, answer)
  PROVE  /\ checks' \in [Checks -> Check]
         /\ \A d \in Checks \ {c} : checks'[d] = checks[d]
         /\ Sound(checks[c])'
<1>0. /\ checks[c].crl \in Slots
      /\ checks[c].at <= now /\ checks[c].at \in Nat /\ revokedAt \in Nat /\ now \in Nat
  BY RevocationAssumption DEF RevInv, TypeOK, Config, Check, Sound, Slots, Crls
<1>1. CASE ~answer.signed
  BY <1>1, AsksNextCrl DEF JudgeCrl
<1>2. CASE answer.signed /\ IsStale(c, answer) /\ config.policy # "require"
  BY <1>2, AsksNextCrl DEF JudgeCrl
<1>3. CASE answer.signed /\ IsStale(c, answer) /\ config.policy = "require"
  <2>1. /\ checks' \in [Checks -> Check]
        /\ \A d \in Checks \ {c} : checks'[d] = checks[d]
        /\ checks'[c].pc = "ended" /\ checks'[c].at = checks[c].at
        /\ checks'[c].verdict = "threw" /\ checks'[c].source = "none"
    BY <1>0, <1>3, Ends DEF JudgeCrl, RevInv, TypeOK, Verdicts
  <2> QED BY <1>0, <2>1 DEF Sound, Progress, Current, FailsClosed, TriedAll
<1>4. CASE answer.signed /\ ~IsStale(c, answer)
  <2> DEFINE verdict == IF Revokes(answer) THEN "revoked" ELSE "good"
  <2>1. /\ checks' \in [Checks -> Check]
        /\ \A d \in Checks \ {c} : checks'[d] = checks[d]
        /\ checks'[c].pc = "ended" /\ checks'[c].at = checks[c].at
        /\ checks'[c].verdict = verdict /\ checks'[c].source = "crl"
    BY <1>0, <1>4, Ends DEF JudgeCrl, RevInv, TypeOK, Verdicts
  <2>2. answer.issuedAt \in Nat /\ answer.issuedAt <= now
        /\ checks[c].at <= answer.issuedAt + CrlLife
    BY <1>0, <1>4, RevocationAssumption DEF IsStale, Answer
  <2>3. verdict = "good" => revokedAt > answer.issuedAt
    BY <1>0, <2>2 DEF Revokes
  <2>4. verdict = "revoked" => revokedAt <= answer.issuedAt
    BY <1>0, <2>2 DEF Revokes
  <2>5. Current(checks[c])'
    BY <1>0, <2>1, <2>2, <2>3, <2>4, RevocationAssumption DEF Current
  <2>6. Progress(checks[c])' /\ FailsClosed(checks[c])' /\ TriedAll(checks[c])'
    BY <2>1 DEF Progress, FailsClosed, TriedAll
  <2> QED BY <1>0, <2>1, <2>5, <2>6 DEF Sound
<1> QED BY <1>1, <1>2, <1>3, <1>4

-----------------------------------------------------------------------------
(* What arrives is an answer, and tells of the past if the CA signed it.   *)
LEMMA UnsignedTellNothing ==
  ASSUME NEW answer \in UnsignedAnswers
  PROVE  answer \in Answer /\ ~answer.signed
<1>1. answer = [signed |-> answer.signed, issuedAt |-> answer.issuedAt,
                nextUpdate |-> answer.nextUpdate, known |-> answer.known]
  BY DEF UnsignedAnswers
<1>2. answer.issuedAt \in Nat /\ answer.nextUpdate \in Nat
  BY RevocationAssumption DEF UnsignedAnswers
<1>3. answer.signed \in {FALSE} /\ answer.known \in {TRUE}
  BY DEF UnsignedAnswers
<1>4. answer.signed \in BOOLEAN /\ answer.known \in BOOLEAN /\ ~answer.signed
  BY <1>3
<1> QED BY <1>1, <1>2, <1>4 DEF Answer

LEMMA OcspAnswersTell ==
  ASSUME now \in Nat, NEW answer \in OcspAnswers
  PROVE  answer \in Answer /\ (answer.signed => answer.issuedAt <= now)
<1>1. CASE answer \in UnsignedAnswers
  BY <1>1, UnsignedTellNothing
<1>2. CASE answer \in [signed : {TRUE}, issuedAt : 0 .. now, nextUpdate : {now, Horizon},
                      known : BOOLEAN]
  <2>1. answer = [signed |-> answer.signed, issuedAt |-> answer.issuedAt,
                  nextUpdate |-> answer.nextUpdate, known |-> answer.known]
    BY <1>2
  <2>3. answer.signed \in {TRUE}
    BY <1>2
  <2>4. answer.signed \in BOOLEAN
    BY <2>3
  <2>2. /\ answer.issuedAt \in Nat /\ answer.issuedAt <= now
        /\ answer.nextUpdate \in Nat /\ answer.known \in BOOLEAN
    BY <1>2, RevocationAssumption
  <2> QED BY <2>1, <2>2, <2>4 DEF Answer
<1> QED
  BY <1>1, <1>2 DEF OcspAnswers

LEMMA CrlAnswersTell ==
  ASSUME now \in Nat, NEW answer \in CrlAnswers
  PROVE  /\ answer \in Answer
         /\ answer.signed => /\ answer.issuedAt <= now
                             /\ answer.nextUpdate = answer.issuedAt + CrlLife
<1>1. CASE answer \in UnsignedAnswers
  BY <1>1, UnsignedTellNothing
<1>2. ASSUME NEW t \in 0 .. now,
             answer = [signed |-> TRUE, issuedAt |-> t, nextUpdate |-> t + CrlLife, known |-> TRUE]
      PROVE  /\ answer \in Answer
             /\ answer.issuedAt <= now /\ answer.nextUpdate = answer.issuedAt + CrlLife
  BY <1>2, RevocationAssumption DEF Answer
<1> QED
  BY <1>1, <1>2 DEF CrlAnswers

LEMMA TtlsAreNat ==
  ASSUME RevInv, NEW c \in Checks, NEW answer \in Answer
  PROVE  OcspTtl(c, answer) \in Nat /\ Later(Left(c, answer), MinTtl) \in Nat
<1>1. Left(c, answer) \in Nat
  BY DEF Left, Answer, RevInv, TypeOK, Check
<1> QED
  BY <1>1, RevocationAssumption DEF OcspTtl, Later, Earlier

LEMMA NextRev == RevInv /\ [Next]_vars => RevInv'
<1> SUFFICES ASSUME RevInv, [Next]_vars PROVE RevInv'
  OBVIOUS
<1>0. /\ checks \in [Checks -> Check] /\ now \in Nat /\ config.crls \in Nat
      /\ Ocsp \in Slots /\ \A k \in Slots : cache[k].answer \in Answer
  BY DEF RevInv, TypeOK, Config, Slots
<1>1. ASSUME NEW c \in Checks, Begin(c) PROVE RevInv'
  <2>0. /\ UNCHANGED <<now, revokedAt, config, cache>>
        /\ checks[c].verdict = "none" /\ checks[c].source = "none"
        /\ checks[c].crl = 1 /\ checks[c].tried = {}
    BY <1>1 DEF Begin, RevInv, Sound, Progress
  <2>1. ASSUME NEW pc \in {"ended", "ocspLookup", "crlLookup"}, NEW verdict \in Verdicts,
               Start(c, pc, verdict)
        PROVE  /\ checks' \in [Checks -> Check]
               /\ \A d \in Checks \ {c} : checks'[d] = checks[d]
               /\ checks'[c].pc = pc /\ checks'[c].at = now /\ checks'[c].verdict = verdict
               /\ checks'[c].crl = 1 /\ checks'[c].tried = {} /\ checks'[c].source = "none"
    BY <1>0, <2>0, <2>1 DEF Start, Check, Verdicts
  <2>2. /\ checks' \in [Checks -> Check]
        /\ \A d \in Checks \ {c} : checks'[d] = checks[d]
        /\ Sound(checks[c])'
    <3>1. CASE config.policy = "skip" /\ Start(c, "ended", "good")
      <4>1. "good" \in Verdicts
        BY DEF Verdicts
      <4> QED BY <1>0, <2>0, <2>1, <3>1, <4>1 DEF Sound, Progress, Current, FailsClosed, TriedAll
    <3>2. CASE /\ config.policy # "skip" /\ Sources = {}
               /\ Start(c, "ended", IF config.policy = "require" THEN "threw" ELSE "unknown")
      <4> DEFINE verdict == IF config.policy = "require" THEN "threw" ELSE "unknown"
      <4>1. verdict \in Verdicts
        BY DEF Verdicts
      <4>2. /\ checks' \in [Checks -> Check]
            /\ \A d \in Checks \ {c} : checks'[d] = checks[d]
            /\ checks'[c].pc = "ended" /\ checks'[c].at = now /\ checks'[c].verdict = verdict
            /\ checks'[c].tried = {}
        BY <2>1, <3>2, <4>1
      <4>3. Sources' = {}
        BY <2>0, <3>2 DEF Sources
      <4> QED BY <1>0, <2>0, <3>2, <4>2, <4>3 DEF Sound, Progress, Current, FailsClosed, TriedAll
    <3>3. CASE /\ config.policy # "skip" /\ Sources # {}
               /\ Start(c, IF config.ocsp THEN "ocspLookup" ELSE "crlLookup", "none")
      <4> DEFINE pc == IF config.ocsp THEN "ocspLookup" ELSE "crlLookup"
      <4>1. pc \in {"ocspLookup", "crlLookup"} /\ "none" \in Verdicts
        BY DEF Verdicts
      <4>2. /\ checks' \in [Checks -> Check]
            /\ \A d \in Checks \ {c} : checks'[d] = checks[d]
            /\ checks'[c].pc = pc /\ checks'[c].at = now /\ checks'[c].verdict = "none"
            /\ checks'[c].crl = 1 /\ checks'[c].tried = {} /\ checks'[c].source = "none"
        BY <2>1, <3>3, <4>1
      <4>3. ~config.ocsp => TriedBefore(1) = {}
        BY DEF TriedBefore
      <4>4. TriedBefore(1)' = TriedBefore(1)
        BY <2>0 DEF TriedBefore
      <4>5. Progress(checks[c])'
        BY <1>0, <2>0, <4>2, <4>3, <4>4 DEF Progress
      <4> QED BY <1>0, <2>0, <4>2, <4>5 DEF Sound, Current, FailsClosed, TriedAll
    <3> QED BY <1>1, <3>1, <3>2, <3>3 DEF Begin
  <2> QED BY <2>0, <2>2, CacheKept, OneCheckMoves
<1>2. ASSUME NEW c \in Checks, OcspLookup(c) PROVE RevInv'
  <2>0. UNCHANGED <<now, revokedAt, config, cache>> /\ checks[c].pc = "ocspLookup"
    BY <1>2 DEF OcspLookup
  <2>1. CASE Hit(Ocsp)
    <3>1. JudgeOcsp(c, cache[Ocsp].answer)
      BY <1>2, <2>1 DEF OcspLookup
    <3>2. cache[Ocsp].answer.signed => cache[Ocsp].answer.issuedAt <= now
      BY <1>0 DEF RevInv, CacheInv
    <3> QED BY <1>0, <2>0, <3>1, <3>2, OcspDecides, CacheKept, OneCheckMoves
  <2>2. CASE ~Hit(Ocsp)
    <3>1. /\ checks' \in [Checks -> Check]
          /\ \A d \in Checks \ {c} : checks'[d] = checks[d]
          /\ checks'[c] = [checks[c] EXCEPT !.pc = "ocspFetch"]
      BY <1>0, <1>2, <2>2 DEF OcspLookup, Check
    <3>2. checks[c] \in Check /\ Sound(checks[c])
      BY <1>0 DEF RevInv
    <3>3. Sound(checks[c])'
      BY <2>0, <3>1, <3>2 DEF Check, Sound, Progress, Current, FailsClosed, TriedAll
    <3> QED BY <2>0, <3>1, <3>3, CacheKept, OneCheckMoves
  <2> QED BY <2>1, <2>2
<1>3. ASSUME NEW c \in Checks, NEW answer \in OcspAnswers, OcspArrives(c, answer) PROVE RevInv'
  <2>0. /\ UNCHANGED <<now, revokedAt, config>> /\ checks[c].pc = "ocspFetch"
        /\ JudgeOcsp(c, answer)
        /\ answer \in Answer /\ (answer.signed => answer.issuedAt <= now)
        /\ Ocsp \notin Crls
    BY <1>0, <1>3, OcspAnswersTell DEF OcspArrives, Ocsp, Crls
  <2>1. /\ cache' \in [Slots -> [held : BOOLEAN, answer : Answer, expiresAt : Nat]]
        /\ CacheInv'
    <3>1. CASE Store(Ocsp, answer, OcspTtl(c, answer))
      BY <1>0, <2>0, <3>1, TtlsAreNat, CacheStored
    <3> QED BY <1>3, <2>0, <3>1, CacheKept DEF OcspArrives
  <2> QED BY <2>0, <2>1, OcspDecides, OneCheckMoves
<1>4. ASSUME NEW c \in Checks, OcspFails(c) PROVE RevInv'
  BY <1>4, AsksCrl, CacheKept, OneCheckMoves DEF OcspFails
<1>5. ASSUME NEW c \in Checks, CrlLookup(c) PROVE RevInv'
  <2>0. /\ UNCHANGED <<now, revokedAt, config, cache>> /\ checks[c].pc = "crlLookup"
        /\ checks[c] \in Check /\ Sound(checks[c])
    BY <1>0, <1>5 DEF CrlLookup, RevInv
  <2>1. CASE checks[c].crl > config.crls
    <3> DEFINE verdict == IF config.policy = "require" THEN "threw" ELSE "unknown"
    <3>1. /\ checks' \in [Checks -> Check]
          /\ \A d \in Checks \ {c} : checks'[d] = checks[d]
          /\ checks'[c] = [checks[c] EXCEPT !.pc = "ended", !.verdict = verdict, !.source = "none"]
      <4>1. End(c, verdict, "none")
        BY <1>5, <2>1 DEF CrlLookup, AllFailed
      <4>2. checks' = [checks EXCEPT ![c] =
                         [checks[c] EXCEPT !.pc = "ended", !.verdict = verdict, !.source = "none"]]
        BY <1>0, <4>1 DEF End
      <4>3. [checks[c] EXCEPT !.pc = "ended", !.verdict = verdict, !.source = "none"] \in Check
        BY <2>0 DEF Check
      <4> QED BY <1>0, <4>2, <4>3
    <3>2. checks[c].crl = config.crls + 1 /\ checks[c].tried = TriedBefore(checks[c].crl)
      BY <1>0, <2>0, <2>1 DEF Sound, Progress, Check
    <3>3. checks[c].tried = Sources /\ Sources' = Sources
      BY <1>0, <2>0, <3>2 DEF TriedBefore, Sources
    <3>4. /\ checks'[c].pc = "ended" /\ checks'[c].verdict = verdict /\ checks'[c].source = "none"
          /\ checks'[c].tried = Sources' /\ checks'[c].at = checks[c].at
      BY <2>0, <3>1, <3>3 DEF Check
    <3>5. Sound(checks[c])'
      BY <2>0, <3>4 DEF Sound, Progress, Current, FailsClosed, TriedAll
    <3> QED BY <2>0, <3>1, <3>5, CacheKept, OneCheckMoves
  <2>2. CASE ~(checks[c].crl > config.crls) /\ Hit(checks[c].crl)
    <3> DEFINE k == checks[c].crl
    <3>1. JudgeCrl(c, cache[k].answer)
      BY <1>5, <2>2 DEF CrlLookup
    <3>2. k \in Crls /\ k \in Slots /\ k <= config.crls
      BY <1>0, <2>0, <2>2, RevocationAssumption DEF Check, Crls, Slots, RevInv, TypeOK, Config
    <3>3. /\ cache[k].answer \in Answer
          /\ cache[k].answer.signed =>
               /\ cache[k].answer.issuedAt <= now
               /\ cache[k].answer.nextUpdate = cache[k].answer.issuedAt + CrlLife
      BY <1>0, <3>2 DEF RevInv, CacheInv
    <3> QED BY <2>0, <3>1, <3>2, <3>3, CrlDecides, CacheKept, OneCheckMoves
  <2>3. CASE ~(checks[c].crl > config.crls) /\ ~Hit(checks[c].crl)
    <3>1. /\ checks' \in [Checks -> Check]
          /\ \A d \in Checks \ {c} : checks'[d] = checks[d]
          /\ checks'[c] = [checks[c] EXCEPT !.pc = "crlFetch"]
      BY <1>0, <1>5, <2>3 DEF CrlLookup, Check
    <3>2. /\ checks'[c].pc = "crlFetch" /\ checks'[c].at = checks[c].at
          /\ checks'[c].verdict = "none" /\ checks'[c].source = "none"
          /\ checks'[c].tried = checks[c].tried /\ checks'[c].crl = checks[c].crl
          /\ checks[c].crl <= config.crls
      BY <1>0, <2>0, <2>3, <3>1 DEF Check, Sound, Progress
    <3>3. checks'[c].tried = TriedBefore(checks[c].crl)'
      BY <2>0, <3>2 DEF Sound, Progress, TriedBefore
    <3>4. Sound(checks[c])'
      BY <1>0, <2>0, <3>2, <3>3 DEF Check, Sound, Progress, Current, FailsClosed, TriedAll
    <3> QED BY <2>0, <3>1, <3>4, CacheKept, OneCheckMoves
  <2> QED BY <2>1, <2>2, <2>3
<1>6. ASSUME NEW c \in Checks, NEW answer \in CrlAnswers, CrlArrives(c, answer) PROVE RevInv'
  <2>0. /\ UNCHANGED <<now, revokedAt, config>> /\ checks[c].pc = "crlFetch"
        /\ JudgeCrl(c, answer)
        /\ answer \in Answer
        /\ answer.signed => /\ answer.issuedAt <= now
                            /\ answer.nextUpdate = answer.issuedAt + CrlLife
        /\ Store(checks[c].crl, answer, Later(Left(c, answer), MinTtl))
    BY <1>0, <1>6, CrlAnswersTell DEF CrlArrives
  <2>1. checks[c].crl <= config.crls /\ checks[c].crl \in Slots
    BY <1>0, <2>0, RevocationAssumption DEF RevInv, TypeOK, Config, Check, Sound, Progress, Slots, Crls
  <2>2. /\ cache' \in [Slots -> [held : BOOLEAN, answer : Answer, expiresAt : Nat]]
        /\ CacheInv'
    BY <2>0, <2>1, TtlsAreNat, CacheStored
  <2> QED BY <2>0, <2>1, <2>2, CrlDecides, OneCheckMoves
<1>7. ASSUME NEW c \in Checks, CrlFails(c) PROVE RevInv'
  <2>1. checks[c].pc = "crlFetch" /\ checks[c].crl <= config.crls
    BY <1>7 DEF CrlFails, RevInv, Sound, Progress
  <2> QED BY <1>7, <2>1, AsksNextCrl, CacheKept, OneCheckMoves DEF CrlFails
<1>8. ASSUME NEW k \in Slots, CacheForgets(k) PROVE RevInv'
  <2>1. UNCHANGED <<now, revokedAt, config, checks>> /\ cache' = [cache EXCEPT ![k] = Empty]
    BY <1>8 DEF CacheForgets
  <2>2. TypeOK'
    BY <2>1 DEF RevInv, TypeOK, Empty, Answer
  <2>3. CacheInv'
    BY <2>1 DEF RevInv, TypeOK, CacheInv, Empty
  <2>4. \A c \in Checks : Sound(checks[c])'
    BY <2>1 DEF RevInv, Sound, Progress, Current, FailsClosed, TriedAll, TriedBefore, Sources
  <2> QED BY <2>2, <2>3, <2>4 DEF RevInv
<1>9. CASE Tick
  <2>1. UNCHANGED <<revokedAt, config, cache, checks>> /\ now' = now + 1
    BY <1>9 DEF Tick
  <2>2. TypeOK'
    BY <1>0, <2>1 DEF RevInv, TypeOK
  <2>3. CacheInv'
    BY <1>0, <2>1 DEF RevInv, CacheInv, Answer
  <2>4. ASSUME NEW c \in Checks PROVE Sound(checks[c])'
    <3>1. /\ checks[c].at \in Nat /\ revokedAt \in Nat /\ Sound(checks[c])
      BY <1>0 DEF RevInv, TypeOK, Check
    <3>2. checks'[c] = checks[c] /\ revokedAt' = revokedAt
          /\ (\A i : TriedBefore(i)' = TriedBefore(i)) /\ Sources' = Sources
      BY <2>1 DEF TriedBefore, Sources
    <3>3. Progress(checks[c])' /\ FailsClosed(checks[c])' /\ TriedAll(checks[c])'
      BY <2>1, <3>1, <3>2 DEF Sound, Progress, FailsClosed, TriedAll
    <3>4. Current(checks[c])' /\ checks'[c].at <= now'
      BY <1>0, <2>1, <3>1, <3>2 DEF Sound, Current
    <3> QED BY <3>3, <3>4 DEF Sound
  <2> QED BY <2>2, <2>3, <2>4 DEF RevInv
<1>10. CASE UNCHANGED vars
  BY <1>10 DEF vars, RevInv, TypeOK, CacheInv, Sound, Progress, Current, FailsClosed, TriedAll,
               TriedBefore, Sources
<1> QED
  BY <1>1, <1>2, <1>3, <1>4, <1>5, <1>6, <1>7, <1>8, <1>9, <1>10
     DEF Next, CheckStep, OcspSettles, CrlSettles

LEMMA RevHolds == Spec => []RevInv
  BY InitRev, NextRev, PTL DEF Spec

(* A verdict is never older than its source allows, though answers are     *)
(* cached, dropped and shared by any number of concurrent checks.          *)
THEOREM VerdictsAreCurrentCorrect == Spec => []VerdictsAreCurrent
<1>1. RevInv => VerdictsAreCurrent
  BY DEF RevInv, Sound, Current, VerdictsAreCurrent
<1> QED BY <1>1, RevHolds, PTL

(* Under `require' no status is reported that no source gave.              *)
THEOREM RequireFailsClosedCorrect == Spec => []RequireFailsClosed
<1>1. RevInv => RequireFailsClosed
  BY DEF RevInv, Sound, FailsClosed, RequireFailsClosed
<1> QED BY <1>1, RevHolds, PTL

(* Under `prefer' a check gives up only after every source has failed.     *)
THEOREM PreferTriesEverythingCorrect == Spec => []PreferTriesEverything
<1>1. RevInv => PreferTriesEverything
  BY DEF RevInv, Sound, TriedAll, PreferTriesEverything
<1> QED BY <1>1, RevHolds, PTL
=============================================================================
