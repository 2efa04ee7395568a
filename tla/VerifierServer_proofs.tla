------------------------ MODULE VerifierServer_proofs ------------------------
(***************************************************************************)
(* Theorems about VerifierServer, for any number of sessions and posts,    *)
(* any TTL and any sweep period.                                           *)
(***************************************************************************)
EXTENDS VerifierServer, TLAPS

(* Every step but a stutter is one of these; the proofs below have one     *)
(* case for each.                                                          *)
LEMMA StepCases ==
  ASSUME Next
  PROVE  \/ \E s \in States, lenient \in BOOLEAN : OpenSession(s, lenient)
         \/ \E s \in States : AnswerRequest(s)
         \/ \E s \in States : FailRequest(s)
         \/ \E s \in States : PollStatus(s)
         \/ \E p \in Posts, s \in States, body \in Body :
              RefuseDeadState(p, s, body)
         \/ \E p \in Posts, s \in States, body \in Body :
              RefuseReplay(p, s, body)
         \/ \E p \in Posts, s \in States, body \in Body :
              RefuseEncrypted(p, s, body)
         \/ \E p \in Posts, s \in States, body \in Body :
              RefuseWithoutToken(p, s, body)
         \/ \E p \in Posts, s \in States, body \in Body :
              StartVerification(p, s, body)
         \/ \E p \in Posts : FinishVerification(p)
         \/ Sweep
         \/ Tick
         \/ Restart
  BY DEF Next, HandlePost

-----------------------------------------------------------------------------
(* What get and complete return is again a store and a ledger. *)
LEMMA StoreOperatorsType ==
  ASSUME TypeOK, NEW s \in States, NEW p \in Posts,
         NEW verdict \in {"done", "failed"}
  PROVE  /\ StoreAfterGet(s) \in [States -> Session]
         /\ StoreAfterComplete(s, verdict) \in [States -> Session]
         /\ LedgerAfterComplete(s, verdict, p) \in
              [States -> SUBSET [verdict : {"done", "failed"},
                                 post : Posts, at : Nat]]
  <1>1. Absent \in Session
    BY DEF Absent, Session
  <1>2. StoreAfterGet(s) \in [States -> Session]
    BY <1>1 DEF TypeOK, StoreAfterGet
  <1>3. StoreAfterComplete(s, verdict) \in [States -> Session]
    BY <1>1 DEF TypeOK, StoreAfterComplete, Session, Statuses
  <1>4. LedgerAfterComplete(s, verdict, p) \in
          [States -> SUBSET [verdict : {"done", "failed"},
                             post : Posts, at : Nat]]
    BY DEF TypeOK, LedgerAfterComplete
  <1> QED BY <1>2, <1>3, <1>4

LEMMA InitType == Init => TypeOK
  <1> SUFFICES ASSUME Init PROVE TypeOK
    OBVIOUS
  <1>1. now \in Nat /\ nextSweep \in Nat
    BY TimeAssumption DEF Init
  <1>2. store \in [States -> Session]
    BY DEF Init, Absent, Session
  <1>3. requests \in [States -> Request]
    BY DEF Init, Request
  <1>4. (CHOOSE s \in States : TRUE) \in States /\ (CHOOSE k \in Kinds : TRUE) \in Kinds
    BY SetsAssumption
  <1>5. posts \in [Posts -> Post]
    BY <1>4 DEF Init, Post, Body, Replies
  <1>6. polled \in [States -> Statuses \cup {"never", "expired"}]
    BY DEF Init
  <1>7. ledger \in [States -> SUBSET [verdict : {"done", "failed"},
                                      post : Posts, at : Nat]]
    BY DEF Init
  <1> QED BY <1>1, <1>2, <1>3, <1>5, <1>6, <1>7 DEF TypeOK

LEMMA NextType == TypeOK /\ [Next]_vars => TypeOK'
  <1> SUFFICES ASSUME TypeOK, [Next]_vars PROVE TypeOK'
    OBVIOUS
  <1>1. CASE \E s \in States, lenient \in BOOLEAN : OpenSession(s, lenient)
    BY <1>1, TimeAssumption
    DEF TypeOK, OpenSession, NewSession, Session, Statuses, Request
  <1>2. CASE \E s \in States : AnswerRequest(s)
    BY <1>2 DEF TypeOK, AnswerRequest, Request
  <1>3. CASE \E s \in States : FailRequest(s)
    BY <1>3 DEF TypeOK, FailRequest, Request
  <1>4. CASE \E s \in States : PollStatus(s)
    <2> PICK s \in States : PollStatus(s)
      BY <1>4
    <2>1. StoreAfterGet(s) \in [States -> Session]
      BY StoreOperatorsType DEF StoreAfterGet, TypeOK, Absent, Session
    <2>2. PollAnswer(s) \in Statuses \cup {"expired"}
      BY DEF TypeOK, PollAnswer, Usable, Held, Session
    <2> QED BY <2>1, <2>2 DEF TypeOK, PollStatus
  <1>5. CASE \E p \in Posts, s \in States, body \in Body :
               RefuseDeadState(p, s, body)
    BY <1>5, StoreOperatorsType
    DEF TypeOK, RefuseDeadState, Answered, Post, Replies
  <1>6. CASE \E p \in Posts, s \in States, body \in Body :
               RefuseReplay(p, s, body)
    BY <1>6 DEF TypeOK, RefuseReplay, Answered, Post, Replies
  <1>7. CASE \E p \in Posts, s \in States, body \in Body :
               RefuseEncrypted(p, s, body)
    BY <1>7, StoreOperatorsType
    DEF TypeOK, RefuseEncrypted, Answered, Post, Replies
  <1>8. CASE \E p \in Posts, s \in States, body \in Body :
               RefuseWithoutToken(p, s, body)
    BY <1>8 DEF TypeOK, RefuseWithoutToken, Answered, Post, Replies
  <1>9. CASE \E p \in Posts, s \in States, body \in Body :
               StartVerification(p, s, body)
    BY <1>9 DEF TypeOK, StartVerification, Post, Session, Replies
  <1>10. CASE \E p \in Posts : FinishVerification(p)
    <2> PICK p \in Posts : FinishVerification(p)
      BY <1>10
    <2>1. posts[p] \in Post /\ posts[p].to \in States
      BY DEF TypeOK, Post
    <2>2. /\ now' \in Nat /\ nextSweep' \in Nat
          /\ requests' \in [States -> Request]
          /\ polled' \in [States -> Statuses \cup {"never", "expired"}]
      BY DEF TypeOK, FinishVerification
    <2>3. posts' \in [Posts -> Post]
      BY <2>1 DEF TypeOK, FinishVerification, Post, Replies
    <2>4. /\ store' \in [States -> Session]
          /\ ledger' \in [States -> SUBSET [verdict : {"done", "failed"},
                                            post : Posts, at : Nat]]
      BY <2>1, StoreOperatorsType DEF TypeOK, FinishVerification
    <2> QED BY <2>2, <2>3, <2>4 DEF TypeOK
  <1>11. CASE Sweep
    BY <1>11, TimeAssumption DEF TypeOK, Sweep, Absent, Session
  <1>12. CASE Tick
    BY <1>12 DEF TypeOK, Tick
  <1>13. CASE Restart
    <2>1. now' \in Nat /\ nextSweep' \in Nat /\ UNCHANGED <<polled, ledger>>
      BY <1>13, TimeAssumption DEF TypeOK, Restart
    <2>2. store' \in [States -> Session]
      BY <1>13 DEF Restart, Absent, Session
    <2>3. requests' \in [States -> Request]
      BY <1>13 DEF TypeOK, Restart, Request
    <2>4. ASSUME NEW p \in Posts, posts[p] \in Post
          PROVE  [posts[p] EXCEPT !.pc = "lost"] \in Post
      BY <2>4 DEF Post
    <2>5. posts' \in [Posts -> Post]
      BY <1>13, <2>4 DEF TypeOK, Restart
    <2> QED BY <2>1, <2>2, <2>3, <2>5 DEF TypeOK
  <1>14. CASE UNCHANGED vars
    BY <1>14 DEF TypeOK, vars
  <1> QED
    BY <1>1, <1>2, <1>3, <1>4, <1>5, <1>6, <1>7, <1>8, <1>9, <1>10, <1>11,
       <1>12, <1>13, <1>14, StepCases

(* Type correctness of every variable of the server. *)
THEOREM TypeCorrect == Spec => []TypeOK
  BY InitType, NextType, PTL DEF Spec

-----------------------------------------------------------------------------
(* The one-shot invariant.  Apart from opening and settling, a step drops  *)
(* sessions, starts or ends handlers, and leaves the ledger alone: it is   *)
(* quiet.                                                                  *)

LEMMA InitOneShot == Init => OneShotInv
  BY DEF Init, OneShotInv, FreshStates, HeldAsOpened, HandlersAsOpened,
         EntriesAreAnswered, PendingIsUnsettled, SettledIsRecorded, OneVerdict,
         Opened, Held, Absent

LEMMA QuietStep ==
  ASSUME TypeOK, OneShotInv,
         ledger' = ledger,
         \A s \in States : store'[s] = store[s] \/ store'[s] = Absent,
         \A s \in States :
           /\ requests'[s].pc = "none" <=> requests[s].pc = "none"
           /\ requests'[s].lenient = requests[s].lenient
           /\ requests'[s].openedAt = requests[s].openedAt,
         \A p \in Posts : posts[p].pc = "answered" => posts'[p] = posts[p],
         \A p \in Posts : posts'[p].pc = "verifying" =>
           \/ /\ posts[p].pc = "verifying"
              /\ posts'[p].to = posts[p].to
              /\ posts'[p].lenient = posts[p].lenient
           \/ /\ posts'[p].to \in States
              /\ Held(posts'[p].to)
              /\ posts'[p].lenient = store[posts'[p].to].lenient
  PROVE  OneShotInv'
  <1> USE DEF OneShotInv
  <1>1. \A s \in States : store'[s].status \in {store[s].status, "absent"}
    BY DEF Absent
  <1>2. FreshStates'
    BY <1>1 DEF FreshStates, Opened, Held
  <1>3. HeldAsOpened'
    BY DEF HeldAsOpened, Held, Absent
  <1>4. HandlersAsOpened'
    <2> SUFFICES ASSUME NEW p \in Posts, posts'[p].pc = "verifying"
                 PROVE  /\ posts'[p].to \in Opened'
                        /\ posts'[p].lenient = requests'[posts'[p].to].lenient
      BY DEF HandlersAsOpened
    <2>1. CASE /\ posts[p].pc = "verifying"
               /\ posts'[p].to = posts[p].to
               /\ posts'[p].lenient = posts[p].lenient
      BY <2>1 DEF HandlersAsOpened, Opened
    <2>2. CASE /\ posts'[p].to \in States
               /\ Held(posts'[p].to)
               /\ posts'[p].lenient = store[posts'[p].to].lenient
      BY <2>2 DEF HeldAsOpened, FreshStates, Opened
    <2> QED BY <2>1, <2>2
  <1>5. EntriesAreAnswered'
    <2> SUFFICES ASSUME NEW s \in States, NEW e \in ledger[s]
                 PROVE  /\ posts'[e.post].pc = "answered"
                        /\ posts'[e.post].to = s
                        /\ posts'[e.post].reply = e.verdict
                        /\ e.at < requests'[s].openedAt + Ttl
                        /\ e.verdict = "done" =>
                             Verifies(posts'[e.post].body, s, requests'[s].lenient)
      BY DEF EntriesAreAnswered, Verifies
    <2>1. e.post \in Posts
      BY DEF TypeOK
    <2>2. posts'[e.post] = posts[e.post]
      BY <2>1 DEF EntriesAreAnswered
    <2> QED BY <2>2 DEF EntriesAreAnswered
  <1>6. PendingIsUnsettled'
    BY <1>1 DEF PendingIsUnsettled
  <1>7. SettledIsRecorded'
    BY <1>1 DEF SettledIsRecorded
  <1>8. OneVerdict'
    BY DEF OneVerdict
  <1> QED BY <1>2, <1>3, <1>4, <1>5, <1>6, <1>7, <1>8

(* complete() keeps the invariant, whether it accepts the verdict or not. *)
LEMMA SettleStep ==
  ASSUME TypeOK, OneShotInv,
         NEW s \in States, NEW p \in Posts, NEW verdict \in {"done", "failed"},
         store' = StoreAfterComplete(s, verdict),
         ledger' = LedgerAfterComplete(s, verdict, p),
         UNCHANGED <<now, requests>>,
         posts[p].pc # "answered",
         posts'[p].pc = "answered",
         posts'[p].to = s,
         posts'[p].reply = verdict,
         verdict = "done" => Verifies(posts'[p].body, s, requests[s].lenient),
         \A q \in Posts : q # p => posts'[q] = posts[q]
  PROVE  OneShotInv'
  <1> USE DEF OneShotInv
  <1>1. CASE ~Accepts(s)
    <2>1. ledger' = ledger
      BY <1>1 DEF LedgerAfterComplete
    <2>2. \A r \in States : store'[r] = store[r] \/ store'[r] = Absent
      BY <1>1 DEF StoreAfterComplete, TypeOK
    <2>3. \A q \in Posts : posts[q].pc = "answered" => posts'[q] = posts[q]
      OBVIOUS
    <2>4. \A q \in Posts : posts'[q].pc = "verifying" => posts'[q] = posts[q]
      OBVIOUS
    <2> QED BY <2>1, <2>2, <2>3, <2>4, QuietStep
  <1>2. CASE Accepts(s)
    <2> DEFINE entry == [verdict |-> verdict, post |-> p, at |-> now]
    <2>1. ledger' = [ledger EXCEPT ![s] = @ \cup {entry}]
      BY <1>2 DEF LedgerAfterComplete
    <2>2. store' = [store EXCEPT ![s].status = verdict]
      BY <1>2 DEF StoreAfterComplete
    <2>3. store[s].status = "pending" /\ ~(now >= store[s].expiresAt)
      BY <1>2 DEF Accepts, IsExpired
    <2>4. ledger[s] = {} /\ ledger'[s] = {entry}
      BY <2>1, <2>3 DEF PendingIsUnsettled, TypeOK
    <2>5. \A r \in States : r # s => ledger'[r] = ledger[r] /\ store'[r] = store[r]
      BY <2>1, <2>2 DEF TypeOK
    <2>6. /\ store'[s].status = verdict
          /\ store'[s].expiresAt = store[s].expiresAt
          /\ store'[s].lenient = store[s].lenient
      BY <2>2 DEF TypeOK, Session
    <2>7. s \in Opened
      BY <2>3 DEF FreshStates, Held
    <2>8. now < requests[s].openedAt + Ttl
      <3>1. store[s].expiresAt = requests[s].openedAt + Ttl
        BY <2>3 DEF HeldAsOpened, Held
      <3>2. now \in Nat /\ store[s].expiresAt \in Nat
        BY DEF TypeOK, Session
      <3> QED BY <2>3, <3>1, <3>2
    <2>9. FreshStates'
      BY <2>5, <2>7 DEF FreshStates, Opened, Held
    <2>10. HeldAsOpened'
      BY <2>3, <2>5, <2>6 DEF HeldAsOpened, Held
    <2>11. HandlersAsOpened'
      BY DEF HandlersAsOpened, Opened
    <2>12. EntriesAreAnswered'
      <3> SUFFICES ASSUME NEW r \in States, NEW e \in ledger'[r]
                   PROVE  /\ posts'[e.post].pc = "answered"
                          /\ posts'[e.post].to = r
                          /\ posts'[e.post].reply = e.verdict
                          /\ e.at < requests[r].openedAt + Ttl
                          /\ e.verdict = "done" =>
                               Verifies(posts'[e.post].body, r, requests[r].lenient)
        BY DEF EntriesAreAnswered, Verifies
      <3>1. CASE r = s
        BY <2>4, <2>8, <3>1
      <3>2. CASE r # s
        <4>1. e \in ledger[r] /\ e.post \in Posts
          BY <2>5, <3>2 DEF TypeOK
        <4>2. e.post # p
          BY <4>1 DEF EntriesAreAnswered
        <4>3. posts'[e.post] = posts[e.post]
          BY <4>1, <4>2
        <4> QED BY <4>1, <4>3 DEF EntriesAreAnswered
      <3> QED BY <3>1, <3>2
    <2>13. PendingIsUnsettled'
      BY <2>5, <2>6 DEF PendingIsUnsettled
    <2>14. SettledIsRecorded'
      <3>1. entry \in ledger'[s] /\ entry.verdict = store'[s].status
        BY <2>4, <2>6
      <3> QED BY <2>5, <3>1 DEF SettledIsRecorded
    <2>15. OneVerdict'
      BY <2>4, <2>5 DEF OneVerdict
    <2> QED BY <2>9, <2>10, <2>11, <2>12, <2>13, <2>14, <2>15
  <1> QED BY <1>1, <1>2

LEMMA OpenStep ==
  ASSUME TypeOK, OneShotInv,
         NEW s \in States, NEW lenient \in BOOLEAN, OpenSession(s, lenient)
  PROVE  OneShotInv'
  <1> USE DEF OneShotInv
  <1>1. /\ requests[s].pc = "none"
        /\ requests'[s] = [pc |-> "drawing", lenient |-> lenient, openedAt |-> now]
        /\ store'[s] = NewSession(lenient)
        /\ UNCHANGED <<now, posts, ledger>>
    BY DEF OpenSession, TypeOK
  <1>2. \A r \in States : r # s => requests'[r] = requests[r] /\ store'[r] = store[r]
    BY DEF OpenSession, TypeOK
  <1>3. ledger[s] = {}
    BY <1>1 DEF FreshStates, Opened
  <1>4. FreshStates'
    BY <1>1, <1>2 DEF FreshStates, Opened, Held
  <1>5. HeldAsOpened'
    BY <1>1, <1>2 DEF HeldAsOpened, Held, NewSession
  <1>6. HandlersAsOpened'
    BY <1>1, <1>2 DEF HandlersAsOpened, Opened
  <1>7. EntriesAreAnswered'
    BY <1>1, <1>2, <1>3 DEF EntriesAreAnswered, Verifies
  <1>8. PendingIsUnsettled'
    BY <1>1, <1>2, <1>3 DEF PendingIsUnsettled
  <1>9. SettledIsRecorded'
    BY <1>1, <1>2 DEF SettledIsRecorded, NewSession
  <1>10. OneVerdict'
    BY <1>1 DEF OneVerdict
  <1> QED BY <1>4, <1>5, <1>6, <1>7, <1>8, <1>9, <1>10

LEMMA FinishStep ==
  ASSUME TypeOK, OneShotInv, NEW p \in Posts, FinishVerification(p)
  PROVE  OneShotInv'
  <1> DEFINE s == posts[p].to
             outcome == Outcome(posts[p].body, s, posts[p].lenient)
  <1>1. /\ posts[p].pc = "verifying"
        /\ s \in States
        /\ posts[p].lenient = requests[s].lenient
        /\ UNCHANGED <<now, requests>>
    BY DEF FinishVerification, OneShotInv, HandlersAsOpened, TypeOK, Post
  <1>2. \A q \in Posts : q # p => posts'[q] = posts[q]
    BY DEF FinishVerification, TypeOK
  <1>3. posts'[p].pc = "answered" /\ posts'[p].to = s /\ posts'[p].body = posts[p].body
    BY DEF FinishVerification, TypeOK, Post
  <1>4. ASSUME NEW verdict \in {"done", "failed"},
               store' = StoreAfterComplete(s, verdict),
               ledger' = LedgerAfterComplete(s, verdict, p),
               posts'[p].reply = verdict,
               verdict = "done" => outcome = "result"
        PROVE  OneShotInv'
    <2>1. verdict = "done" => Verifies(posts'[p].body, s, requests[s].lenient)
      BY <1>1, <1>3, <1>4 DEF Outcome
    <2> QED BY <1>1, <1>2, <1>3, <1>4, <2>1, SettleStep
  <1>5. CASE UNCHANGED <<store, ledger>>
    BY <1>1, <1>2, <1>3, <1>5, QuietStep
  <1>6. \/ UNCHANGED <<store, ledger>>
        \/ \E verdict \in {"done", "failed"} :
             /\ store' = StoreAfterComplete(s, verdict)
             /\ ledger' = LedgerAfterComplete(s, verdict, p)
             /\ posts'[p].reply = verdict
             /\ verdict = "done" => outcome = "result"
    BY DEF FinishVerification, TypeOK, Post
  <1> QED BY <1>4, <1>5, <1>6

LEMMA RefusalStep ==
  ASSUME TypeOK, OneShotInv,
         NEW p \in Posts, NEW s \in States, NEW body \in Body, NEW reply \in Replies,
         Arrives(p, body),
         Answered(p, s, body, reply),
         UNCHANGED <<requests, ledger>>,
         \A r \in States : store'[r] = store[r] \/ store'[r] = Absent
  PROVE  OneShotInv'
  <1>1. posts[p].pc = "idle" /\ posts'[p].pc = "answered"
    BY DEF Arrives, Answered, TypeOK
  <1>2. \A q \in Posts : q # p => posts'[q] = posts[q]
    BY DEF Answered, TypeOK
  <1> QED BY <1>1, <1>2, QuietStep

LEMMA NextOneShot == TypeOK /\ OneShotInv /\ [Next]_vars => OneShotInv'
  <1> SUFFICES ASSUME TypeOK, OneShotInv, [Next]_vars PROVE OneShotInv'
    OBVIOUS
  <1>1. CASE \E s \in States, lenient \in BOOLEAN : OpenSession(s, lenient)
    BY <1>1, OpenStep
  <1>2. CASE \E s \in States : AnswerRequest(s)
    BY <1>2, QuietStep DEF AnswerRequest, TypeOK, Request
  <1>3. CASE \E s \in States : FailRequest(s)
    BY <1>3, QuietStep DEF FailRequest, TypeOK, Request
  <1>4. CASE \E s \in States : PollStatus(s)
    <2> PICK s \in States : PollStatus(s)
      BY <1>4
    <2>1. UNCHANGED <<requests, posts, ledger>> /\ store' = StoreAfterGet(s)
      BY DEF PollStatus
    <2>2. \A r \in States : store'[r] = store[r] \/ store'[r] = Absent
      BY <2>1 DEF StoreAfterGet, TypeOK
    <2> QED BY <2>1, <2>2, QuietStep
  <1>5. CASE \E p \in Posts, s \in States, body \in Body :
               RefuseDeadState(p, s, body)
    <2> PICK p \in Posts, s \in States, body \in Body : RefuseDeadState(p, s, body)
      BY <1>5
    <2>1. UNCHANGED <<requests, ledger>> /\ store' = StoreAfterGet(s)
      BY DEF RefuseDeadState
    <2>2. \A r \in States : store'[r] = store[r] \/ store'[r] = Absent
      BY <2>1 DEF StoreAfterGet, TypeOK
    <2> QED BY <2>1, <2>2, RefusalStep DEF RefuseDeadState, Replies
  <1>6. CASE \E p \in Posts, s \in States, body \in Body :
               RefuseReplay(p, s, body)
    BY <1>6, RefusalStep DEF RefuseReplay, Replies
  <1>7. CASE \E p \in Posts, s \in States, body \in Body :
               RefuseEncrypted(p, s, body)
    <2> PICK p \in Posts, s \in States, body \in Body : RefuseEncrypted(p, s, body)
      BY <1>7
    <2>1. /\ store' = StoreAfterComplete(s, "failed")
          /\ ledger' = LedgerAfterComplete(s, "failed", p)
          /\ UNCHANGED <<now, requests>>
          /\ posts[p].pc # "answered"
          /\ posts'[p].pc = "answered"
          /\ posts'[p].to = s
          /\ posts'[p].reply = "failed"
          /\ \A q \in Posts : q # p => posts'[q] = posts[q]
      BY DEF RefuseEncrypted, Arrives, Answered, TypeOK
    <2> QED BY <2>1, SettleStep
  <1>8. CASE \E p \in Posts, s \in States, body \in Body :
               RefuseWithoutToken(p, s, body)
    BY <1>8, RefusalStep DEF RefuseWithoutToken, Replies
  <1>9. CASE \E p \in Posts, s \in States, body \in Body :
               StartVerification(p, s, body)
    <2> PICK p \in Posts, s \in States, body \in Body : StartVerification(p, s, body)
      BY <1>9
    <2>1. /\ posts[p].pc = "idle"
          /\ posts'[p].to = s /\ Held(s) /\ posts'[p].lenient = store[s].lenient
          /\ \A q \in Posts : q # p => posts'[q] = posts[q]
          /\ UNCHANGED <<store, requests, ledger>>
      BY DEF StartVerification, Arrives, Usable, TypeOK
    <2> QED BY <2>1, QuietStep
  <1>10. CASE \E p \in Posts : FinishVerification(p)
    BY <1>10, FinishStep
  <1>11. CASE Sweep
    BY <1>11, QuietStep DEF Sweep, TypeOK
  <1>12. CASE Tick
    BY <1>12, QuietStep DEF Tick
  <1>13. CASE Restart
    BY <1>13, QuietStep DEF Restart, TypeOK, Request, Post
  <1>14. CASE UNCHANGED vars
    BY <1>14, QuietStep DEF vars
  <1> QED
    BY <1>1, <1>2, <1>3, <1>4, <1>5, <1>6, <1>7, <1>8, <1>9, <1>10, <1>11,
       <1>12, <1>13, <1>14, StepCases

(* How the store, the handlers in flight and the verdicts on record hang   *)
(* together, at every await of every handler.                              *)
THEOREM OneShotCorrect == Spec => []OneShotInv
  BY InitType, NextType, InitOneShot, NextOneShot, PTL DEF Spec

(* No session ever gets a second verdict, whatever posts race. *)
THEOREM OneVerdictCorrect == Spec => []OneVerdict
  <1>1. OneShotInv => OneVerdict
    BY DEF OneShotInv
  <1> QED BY <1>1, OneShotCorrect, PTL

(* A done session was earned by a presentation made for it, in time. *)
THEOREM DoneIsEarnedCorrect == Spec => []DoneIsEarned
  <1>1. OneShotInv => DoneIsEarned
    BY DEF OneShotInv, EntriesAreAnswered, DoneIsEarned
  <1> QED BY <1>1, OneShotCorrect, PTL

(* While a session is held, its status is its one verdict on record. *)
THEOREM StoreMatchesLedgerCorrect == Spec => []StoreMatchesLedger
  <1>1. TypeOK /\ OneShotInv => StoreMatchesLedger
    <2> SUFFICES ASSUME TypeOK, OneShotInv, NEW s \in States, Held(s)
                 PROVE  {e.verdict : e \in ledger[s]} = {store[s].status} \ {"pending"}
      BY DEF StoreMatchesLedger
    <2>1. store[s].status \in {"pending", "done", "failed"}
      BY DEF TypeOK, Session, Statuses, Held
    <2>2. CASE store[s].status = "pending"
      BY <2>2 DEF OneShotInv, PendingIsUnsettled
    <2>3. CASE store[s].status \in {"done", "failed"}
      <3>1. PICK e \in ledger[s] : e.verdict = store[s].status
        BY <2>3 DEF OneShotInv, SettledIsRecorded
      <3>2. \A d \in ledger[s] : d = e
        BY DEF OneShotInv, OneVerdict
      <3> QED BY <2>3, <3>1, <3>2
    <2> QED BY <2>1, <2>2, <2>3
  <1> QED BY <1>1, TypeCorrect, OneShotCorrect, PTL

-----------------------------------------------------------------------------
(* The sweeper *)

LEMMA NextSweepInv == TypeOK /\ SweepInv /\ [Next]_vars => SweepInv'
  <1> SUFFICES ASSUME TypeOK, SweepInv, [Next]_vars PROVE SweepInv'
    OBVIOUS
  <1> USE TimeAssumption
  <1>1. ASSUME UNCHANGED <<now, nextSweep>>,
               \A s \in States : \/ store'[s].status = "absent"
                                 \/ /\ Held(s)
                                    /\ store'[s].expiresAt = store[s].expiresAt
        PROVE  SweepInv'
    BY <1>1 DEF SweepInv, Held
  <1>2. \A s \in States : /\ store[s].expiresAt \in Nat
                          /\ store[s].status = "absent" \/ Held(s)
    BY DEF TypeOK, Session, Held
  <1>3. CASE \E s \in States, lenient \in BOOLEAN : OpenSession(s, lenient)
    <2> PICK s \in States, lenient \in BOOLEAN : OpenSession(s, lenient)
      BY <1>3
    <2>1. /\ UNCHANGED <<now, nextSweep>>
          /\ store'[s].expiresAt = now + Ttl
          /\ \A r \in States : r # s => store'[r] = store[r]
      BY DEF OpenSession, NewSession, TypeOK
    <2>2. nextSweep < store'[s].expiresAt + SweepPeriod
      <3>1. now \in Nat /\ nextSweep \in Nat /\ nextSweep <= now + SweepPeriod
        BY DEF SweepInv, TypeOK
      <3> QED BY <2>1, <3>1
    <2> QED BY <2>1, <2>2 DEF SweepInv, Held
  <1>4. CASE UNCHANGED <<now, nextSweep, store>>
    BY <1>1, <1>2, <1>4
  <1>5. ASSUME NEW s \in States, UNCHANGED <<now, nextSweep>>, store' = StoreAfterGet(s)
        PROVE  SweepInv'
    BY <1>1, <1>2, <1>5 DEF StoreAfterGet, Absent, TypeOK
  <1>6. ASSUME NEW s \in States, NEW verdict \in {"done", "failed"},
               UNCHANGED <<now, nextSweep>>, store' = StoreAfterComplete(s, verdict)
        PROVE  SweepInv'
    <2>1. \A r \in States : \/ store'[r] = store[r]
                            \/ store'[r] = Absent
                            \/ /\ store[r].status = "pending"
                               /\ store'[r].expiresAt = store[r].expiresAt
      BY <1>6 DEF StoreAfterComplete, Accepts, TypeOK, Session
    <2> QED BY <1>1, <1>2, <1>6, <2>1 DEF Absent, Held
  <1>7. CASE Sweep
    <2>1. /\ now' = now
          /\ nextSweep' = now + SweepPeriod
          /\ \A s \in States : store'[s] = IF Held(s) /\ IsExpired(s)
                                           THEN Absent ELSE store[s]
      BY <1>7 DEF Sweep
    <2>2. \A s \in States : Held(s)' => now < store'[s].expiresAt
      BY <1>2, <2>1 DEF Held, IsExpired, Absent, TypeOK
    <2>3. \A s \in States : store'[s].expiresAt \in Nat
      BY <1>2, <2>1 DEF Absent
    <2> QED BY <2>1, <2>2, <2>3 DEF SweepInv, TypeOK
  <1>8. CASE Tick
    <2>1. now' = now + 1 /\ now < nextSweep /\ UNCHANGED <<nextSweep, store>>
      BY <1>8 DEF Tick
    <2> QED BY <2>1 DEF SweepInv, TypeOK, Held
  <1>9. CASE Restart
    BY <1>9 DEF Restart, SweepInv, TypeOK, Held, Absent
  <1>10. \/ \E s \in States, lenient \in BOOLEAN : OpenSession(s, lenient)
         \/ UNCHANGED <<now, nextSweep, store>>
         \/ \E s \in States : UNCHANGED <<now, nextSweep>> /\ store' = StoreAfterGet(s)
         \/ \E s \in States, verdict \in {"done", "failed"} :
              UNCHANGED <<now, nextSweep>> /\ store' = StoreAfterComplete(s, verdict)
         \/ Sweep \/ Tick \/ Restart
    <2>1. \A p \in Posts : posts[p].to \in States
      BY DEF TypeOK, Post
    <2> QED
      BY <2>1, StepCases
      DEF AnswerRequest, FailRequest, PollStatus, RefuseDeadState, RefuseReplay,
          RefuseEncrypted, RefuseWithoutToken, StartVerification,
          FinishVerification, vars
  <1> QED BY <1>3, <1>4, <1>5, <1>6, <1>7, <1>8, <1>9, <1>10

(* An abandoned session is gone one sweep period after its expiry. *)
THEOREM RetentionCorrect == Spec => []RetentionBound
  <1>1. Init => SweepInv
    BY TimeAssumption DEF Init, SweepInv, Held, Absent
  <1>2. TypeOK /\ SweepInv => RetentionBound
    BY TimeAssumption DEF TypeOK, SweepInv, RetentionBound, Session
  <1> QED BY <1>1, <1>2, InitType, NextType, NextSweepInv, PTL DEF Spec

-----------------------------------------------------------------------------
(* What posts and polls were told.  The ledger only grows, a session that  *)
(* was drawn never becomes usable again, and only settling changes the     *)
(* status of one that stays usable.                                        *)
Lasting(s) ==
  /\ s \in Opened'
  /\ Usable(s)' => /\ Usable(s)
                   /\ store[s].status # "pending" => store'[s].status = store[s].status

LEMMA LastingStep ==
  ASSUME TypeOK, [Next]_vars
  PROVE  /\ \A s \in States : ledger[s] \subseteq ledger'[s]
         /\ \A s \in Opened : Lasting(s)
  <1>1. /\ now \in Nat
        /\ \A s \in States : store[s] \in Session /\ store[s].expiresAt \in Nat
    BY DEF TypeOK, Session
  <1>2. ASSUME now' \in Nat, now <= now', Opened \subseteq Opened', ledger' = ledger,
               \A s \in Opened : store'[s] = store[s] \/ store'[s] = Absent
        PROVE  /\ \A s \in States : ledger[s] \subseteq ledger'[s]
               /\ \A s \in Opened : Lasting(s)
    <2> SUFFICES ASSUME NEW s \in Opened PROVE Lasting(s)
      BY <1>2
    <2>1. CASE store'[s] = Absent
      BY <1>2, <2>1 DEF Lasting, Usable, Held, Absent
    <2>2. CASE store'[s] = store[s]
      BY <1>1, <1>2, <2>2 DEF Lasting, Usable, Held, IsExpired, Opened
    <2> QED BY <1>2, <2>1, <2>2
  <1>3. ASSUME NEW r \in States, NEW p \in Posts, NEW verdict \in {"done", "failed"},
               UNCHANGED <<now, requests>>,
               store' = StoreAfterComplete(r, verdict),
               ledger' = LedgerAfterComplete(r, verdict, p)
        PROVE  /\ \A s \in States : ledger[s] \subseteq ledger'[s]
               /\ \A s \in Opened : Lasting(s)
    <2>1. \A s \in States : ledger[s] \subseteq ledger'[s]
      BY <1>3 DEF LedgerAfterComplete, TypeOK
    <2>2. ASSUME NEW s \in Opened PROVE Lasting(s)
      <3>1. s \in States /\ s \in Opened'
        BY <1>3 DEF Opened
      <3>2. \/ store'[s] = store[s]
            \/ store'[s] = Absent
            \/ /\ store[s].status = "pending"
               /\ store'[s].expiresAt = store[s].expiresAt
        BY <1>1, <1>3, <3>1 DEF StoreAfterComplete, Accepts, TypeOK, Session
      <3> QED BY <1>3, <3>1, <3>2 DEF Lasting, Usable, Held, IsExpired, Absent
    <2> QED BY <2>1, <2>2
  <1>4. CASE \E s \in States, lenient \in BOOLEAN : OpenSession(s, lenient)
    BY <1>1, <1>2, <1>4 DEF OpenSession, Opened, TypeOK
  <1>5. CASE \E s \in States : AnswerRequest(s)
    BY <1>1, <1>2, <1>5 DEF AnswerRequest, Opened, TypeOK, Request
  <1>6. CASE \E s \in States : FailRequest(s)
    BY <1>1, <1>2, <1>6 DEF FailRequest, Opened, TypeOK, Request
  <1>7. ASSUME NEW s \in States, store' = StoreAfterGet(s), UNCHANGED <<now, requests, ledger>>
        PROVE  /\ \A r \in States : ledger[r] \subseteq ledger'[r]
               /\ \A r \in Opened : Lasting(r)
    BY <1>1, <1>2, <1>7 DEF StoreAfterGet, TypeOK, Opened
  <1>8. CASE UNCHANGED <<now, requests, ledger, store>>
    BY <1>1, <1>2, <1>8 DEF Opened
  <1>9. CASE \E p \in Posts : FinishVerification(p)
    <2> PICK p \in Posts : FinishVerification(p)
      BY <1>9
    <2>1. posts[p].to \in States
      BY DEF TypeOK, Post
    <2> QED BY <1>3, <1>8, <2>1 DEF FinishVerification
  <1>10. CASE Sweep
    BY <1>1, <1>2, <1>10 DEF Sweep, Opened
  <1>11. CASE Tick
    BY <1>1, <1>2, <1>11 DEF Tick, Opened
  <1>12. CASE Restart
    BY <1>1, <1>2, <1>12 DEF Restart, Opened, TypeOK, Request
  <1> QED
    BY <1>3, <1>4, <1>5, <1>6, <1>7, <1>8, <1>9, <1>10, <1>11, <1>12, StepCases
    DEF PollStatus, RefuseDeadState, RefuseReplay, RefuseEncrypted,
        RefuseWithoutToken, StartVerification, vars

(* Only a refusal tells a post that a response was processed already.      *)
LEMMA NextReplayRefusal ==
  TypeOK /\ OneShotInv /\ ReplayRefusalIsTrue /\ [Next]_vars => ReplayRefusalIsTrue'
  <1> SUFFICES ASSUME TypeOK, OneShotInv, ReplayRefusalIsTrue, [Next]_vars,
                      NEW p \in Posts, posts'[p].reply = "response_already_processed"
               PROVE  ledger'[posts'[p].to] # {}
    BY DEF ReplayRefusalIsTrue
  <1>1. \A s \in States : ledger[s] \subseteq ledger'[s]
    BY LastingStep
  <1>2. posts[p] \in Post /\ posts[p].to \in States
    BY DEF TypeOK, Post
  <1> DEFINE Kept == posts'[p].reply = posts[p].reply /\ posts'[p].to = posts[p].to
  <1>3. CASE Kept
    BY <1>1, <1>2, <1>3 DEF ReplayRefusalIsTrue
  <1>4. CASE \E s \in States, body \in Body : RefuseReplay(p, s, body)
    <2> PICK s \in States, body \in Body : RefuseReplay(p, s, body)
      BY <1>4
    <2>1. posts'[p].to = s /\ ledger' = ledger
      BY DEF RefuseReplay, Answered, TypeOK
    <2>2. store[s].status \in {"done", "failed"}
      BY DEF RefuseReplay, Usable, Held, TypeOK, Session, Statuses
    <2> QED BY <2>1, <2>2 DEF OneShotInv, SettledIsRecorded
  <1>5. ASSUME NEW q \in Posts, NEW s \in States, NEW body \in Body,
               NEW reply \in {"invalid_state", "failed", "invalid_response"},
               Answered(q, s, body, reply)
        PROVE  Kept
    BY <1>2, <1>5 DEF Answered, TypeOK
  <1>6. CASE \E q \in Posts, s \in States, body \in Body : RefuseReplay(q, s, body)
    BY <1>3, <1>4, <1>6 DEF RefuseReplay, Answered, TypeOK
  <1>7. CASE \E q \in Posts, s \in States, body \in Body : StartVerification(q, s, body)
    BY <1>2, <1>3, <1>7 DEF StartVerification, TypeOK
  <1>8. CASE \E q \in Posts : FinishVerification(q)
    BY <1>2, <1>3, <1>8 DEF FinishVerification, TypeOK, Post
  <1>9. CASE Restart
    BY <1>2, <1>3, <1>9 DEF Restart, TypeOK, Post
  <1>10. CASE posts' = posts
    BY <1>3, <1>10
  <1> QED
    BY <1>3, <1>5, <1>6, <1>7, <1>8, <1>9, <1>10, StepCases
    DEF OpenSession, AnswerRequest, FailRequest, PollStatus, RefuseDeadState,
        RefuseEncrypted, RefuseWithoutToken, Sweep, Tick, vars

(* A post is refused as a replay only when a verdict is on record.         *)
THEOREM ReplayRefusalCorrect == Spec => []ReplayRefusalIsTrue
  <1>1. Init => ReplayRefusalIsTrue
    BY DEF Init, ReplayRefusalIsTrue
  <1> QED
    BY <1>1, InitType, NextType, OneShotCorrect, NextReplayRefusal, PTL DEF Spec

(* What a final answer of the status route said still holds, or the        *)
(* session is no longer usable.                                            *)
PolledInv ==
  \A s \in States :
    /\ polled[s] # "never" => s \in Opened
    /\ polled[s] \in {"done", "failed", "expired"} /\ Usable(s) => store[s].status = polled[s]

LEMMA PollStep ==
  ASSUME TypeOK, [Next]_vars, NEW s \in States
  PROVE  polled'[s] = polled[s] \/ PollStatus(s)
  BY StepCases
  DEF OpenSession, AnswerRequest, FailRequest, PollStatus, RefuseDeadState, RefuseReplay,
      RefuseEncrypted, RefuseWithoutToken, StartVerification, FinishVerification,
      Sweep, Tick, Restart, vars, TypeOK

LEMMA PollTells ==
  ASSUME TypeOK, NEW s \in States, PollStatus(s)
  PROVE  /\ polled'[s] = PollAnswer(s)
         /\ s \in Opened'
         /\ polled'[s] # "never"
         /\ Usable(s)' => Usable(s) /\ polled'[s] = store'[s].status
  BY DEF PollStatus, PollAnswer, StoreAfterGet, Usable, Held, IsExpired, Absent, TypeOK,
         Session, Statuses, Opened

LEMMA NextPolledInv == TypeOK /\ PolledInv /\ [Next]_vars => PolledInv'
  <1> SUFFICES ASSUME TypeOK, PolledInv, [Next]_vars, NEW s \in States
               PROVE  /\ polled'[s] # "never" => s \in Opened'
                      /\ polled'[s] \in {"done", "failed", "expired"} /\ Usable(s)'
                           => store'[s].status = polled'[s]
    BY DEF PolledInv
  <1>1. CASE PollStatus(s)
    BY <1>1, PollTells
  <1>2. CASE polled'[s] = polled[s] /\ s \in Opened
    <2>1. Lasting(s)
      BY <1>2, LastingStep
    <2>2. store[s].status # "expired"
      BY DEF TypeOK, Session, Statuses
    <2> QED BY <1>2, <2>1, <2>2 DEF Lasting, PolledInv
  <1>3. CASE polled'[s] = polled[s] /\ s \notin Opened
    BY <1>3 DEF PolledInv
  <1> QED BY <1>1, <1>2, <1>3, PollStep

(* Successive polls of a session never go back.                            *)
THEOREM PollsNeverGoBackCorrect == Spec => PollsNeverGoBack
  <1>1. Init => PolledInv
    BY DEF Init, PolledInv
  <1>2. ASSUME TypeOK, PolledInv, [Next]_vars, NEW s \in States, polled'[s] # polled[s]
        PROVE  \/ polled[s] \in {"never", "pending"} /\ polled'[s] # "never"
               \/ polled[s] \in {"done", "failed"} /\ polled'[s] = "expired"
    <2>1. PollStatus(s)
      BY <1>2, PollStep
    <2>2. polled'[s] = PollAnswer(s) /\ polled'[s] # "never"
      BY <1>2, <2>1, PollTells
    <2>3. polled[s] \in {"never", "pending", "done", "failed", "expired"}
      BY <1>2 DEF TypeOK, Statuses
    <2>4. polled[s] \in {"done", "failed", "expired"} => ~Usable(s)
      BY <1>2, <2>2 DEF PolledInv, PollAnswer
    <2> QED BY <1>2, <2>2, <2>3, <2>4 DEF PollAnswer
  <1>3. TypeOK /\ PolledInv /\ [Next]_vars =>
          [\A s \in States :
             polled'[s] # polled[s] =>
               \/ polled[s] \in {"never", "pending"} /\ polled'[s] # "never"
               \/ polled[s] \in {"done", "failed"} /\ polled'[s] = "expired"]_vars
    BY <1>2
  <1> QED
    BY <1>1, <1>3, InitType, NextType, NextPolledInv, PTL DEF Spec, PollsNeverGoBack

-----------------------------------------------------------------------------
(***************************************************************************)
(* Refinement: every step of VerifierServer is a step of OneShotSession or *)
(* leaves its views alone.                                                 *)
(***************************************************************************)

(* A presentation can only be made for a nonce that has been issued. *)
MadeForOpened ==
  \A p \in Posts : posts[p].pc # "idle" => posts[p].body.madeFor \in Opened

LEMMA NextMadeForOpened ==
  TypeOK /\ MadeForOpened /\ [Next]_vars => MadeForOpened'
  <1> SUFFICES ASSUME TypeOK, MadeForOpened, [Next]_vars PROVE MadeForOpened'
    OBVIOUS
  <1>1. ASSUME \A s \in States : requests[s].pc # "none" => requests'[s].pc # "none",
               \A p \in Posts : posts'[p].pc # "idle" =>
                 \/ posts[p].pc # "idle" /\ posts'[p].body = posts[p].body
                 \/ posts'[p].body.madeFor \in Opened
        PROVE  MadeForOpened'
    BY <1>1 DEF MadeForOpened, Opened
  <1>2. ASSUME NEW p \in Posts, NEW s \in States, NEW body \in Body,
               HandlePost(p, s, body)
        PROVE  MadeForOpened'
    <2>1. /\ body.madeFor \in Opened
          /\ requests' = requests
          /\ posts'[p].body = body
          /\ \A q \in Posts : q # p => posts'[q] = posts[q]
      BY <1>2
      DEF HandlePost, RefuseDeadState, RefuseReplay, RefuseEncrypted,
          RefuseWithoutToken, StartVerification, Arrives, Answered, TypeOK
    <2> QED BY <1>1, <2>1
  <1>3. ASSUME NEW p \in Posts, FinishVerification(p)
        PROVE  MadeForOpened'
    <2>1. /\ posts[p].pc # "idle"
          /\ requests' = requests
          /\ posts'[p].body = posts[p].body
          /\ \A q \in Posts : q # p => posts'[q] = posts[q]
      BY <1>3 DEF FinishVerification, TypeOK, Post
    <2> QED BY <1>1, <2>1
  <1>4. CASE Restart
    <2>1. \A s \in States : requests[s].pc # "none" => requests'[s].pc # "none"
      BY <1>4 DEF Restart, TypeOK, Request
    <2>2. \A p \in Posts : posts'[p].pc # "idle" =>
            posts[p].pc # "idle" /\ posts'[p].body = posts[p].body
      BY <1>4 DEF Restart, TypeOK, Post
    <2> QED BY <1>1, <2>1, <2>2
  <1>5. CASE \/ \E s \in States, lenient \in BOOLEAN : OpenSession(s, lenient)
             \/ \E s \in States : AnswerRequest(s) \/ FailRequest(s) \/ PollStatus(s)
             \/ Sweep \/ Tick \/ UNCHANGED vars
    <2>1. posts' = posts
      BY <1>5 DEF OpenSession, AnswerRequest, FailRequest, PollStatus, Sweep, Tick, vars
    <2>2. \A s \in States : requests[s].pc # "none" => requests'[s].pc # "none"
      BY <1>5 DEF OpenSession, AnswerRequest, FailRequest, PollStatus, Sweep,
                  Tick, vars, TypeOK, Request
    <2> QED BY <1>1, <2>1, <2>2
  <1> QED BY <1>2, <1>3, <1>4, <1>5 DEF Next

-----------------------------------------------------------------------------
(* What a step has to leave alone for the views to stay as they are. *)
LEMMA ViewsKept ==
  ASSUME \A s \in States :
           /\ requests'[s].pc = "none" <=> requests[s].pc = "none"
           /\ Usable(s)' <=> Usable(s)
           /\ Usable(s) => store'[s].status = store[s].status
  PROVE  SessionViews' = SessionViews
  BY DEF SessionViews, ViewOf, Opened, Usable

LEMMA ViewChanged ==
  ASSUME NEW s \in States, NEW v,
         ViewOf(s)' = v,
         \A r \in States : r # s => ViewOf(r)' = ViewOf(r)
  PROVE  SessionViews' = [SessionViews EXCEPT ![s] = v]
  BY DEF SessionViews

LEMMA PresentedKept ==
  ASSUME \A s \in States : requests'[s].lenient = requests[s].lenient,
         \A p \in Posts :
           /\ posts'[p].pc = "idle" <=> posts[p].pc = "idle"
           /\ posts[p].pc # "idle" =>
                posts'[p].to = posts[p].to /\ posts'[p].body = posts[p].body
  PROVE  PresentedStates' = PresentedStates
  BY DEF PresentedStates, PresentedTo, Verifies

(* A post that arrives presents something to its own session, if at all. *)
LEMMA PresentedByPost ==
  ASSUME TypeOK,
         NEW p \in Posts, NEW s \in States, NEW body \in Body,
         Arrives(p, body), requests' = requests,
         posts'[p].pc # "idle", posts'[p].to = s, posts'[p].body = body,
         \A q \in Posts : q # p => posts'[q] = posts[q]
  PROVE  PresentedStates' =
           PresentedStates \cup
             IF Verifies(body, s, requests[s].lenient) THEN {s} ELSE {}
  <1>1. \A r \in States :
          PresentedTo(r)' <=>
            \/ PresentedTo(r)
            \/ r = s /\ Verifies(body, s, requests[s].lenient)
    <2> SUFFICES ASSUME NEW r \in States
                 PROVE  PresentedTo(r)' <=>
                          \/ PresentedTo(r)
                          \/ r = s /\ Verifies(body, s, requests[s].lenient)
      OBVIOUS
    <2>1. posts[p].pc = "idle"
      BY DEF Arrives
    <2> QED BY <2>1 DEF PresentedTo, Verifies
  <1> QED BY <1>1 DEF PresentedStates

LEMMA OpenRefines ==
  ASSUME TypeOK, OneShotInv, MadeForOpened,
         NEW s \in States, NEW lenient \in BOOLEAN, OpenSession(s, lenient)
  PROVE  OneShot!Open(s)
  <1>1. /\ requests[s].pc = "none"
        /\ requests'[s] = [pc |-> "drawing", lenient |-> lenient, openedAt |-> now]
        /\ store'[s] = NewSession(lenient)
        /\ now' = now /\ posts' = posts
        /\ \A r \in States : r # s => requests'[r] = requests[r] /\ store'[r] = store[r]
    BY DEF OpenSession, TypeOK
  <1>2. SessionViews[s] = "unborn"
    BY <1>1 DEF SessionViews, ViewOf, Opened
  <1>3. ViewOf(s)' = "pending"
    BY <1>1, TimeAssumption
    DEF ViewOf, Opened, Usable, Held, IsExpired, NewSession, TypeOK
  <1>4. \A r \in States : r # s => ViewOf(r)' = ViewOf(r)
    BY <1>1 DEF ViewOf, Opened, Usable, Held, IsExpired
  <1>5. ~PresentedTo(s) /\ ~PresentedTo(s)'
    BY <1>1 DEF PresentedTo, Verifies, MadeForOpened, Opened
  <1>6. \A r \in States : r # s => (PresentedTo(r)' <=> PresentedTo(r))
    BY <1>1 DEF PresentedTo, Verifies
  <1>7. PresentedStates' = PresentedStates
    BY <1>5, <1>6 DEF PresentedStates
  <1> QED BY <1>2, <1>3, <1>4, <1>7, ViewChanged DEF OneShot!Open

LEMMA CompleteRefines ==
  ASSUME TypeOK, OneShotInv,
         NEW s \in States, NEW verdict \in {"done", "failed"},
         store' = StoreAfterComplete(s, verdict),
         UNCHANGED <<now, requests>>,
         PresentedStates' = PresentedStates,
         verdict = "done" => s \in PresentedStates
  PROVE  OneShot!Settle(s, verdict) \/ UNCHANGED <<SessionViews, PresentedStates>>
  <1>1. CASE Accepts(s)
    <2>1. /\ store[s].status = "pending" /\ Usable(s) /\ s \in Opened
          /\ store' = [store EXCEPT ![s].status = verdict]
      BY <1>1 DEF Accepts, StoreAfterComplete, Usable, Held, OneShotInv, FreshStates
    <2>2. SessionViews[s] = "pending"
      BY <2>1 DEF SessionViews, ViewOf
    <2>3. /\ store'[s].status = verdict /\ store'[s].expiresAt = store[s].expiresAt
          /\ \A r \in States : r # s => store'[r] = store[r]
      BY <2>1 DEF TypeOK, Session
    <2>4. ViewOf(s)' = verdict
      BY <2>1, <2>3 DEF ViewOf, Opened, Usable, Held, IsExpired
    <2>5. \A r \in States : r # s => ViewOf(r)' = ViewOf(r)
      BY <2>3 DEF ViewOf, Opened, Usable, Held, IsExpired
    <2> QED BY <2>2, <2>4, <2>5, ViewChanged DEF OneShot!Settle
  <1>2. CASE ~Accepts(s)
    <2>1. \A r \in States :
            \/ store'[r] = store[r]
            \/ store'[r] = Absent /\ IsExpired(r)
      BY <1>2 DEF StoreAfterComplete, Accepts, TypeOK
    <2>2. SessionViews' = SessionViews
      BY <2>1, ViewsKept DEF Usable, Held, IsExpired, Absent
    <2> QED BY <2>2
  <1> QED BY <1>1, <1>2

(* A post that was not verified yet settles nothing as done. *)
LEMMA PostRefines ==
  ASSUME TypeOK, OneShotInv,
         NEW p \in Posts, NEW s \in States, NEW body \in Body,
         HandlePost(p, s, body)
  PROVE  OneShot!Next \/ UNCHANGED <<SessionViews, PresentedStates>>
  <1>1. /\ Arrives(p, body) /\ UNCHANGED <<now, requests>>
        /\ posts'[p].pc # "idle" /\ posts'[p].to = s /\ posts'[p].body = body
        /\ \A q \in Posts : q # p => posts'[q] = posts[q]
    BY DEF HandlePost, RefuseDeadState, RefuseReplay, RefuseEncrypted,
           RefuseWithoutToken, StartVerification, Arrives, Answered, TypeOK
  <1>2. PresentedStates' =
          PresentedStates \cup
            IF Verifies(body, s, requests[s].lenient) THEN {s} ELSE {}
    BY <1>1, PresentedByPost
  <1>3. CASE RefuseEncrypted(p, s, body)
    <2>1. PresentedStates' = PresentedStates
      BY <1>2, <1>3 DEF RefuseEncrypted, Verifies
    <2>2. store' = StoreAfterComplete(s, "failed")
      BY <1>3 DEF RefuseEncrypted
    <2> QED BY <1>1, <2>1, <2>2, CompleteRefines DEF OneShot!Next
  <1>4. CASE ~RefuseEncrypted(p, s, body)
    <2>1. \A r \in States : \/ store'[r] = store[r]
                            \/ store'[r] = Absent /\ IsExpired(r)
      BY <1>4 DEF HandlePost, RefuseDeadState, RefuseReplay, RefuseWithoutToken,
                  StartVerification, StoreAfterGet, TypeOK
    <2>2. SessionViews' = SessionViews
      BY <1>1, <2>1, ViewsKept DEF Usable, Held, IsExpired, Absent
    <2>3. CASE Verifies(body, s, requests[s].lenient)
      <3>1. SessionViews[s] # "unborn"
        <4>1. s \in Opened
          BY <1>1, <2>3 DEF Arrives, Verifies
        <4>2. Usable(s) => store[s].status \in {"pending", "done", "failed"}
          BY DEF TypeOK, Session, Statuses, Usable, Held
        <4> QED BY <4>1, <4>2 DEF SessionViews, ViewOf
      <3>2. OneShot!Present(s)
        BY <1>2, <2>2, <2>3, <3>1 DEF OneShot!Present
      <3> QED BY <3>2 DEF OneShot!Next
    <2>4. CASE ~Verifies(body, s, requests[s].lenient)
      BY <1>2, <2>2, <2>4
    <2> QED BY <2>3, <2>4
  <1> QED BY <1>3, <1>4

LEMMA FinishRefines ==
  ASSUME TypeOK, OneShotInv, NEW p \in Posts, FinishVerification(p)
  PROVE  OneShot!Next \/ UNCHANGED <<SessionViews, PresentedStates>>
  <1> DEFINE s == posts[p].to
             outcome == Outcome(posts[p].body, s, posts[p].lenient)
  <1>1. /\ posts[p].pc = "verifying"
        /\ s \in States
        /\ posts[p].lenient = requests[s].lenient
        /\ UNCHANGED <<now, requests>>
    BY DEF FinishVerification, OneShotInv, HandlersAsOpened, TypeOK, Post
  <1>2. /\ posts'[p].pc = "answered" /\ posts'[p].to = s
        /\ posts'[p].body = posts[p].body
        /\ \A q \in Posts : q # p => posts'[q] = posts[q]
    BY DEF FinishVerification, TypeOK, Post
  <1>3. PresentedStates' = PresentedStates
    BY <1>1, <1>2, PresentedKept
  <1>4. \/ store' = store
        \/ store' = StoreAfterComplete(s, "done") /\ outcome = "result"
        \/ store' = StoreAfterComplete(s, "failed")
    BY DEF FinishVerification
  <1>5. CASE store' = store
    BY <1>1, <1>3, <1>5, ViewsKept DEF Usable, Held, IsExpired
  <1>6. CASE store' = StoreAfterComplete(s, "done") /\ outcome = "result"
    <2>1. Verifies(posts[p].body, s, requests[s].lenient)
      BY <1>1, <1>6 DEF Outcome
    <2>2. s \in PresentedStates
      BY <1>1, <2>1 DEF PresentedStates, PresentedTo
    <2> QED BY <1>1, <1>3, <1>6, <2>2, CompleteRefines DEF OneShot!Next
  <1>7. CASE store' = StoreAfterComplete(s, "failed")
    BY <1>1, <1>3, <1>7, CompleteRefines DEF OneShot!Next
  <1> QED BY <1>4, <1>5, <1>6, <1>7

(* Sessions that stop being usable without a verdict lapse. *)
LEMMA LapseRefines ==
  ASSUME TypeOK, OneShotInv,
         \A s \in States :
           /\ requests'[s].pc = "none" <=> requests[s].pc = "none"
           /\ Usable(s)' => Usable(s) /\ store'[s].status = store[s].status,
         PresentedStates' = PresentedStates
  PROVE  OneShot!Next \/ UNCHANGED <<SessionViews, PresentedStates>>
  <1> DEFINE S == {s \in States : Usable(s) /\ ~Usable(s)'}
  <1>1. \A s \in S : SessionViews[s] \in {"pending", "done", "failed"}
    BY DEF SessionViews, ViewOf, Opened, Usable, Held, TypeOK, Session, Statuses,
           OneShotInv, FreshStates
  <1>2. SessionViews' = [s \in States |-> IF s \in S THEN "expired" ELSE SessionViews[s]]
    <2> SUFFICES ASSUME NEW s \in States
                 PROVE  ViewOf(s)' = IF s \in S THEN "expired" ELSE ViewOf(s)
      BY DEF SessionViews
    <2>1. CASE s \notin Opened
      BY <2>1 DEF ViewOf, Opened, Usable, OneShotInv, FreshStates
    <2>2. CASE s \in Opened
      BY <2>2 DEF ViewOf, Opened
    <2> QED BY <2>1, <2>2
  <1>3. CASE S = {}
    BY <1>2, <1>3 DEF SessionViews
  <1>4. CASE S # {}
    <2>1. S \in SUBSET States /\ OneShot!Lapse(S)
      BY <1>1, <1>2, <1>4 DEF OneShot!Lapse, OneShot!Live
    <2> QED BY <2>1 DEF OneShot!Next
  <1> QED BY <1>3, <1>4

LEMMA NextRefines ==
  TypeOK /\ OneShotInv /\ MadeForOpened /\ [Next]_vars
    => [OneShot!Next]_<<SessionViews, PresentedStates>>
  <1> SUFFICES ASSUME TypeOK, OneShotInv, MadeForOpened, [Next]_vars
               PROVE  OneShot!Next \/ UNCHANGED <<SessionViews, PresentedStates>>
    OBVIOUS
  <1>1. CASE \E s \in States, lenient \in BOOLEAN : OpenSession(s, lenient)
    BY <1>1, OpenRefines DEF OneShot!Next
  <1>2. CASE \E p \in Posts, s \in States, body \in Body : HandlePost(p, s, body)
    BY <1>2, PostRefines
  <1>3. CASE \E p \in Posts : FinishVerification(p)
    BY <1>3, FinishRefines
  <1>4. ASSUME posts' = posts,
               \A s \in States :
                 /\ requests'[s].pc = "none" <=> requests[s].pc = "none"
                 /\ requests'[s].lenient = requests[s].lenient
                 /\ Usable(s)' => Usable(s) /\ store'[s].status = store[s].status
        PROVE  OneShot!Next \/ UNCHANGED <<SessionViews, PresentedStates>>
    BY <1>4, PresentedKept, LapseRefines
  <1>5. CASE \E s \in States : AnswerRequest(s) \/ FailRequest(s)
    BY <1>4, <1>5 DEF AnswerRequest, FailRequest, TypeOK, Request, Usable, Held, IsExpired
  <1>6. CASE \E s \in States : PollStatus(s)
    <2> PICK s \in States : PollStatus(s)
      BY <1>6
    <2>1. \A r \in States : store'[r] = store[r] \/ store'[r] = Absent
      BY DEF PollStatus, StoreAfterGet, TypeOK
    <2> QED BY <1>4, <2>1 DEF PollStatus, Usable, Held, IsExpired, Absent
  <1>7. CASE Sweep
    BY <1>4, <1>7 DEF Sweep, Usable, Held, IsExpired, Absent
  <1>8. CASE Tick
    <2>1. \A s \in States : store[s].expiresAt \in Nat /\ now \in Nat /\ now' = now + 1
      BY <1>8 DEF Tick, TypeOK, Session
    <2> QED BY <1>4, <1>8, <2>1 DEF Tick, Usable, Held, IsExpired
  <1>9. CASE Restart
    <2>1. \A s \in States : /\ requests'[s].pc = "none" <=> requests[s].pc = "none"
                            /\ requests'[s].lenient = requests[s].lenient
                            /\ ~Usable(s)'
      BY <1>9 DEF Restart, TypeOK, Request, Usable, Held, Absent
    <2>2. \A p \in Posts :
           /\ posts'[p].pc = "idle" <=> posts[p].pc = "idle"
           /\ posts'[p].to = posts[p].to /\ posts'[p].body = posts[p].body
      BY <1>9 DEF Restart, TypeOK, Post
    <2>3. PresentedStates' = PresentedStates
      BY <2>1, <2>2, PresentedKept
    <2> QED BY <2>1, <2>3, LapseRefines
  <1>10. CASE UNCHANGED vars
    BY <1>4, <1>10 DEF vars, Usable, Held, IsExpired
  <1> QED
    BY <1>1, <1>2, <1>3, <1>5, <1>6, <1>7, <1>8, <1>9, <1>10 DEF Next

LEMMA InitRefines == Init => OneShot!Init
  <1> SUFFICES ASSUME Init PROVE OneShot!Init
    OBVIOUS
  <1>1. \A s \in States : requests[s].pc = "none"
    BY DEF Init
  <1>2. \A p \in Posts : posts[p].pc = "idle"
    BY DEF Init
  <1>3. SessionViews = [s \in States |-> "unborn"]
    BY <1>1 DEF SessionViews, ViewOf, Opened
  <1>4. PresentedStates = {}
    BY <1>2 DEF PresentedStates, PresentedTo
  <1> QED BY <1>3, <1>4 DEF OneShot!Init

(* The server implements the one-shot session: whatever it does to its     *)
(* store, its timers and its handlers, each session is opened once, is     *)
(* done only after an acceptable presentation reached it, and takes one    *)
(* verdict.                                                                *)
THEOREM ServerImplementsOneShot == Spec => OneShot!Safety
  <1>1. Init => MadeForOpened
    BY DEF Init, MadeForOpened
  <1>2. Spec => [](TypeOK /\ OneShotInv /\ MadeForOpened)
    BY <1>1, InitType, NextType, InitOneShot, NextOneShot, NextMadeForOpened, PTL
    DEF Spec
  <1>3. Spec => [][OneShot!Next]_<<SessionViews, PresentedStates>>
    BY <1>2, NextRefines, PTL DEF Spec
  <1> QED BY <1>3, InitRefines, PTL DEF Spec, OneShot!Safety, OneShot!vars

=============================================================================
