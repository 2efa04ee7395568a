--------------------------- MODULE VerifierServer ---------------------------
(***************************************************************************)
(* The server half of the PoC verifier: the in-memory SessionStore with    *)
(* its sweeper, GET /api/request, POST /response and GET /api/status, all  *)
(* run by one Node event loop.                                             *)
(*                                                                         *)
(* A handler runs without interruption up to its first `await' and again   *)
(* from there to its reply, so each of those stretches is one action:      *)
(* GET /api/request is OpenSession then AnswerRequest (or FailRequest)     *)
(* around the QR rendering, POST /response is StartVerification then       *)
(* FinishVerification around verifyResponse, or a single action when it    *)
(* replies without verifying.  Every other handler may run in between, and *)
(* the clock may pass the session's expiry there.                          *)
(*                                                                         *)
(* Sessions are named by their `state'.  A state is a fresh UUID, and so   *)
(* is the nonce made with it, so a presentation made for the nonce of s is *)
(* simply one `made for s'.                                                *)
(***************************************************************************)
EXTENDS Naturals, FiniteSets

CONSTANTS
  States,        \* the UUIDs that will be drawn as session states
  Posts,         \* the POST /response calls that will be made
  Kinds,         \* what the wallets put in their bodies, of BodyKinds
  Ttl,           \* sessionTtlMs, in clock ticks
  SweepPeriod,   \* the sweeper's 60 s interval, in clock ticks
  LastOpen,      \* bound: no session is opened after this time
  Horizon        \* bound: the clock stops here

ASSUME TimeAssumption ==
  /\ Ttl \in Nat \ {0}
  /\ SweepPeriod \in Nat \ {0}
  /\ LastOpen \in Nat
  /\ Horizon \in Nat
  /\ Horizon >= LastOpen + Ttl + SweepPeriod

VARIABLES
  now,           \* Date.now()
  nextSweep,     \* when the sweeper's interval fires next
  store,         \* SessionStore.#sessions: the session under each state
  requests,      \* the GET /api/request handler that drew each state
  posts,         \* the POST /response handlers
  polled,        \* what the last GET /api/status of each state answered
  ledger         \* history: every verdict the store accepted, and when

vars == <<now, nextSweep, store, requests, posts, polled, ledger>>

-----------------------------------------------------------------------------
(* What a wallet can put in the body of POST /response.                    *)
(*   valid       satisfies the query and verifies                          *)
(*   tampered    as valid, but element digests do not match the MSO        *)
(*   rejected    verification ends in one of VERIFICATION_ERRORS or in     *)
(*               valid = false                                             *)
(*   illTyped    verification throws a TypeError                           *)
(*   fault       verification throws anything else                         *)
(*   encrypted   a `response' string instead of a vp_token                 *)
(*   denial      error = access_denied, and no vp_token                    *)
(*   empty       no vp_token                                               *)

BodyKinds == {"valid", "tampered", "rejected", "illTyped", "fault",
              "encrypted", "denial", "empty"}

TokenKinds == BodyKinds \ {"encrypted", "denial", "empty"}

ASSUME SetsAssumption == States # {} /\ Kinds # {} /\ Kinds \subseteq BodyKinds

Body == [kind : Kinds, madeFor : States]

Statuses == {"pending", "done", "failed"}

(* A state that the Map does not hold is Absent here. *)
Absent == [status |-> "absent", expiresAt |-> 0, lenient |-> FALSE]

Session == [status : Statuses \cup {"absent"},
            expiresAt : Nat, lenient : BOOLEAN]

NewSession_BornExpired(lenient) ==
  [status |-> "pending", expiresAt |-> now - Ttl, lenient |-> lenient]

NewSession(lenient) ==
  [status |-> "pending", expiresAt |-> now + Ttl, lenient |-> lenient]

Held(s)      == store[s].status # "absent"
IsExpired(s) == now >= store[s].expiresAt
Usable(s)    == Held(s) /\ ~IsExpired(s)

(* get(s): an expired session is dropped by whoever looks it up. *)
StoreAfterGet(s) ==
  IF Held(s) /\ IsExpired(s) THEN [store EXCEPT ![s] = Absent] ELSE store

(* complete(s, ...): whether it returns true, and what it leaves behind. *)
Accepts_Settled(s)  == Held(s) /\ ~IsExpired(s)
Accepts_Overdue(s)  == store[s].status = "pending"

Accepts(s) == store[s].status = "pending" /\ ~IsExpired(s)

StoreAfterComplete_OnlyDone(s, verdict) ==
  IF Accepts(s) /\ verdict = "done" THEN [store EXCEPT ![s].status = verdict]
  ELSE store

StoreAfterComplete(s, verdict) ==
  IF Accepts(s) THEN [store EXCEPT ![s].status = verdict]
  ELSE IF store[s].status = "pending" THEN [store EXCEPT ![s] = Absent]
  ELSE store

LedgerAfterComplete(s, verdict, p) ==
  IF Accepts(s)
  THEN [ledger EXCEPT ![s] = @ \cup {[verdict |-> verdict, post |-> p, at |-> now]}]
  ELSE ledger

(* How verifyResponse ends.  The nonce is bound into the session           *)
(* transcript, so nothing made for another session verifies; mismatched    *)
(* digests pass only when the session was opened with the debug toggle.    *)
Verifies(body, s, lenient) ==
  /\ body.madeFor = s
  /\ body.kind = "valid" \/ (body.kind = "tampered" /\ lenient)

Outcome_AlwaysLenient(body, s, lenient) ==
  CASE body.kind = "illTyped"        -> "TypeError"
    [] body.kind = "fault"           -> "throws"
    [] Verifies(body, s, TRUE)       -> "result"
    [] OTHER                         -> "error"

Outcome(body, s, lenient) ==
  CASE body.kind = "illTyped"        -> "TypeError"
    [] body.kind = "fault"           -> "throws"
    [] Verifies(body, s, lenient)    -> "result"
    [] OTHER                         -> "error"

-----------------------------------------------------------------------------
Request == [pc : {"none", "drawing", "answered", "failed", "lost"},
            lenient : BOOLEAN, openedAt : Nat]

Replies == {"none", "invalid_state", "response_already_processed",
            "invalid_response", "internal_error", "done", "failed"}

Post == [pc : {"idle", "verifying", "answered", "lost"},
         to : States, body : Body, lenient : BOOLEAN, reply : Replies]

Opened == {s \in States : requests[s].pc # "none"}

TypeOK ==
  /\ now \in Nat
  /\ nextSweep \in Nat
  /\ store \in [States -> Session]
  /\ requests \in [States -> Request]
  /\ posts \in [Posts -> Post]
  /\ polled \in [States -> Statuses \cup {"never", "expired"}]
  /\ ledger \in [States -> SUBSET [verdict : {"done", "failed"},
                                   post : Posts, at : Nat]]

Init ==
  /\ now = 0
  /\ nextSweep = SweepPeriod
  /\ store = [s \in States |-> Absent]
  /\ requests = [s \in States |->
                   [pc |-> "none", lenient |-> FALSE, openedAt |-> 0]]
  /\ posts = [p \in Posts |->
                [pc |-> "idle", to |-> CHOOSE s \in States : TRUE,
                 body |-> [kind |-> CHOOSE k \in Kinds : TRUE, madeFor |-> CHOOSE s \in States : TRUE],
                 lenient |-> FALSE, reply |-> "none"]]
  /\ polled = [s \in States |-> "never"]
  /\ ledger = [s \in States |-> {}]

-----------------------------------------------------------------------------
(* GET /api/request *)

(* From the call to the await on the QR code. *)
OpenSession(s, lenient) ==
  /\ now <= LastOpen
  /\ requests[s].pc = "none"
  /\ requests' = [requests EXCEPT ![s] =
                    [pc |-> "drawing", lenient |-> lenient, openedAt |-> now]]
  /\ store' = [store EXCEPT ![s] = NewSession(lenient)]
  /\ UNCHANGED <<now, nextSweep, posts, polled, ledger>>

AnswerRequest(s) ==
  /\ requests[s].pc = "drawing"
  /\ requests' = [requests EXCEPT ![s].pc = "answered"]
  /\ UNCHANGED <<now, nextSweep, store, posts, polled, ledger>>

(* QRCode.toDataURL rejects: 500, and the session stays behind. *)
FailRequest(s) ==
  /\ requests[s].pc = "drawing"
  /\ requests' = [requests EXCEPT ![s].pc = "failed"]
  /\ UNCHANGED <<now, nextSweep, store, posts, polled, ledger>>

-----------------------------------------------------------------------------
(* POST /response *)

Arrives(p, body) ==
  /\ posts[p].pc = "idle"
  /\ body.madeFor \in Opened

Answered(p, s, body, reply) ==
  posts' = [posts EXCEPT ![p] =
              [pc |-> "answered", to |-> s, body |-> body,
               lenient |-> FALSE, reply |-> reply]]

(* No session under this state, or one that is too old. *)
RefuseDeadState(p, s, body) ==
  /\ Arrives(p, body)
  /\ ~Usable(s)
  /\ store' = StoreAfterGet(s)
  /\ Answered(p, s, body, "invalid_state")
  /\ UNCHANGED <<now, nextSweep, requests, polled, ledger>>

RefuseReplay(p, s, body) ==
  /\ Arrives(p, body)
  /\ Usable(s)
  /\ store[s].status # "pending"
  /\ Answered(p, s, body, "response_already_processed")
  /\ UNCHANGED <<now, nextSweep, store, requests, polled, ledger>>

RefuseEncrypted(p, s, body) ==
  /\ Arrives(p, body)
  /\ Usable(s)
  /\ store[s].status = "pending"
  /\ body.kind = "encrypted"
  /\ store' = StoreAfterComplete(s, "failed")
  /\ ledger' = LedgerAfterComplete(s, "failed", p)
  /\ Answered(p, s, body, "failed")
  /\ UNCHANGED <<now, nextSweep, requests, polled>>

(* responseEnvelope throws before anything is awaited. *)
RefuseWithoutToken(p, s, body) ==
  /\ Arrives(p, body)
  /\ Usable(s)
  /\ store[s].status = "pending"
  /\ body.kind \in {"denial", "empty"}
  /\ Answered(p, s, body, "invalid_response")
  /\ UNCHANGED <<now, nextSweep, store, requests, polled, ledger>>

StartVerification_ClaimsFirst(p, s, body) ==
  /\ Arrives(p, body)
  /\ Usable(s)
  /\ store[s].status = "pending"
  /\ body.kind \in TokenKinds
  /\ posts' = [posts EXCEPT ![p] =
                 [pc |-> "verifying", to |-> s, body |-> body,
                  lenient |-> store[s].lenient, reply |-> "none"]]
  /\ store' = [store EXCEPT ![s].status = "failed"]
  /\ UNCHANGED <<now, nextSweep, requests, polled, ledger>>

StartVerification(p, s, body) ==
  /\ Arrives(p, body)
  /\ Usable(s)
  /\ store[s].status = "pending"
  /\ body.kind \in TokenKinds
  /\ posts' = [posts EXCEPT ![p] =
                 [pc |-> "verifying", to |-> s, body |-> body,
                  lenient |-> store[s].lenient, reply |-> "none"]]
  /\ UNCHANGED <<now, nextSweep, store, requests, polled, ledger>>

(* The await settles.  complete() may return false here, when another post *)
(* or the clock was quicker; the reply does not depend on it.              *)
FinishVerification(p) ==
  LET s       == posts[p].to
      outcome == Outcome(posts[p].body, s, posts[p].lenient)
      reply(r) == posts' = [posts EXCEPT ![p].pc = "answered", ![p].reply = r]
      settle(verdict) ==
        /\ store' = StoreAfterComplete(s, verdict)
        /\ ledger' = LedgerAfterComplete(s, verdict, p)
        /\ reply(verdict)
  IN /\ posts[p].pc = "verifying"
     /\ \/ outcome = "result" /\ settle("done")
        \/ outcome = "error" /\ settle("failed")
        \/ /\ outcome = "TypeError"
           /\ reply("invalid_response")
           /\ UNCHANGED <<store, ledger>>
        \/ /\ outcome = "throws"
           /\ reply("internal_error")
           /\ UNCHANGED <<store, ledger>>
     /\ UNCHANGED <<now, nextSweep, requests, polled>>

-----------------------------------------------------------------------------
(* GET /api/status/:state, which only ever names a state already drawn. *)
PollAnswer(s) == IF Usable(s) THEN store[s].status ELSE "expired"

PollStatus(s) ==
  /\ s \in Opened
  /\ store' = StoreAfterGet(s)
  /\ polled' = [polled EXCEPT ![s] = PollAnswer(s)]
  /\ UNCHANGED <<now, nextSweep, requests, posts, ledger>>

-----------------------------------------------------------------------------
(* The sweeper, the clock and the process.  A due timer runs before the    *)
(* clock is seen to advance again.                                         *)

Sweep_OnlyPending ==
  /\ now >= nextSweep
  /\ store' = [s \in States |->
                 IF Accepts_Overdue(s) /\ IsExpired(s) THEN Absent ELSE store[s]]
  /\ nextSweep' = now + SweepPeriod
  /\ UNCHANGED <<now, requests, posts, polled, ledger>>

Sweep ==
  /\ now >= nextSweep
  /\ store' = [s \in States |->
                 IF Held(s) /\ IsExpired(s) THEN Absent ELSE store[s]]
  /\ nextSweep' = now + SweepPeriod
  /\ UNCHANGED <<now, requests, posts, polled, ledger>>

Tick ==
  /\ now < Horizon
  /\ now < nextSweep
  /\ now' = now + 1
  /\ UNCHANGED <<nextSweep, store, requests, posts, polled, ledger>>

(* Nothing is persisted: a restart forgets the sessions and drops the      *)
(* connections of the handlers in flight.                                  *)
Restart ==
  /\ store' = [s \in States |-> Absent]
  /\ nextSweep' = now + SweepPeriod
  /\ requests' = [s \in States |->
                    IF requests[s].pc = "drawing"
                    THEN [requests[s] EXCEPT !.pc = "lost"] ELSE requests[s]]
  /\ posts' = [p \in Posts |->
                 IF posts[p].pc = "verifying"
                 THEN [posts[p] EXCEPT !.pc = "lost"] ELSE posts[p]]
  /\ UNCHANGED <<now, polled, ledger>>

-----------------------------------------------------------------------------
HandlePost(p, s, body) ==
  \/ RefuseDeadState(p, s, body)
  \/ RefuseReplay(p, s, body)
  \/ RefuseEncrypted(p, s, body)
  \/ RefuseWithoutToken(p, s, body)
  \/ StartVerification(p, s, body)

Next ==
  \/ \E s \in States, lenient \in BOOLEAN : OpenSession(s, lenient)
  \/ \E s \in States : AnswerRequest(s) \/ FailRequest(s) \/ PollStatus(s)
  \/ \E p \in Posts, s \in States, body \in Body : HandlePost(p, s, body)
  \/ \E p \in Posts : FinishVerification(p)
  \/ Sweep
  \/ Tick
  \/ Restart

(* Time passes and due timers run; verifyResponse awaits local             *)
(* cryptography only (a StaticTrustStore, no revocation lookups), so it    *)
(* settles.                                                                *)
Fairness ==
  /\ WF_vars(Tick)
  /\ WF_vars(Sweep)
  /\ \A p \in Posts : WF_vars(FinishVerification(p))

Spec == Init /\ [][Next]_vars /\ Fairness

-----------------------------------------------------------------------------
(* Safety *)

(* At most one verdict is ever accepted for a session, whatever posts      *)
(* race, however often they are replayed, and across restarts (the         *)
(* one-shot promise of SessionStore.complete).                             *)
OneVerdict == \A s \in States : \A d, e \in ledger[s] : d = e

(* A session became done only through a presentation that was posted to    *)
(* it, made for its own nonce, accepted before the session expired, and    *)
(* intact unless this very session was opened with ignoreDigestErrors; the *)
(* wallet that posted it was told #done.                                   *)
DoneIsEarned ==
  \A s \in States : \A e \in ledger[s] :
     e.verdict = "done" =>
       /\ posts[e.post].to = s
       /\ Verifies(posts[e.post].body, s, requests[s].lenient)
       /\ posts[e.post].reply = "done"
       /\ e.at < requests[s].openedAt + Ttl

(* What the store says of a session is what the ledger says: no verdict    *)
(* without a session that was pending until then, none forgotten while     *)
(* the session is held.                                                    *)
StoreMatchesLedger ==
  \A s \in States :
     Held(s) => {e.verdict : e \in ledger[s]} = {store[s].status} \ {"pending"}

(* 400 response_already_processed is only ever said of a settled session.  *)
ReplayRefusalIsTrue ==
  \A p \in Posts :
     posts[p].reply = "response_already_processed" => ledger[posts[p].to] # {}

(* The sweeper bounds what an abandoned request costs: no session is held  *)
(* for longer than its TTL and one sweep period.                           *)
RetentionBound ==
  \A s \in States : Held(s) => now < store[s].expiresAt + SweepPeriod

(* The inductive strengthening of the invariants above: how the store, the *)
(* handlers and the ledger hang together at every await.                   *)

FreshStates ==
  \A s \in States : s \notin Opened => ~Held(s) /\ ledger[s] = {}

HeldAsOpened ==
  \A s \in States : Held(s) =>
    /\ store[s].expiresAt = requests[s].openedAt + Ttl
    /\ store[s].lenient = requests[s].lenient

HandlersAsOpened ==
  \A p \in Posts : posts[p].pc = "verifying" =>
    /\ posts[p].to \in Opened
    /\ posts[p].lenient = requests[posts[p].to].lenient

EntriesAreAnswered ==
  \A s \in States : \A e \in ledger[s] :
    /\ posts[e.post].pc = "answered"
    /\ posts[e.post].to = s
    /\ posts[e.post].reply = e.verdict
    /\ e.at < requests[s].openedAt + Ttl
    /\ e.verdict = "done" =>
         Verifies(posts[e.post].body, s, requests[s].lenient)

PendingIsUnsettled ==
  \A s \in States : store[s].status = "pending" => ledger[s] = {}

SettledIsRecorded ==
  \A s \in States : store[s].status \in {"done", "failed"} =>
    \E e \in ledger[s] : e.verdict = store[s].status

(* The inductive invariant behind OneVerdict, DoneIsEarned and             *)
(* StoreMatchesLedger: a session that is pending has no verdict on record, *)
(* one that is settled has exactly its own, and every verdict on record    *)
(* was answered to the post that earned it, in time.                       *)
OneShotInv ==
  /\ FreshStates
  /\ HeldAsOpened
  /\ HandlersAsOpened
  /\ EntriesAreAnswered
  /\ PendingIsUnsettled
  /\ SettledIsRecorded
  /\ OneVerdict

(* The sweeper is never overdue, and whatever had expired when it last ran *)
(* is gone: the inductive invariant behind RetentionBound.                 *)
SweepInv ==
  /\ now <= nextSweep
  /\ nextSweep <= now + SweepPeriod
  /\ \A s \in States : Held(s) => nextSweep < store[s].expiresAt + SweepPeriod

(* Successive polls of one session never go back: pending, then at most    *)
(* one verdict, then expired for good.                                     *)
PollsNeverGoBack ==
  [][\A s \in States :
       polled'[s] # polled[s] =>
         \/ polled[s] \in {"never", "pending"} /\ polled'[s] # "never"
         \/ polled[s] \in {"done", "failed"} /\ polled'[s] = "expired"]_vars

-----------------------------------------------------------------------------
(* Refinement *)

ViewOf(s) ==
  IF s \notin Opened THEN "unborn"
  ELSE IF Usable(s) THEN store[s].status ELSE "expired"

PresentedTo(s) ==
  \E p \in Posts : /\ posts[p].pc # "idle"
                   /\ posts[p].to = s
                   /\ Verifies(posts[p].body, s, requests[s].lenient)

SessionViews    == [s \in States |-> ViewOf(s)]
PresentedStates == {s \in States : PresentedTo(s)}

OneShot == INSTANCE OneShotSession WITH
             view <- SessionViews, presented <- PresentedStates

(* The server with its store, timers and races implements the one-shot     *)
(* session, including that every session ends.                             *)
ImplementsOneShot == OneShot!Spec

=============================================================================
