----------------------------- MODULE PocVerifier -----------------------------
(***************************************************************************)
(* The whole PoC verifier: VerifierServer and the browser page that drives *)
(* it (public/app.js).  The page asks for a request, shows its QR code,    *)
(* and polls the session every two seconds whether or not the previous     *)
(* poll has been answered, so several polls can be under way and overtake  *)
(* each other, and a poll of an earlier session can still come back while  *)
(* a later one is on the screen.                                           *)
(***************************************************************************)
EXTENDS VerifierServer

CONSTANTS
  Fetches,       \* bound: the status fetches that can be under way at once
  NoState

ASSUME NoStateAssumption == NoState \notin States

VARIABLES
  panel,         \* the panel that is not hidden
  asking,        \* the /api/request fetches not yet answered, by state
  polling,       \* the state pollTimer polls for
  polls,         \* the status fetches
  shown          \* history: the session and answer the result panel renders

browserVars == <<panel, asking, polling, polls, shown>>
allVars == <<vars, browserVars>>

Answers == Statuses \cup {"expired"}

Fetch == [pc : {"idle", "sent", "answered"}, state : States, answer : Answers]

BrowserTypeOK ==
  /\ panel \in {"start", "qr", "result"}
  /\ asking \subseteq States
  /\ polling \in States \cup {NoState}
  /\ polls \in [Fetches -> Fetch]
  /\ shown \in [state : States \cup {NoState}, answer : Answers]

PocTypeOK == TypeOK /\ BrowserTypeOK

PocInit ==
  /\ Init
  /\ panel = "start"
  /\ asking = {}
  /\ polling = NoState
  /\ polls = [i \in Fetches |-> [pc |-> "idle", answer |-> "pending",
                                 state |-> CHOOSE s \in States : TRUE]]
  /\ shown = [state |-> NoState, answer |-> "pending"]

-----------------------------------------------------------------------------
(* The two request buttons: the one on the start panel, which stays up     *)
(* until the answer comes, and `Request another' on the result panel.      *)
ClickRequest(s, lenient) ==
  /\ panel \in {"start", "result"}
  /\ OpenSession(s, lenient)
  /\ panel' = "start"
  /\ asking' = asking \cup {s}
  /\ UNCHANGED <<polling, polls, shown>>

SendPoll(i, s) ==
  /\ polls[i].pc = "idle"
  /\ polls' = [polls EXCEPT ![i].pc = "sent", ![i].state = s]

(* The rest of requestPresentation: the QR code goes up, startPolling      *)
(* replaces whatever timer was running and polls at once.                  *)
ReceiveRequest(s) ==
  /\ s \in asking
  /\ requests[s].pc = "answered"
  /\ asking' = asking \ {s}
  /\ panel' = "qr"
  /\ polling' = s
  /\ \E i \in Fetches : SendPoll(i, s)
  /\ UNCHANGED <<vars, shown>>

(* A 500, or a connection lost in either direction. *)
LoseRequest(s) ==
  /\ s \in asking
  /\ requests[s].pc # "drawing"
  /\ asking' = asking \ {s}
  /\ UNCHANGED <<vars, panel, polling, polls, shown>>

-----------------------------------------------------------------------------
(* pollTimer fires. *)
PollTimer(i) ==
  /\ polling # NoState
  /\ SendPoll(i, polling)
  /\ UNCHANGED <<vars, panel, asking, polling, shown>>

ServePoll(i) ==
  LET s == polls[i].state IN
  /\ polls[i].pc = "sent"
  /\ PollStatus(s)
  /\ polls' = [polls EXCEPT ![i].pc = "answered", ![i].answer = PollAnswer(s)]
  /\ UNCHANGED <<panel, asking, polling, shown>>

(* pollStatus from its first await: every final answer stops the timer and *)
(* takes over the page, whichever session the answer is about.             *)
ReceivePoll_QuietExpiry(i) ==
  /\ polls[i].pc = "answered"
  /\ polls' = [polls EXCEPT ![i].pc = "idle"]
  /\ IF polls[i].answer = "pending"
     THEN UNCHANGED <<panel, polling, shown>>
     ELSE /\ polling' = NoState
          /\ panel' = IF polls[i].answer = "expired" THEN panel ELSE "result"
          /\ shown' = [state |-> polls[i].state, answer |-> polls[i].answer]
  /\ UNCHANGED <<vars, asking>>

ReceivePoll_StaleTimer(i) ==
  /\ polls[i].pc = "answered"
  /\ polls' = [polls EXCEPT ![i].pc = "idle"]
  /\ IF polls[i].answer \in {"pending", "expired"}
     THEN UNCHANGED <<panel, polling, shown>>
     ELSE /\ polling' = NoState
          /\ panel' = "result"
          /\ shown' = [state |-> polls[i].state, answer |-> polls[i].answer]
  /\ UNCHANGED <<vars, asking>>

ReceivePoll(i) ==
  /\ polls[i].pc = "answered"
  /\ polls' = [polls EXCEPT ![i].pc = "idle"]
  /\ IF polls[i].answer = "pending"
     THEN UNCHANGED <<panel, polling, shown>>
     ELSE /\ polling' = NoState
          /\ panel' = "result"
          /\ shown' = [state |-> polls[i].state, answer |-> polls[i].answer]
  /\ UNCHANGED <<vars, asking>>

(* The fetch fails, on its way out or back: the status line says so and    *)
(* polling goes on.                                                        *)
LosePoll(i) ==
  /\ polls[i].pc # "idle"
  /\ polls' = [polls EXCEPT ![i].pc = "idle"]
  /\ UNCHANGED <<vars, panel, asking, polling, shown>>

-----------------------------------------------------------------------------
ServerStep ==
  /\ \/ \E s \in States : AnswerRequest(s) \/ FailRequest(s)
     \/ \E p \in Posts, s \in States, body \in Body : HandlePost(p, s, body)
     \/ \E p \in Posts : FinishVerification(p)
     \/ Sweep
     \/ Tick
     \/ Restart
  /\ UNCHANGED browserVars

PocNext ==
  \/ \E s \in States, lenient \in BOOLEAN : ClickRequest(s, lenient)
  \/ \E s \in States : ReceiveRequest(s) \/ LoseRequest(s)
  \/ \E i \in Fetches :
       PollTimer(i) \/ ServePoll(i) \/ ReceivePoll(i) \/ LosePoll(i)
  \/ ServerStep

(* The page's timer fires while it is set; a network that keeps losing     *)
(* fetches still lets one through in the end.                              *)
PocFairness ==
  /\ WF_allVars(Tick /\ UNCHANGED browserVars)
  /\ WF_allVars(Sweep /\ UNCHANGED browserVars)
  /\ \A i \in Fetches : /\ WF_allVars(PollTimer(i))
                        /\ SF_allVars(ServePoll(i))
                        /\ SF_allVars(ReceivePoll(i))

PocSpec == PocInit /\ [][PocNext]_allVars /\ PocFairness

-----------------------------------------------------------------------------
(* A QR code is on the screen exactly while its session is being polled:   *)
(* the page never strands the user on a code nobody watches, and never     *)
(* polls behind another panel.                                             *)
QrIsWatched == panel = "qr" <=> polling # NoState

(* What the result panel renders as a verified credential was accepted by  *)
(* the server for exactly that session, from a presentation made for it:   *)
(* no overtaken, late or restarted poll can make a result appear.          *)
ShownResultIsEarned ==
  panel = "result" /\ shown.answer = "done" =>
    \E e \in ledger[shown.state] :
      /\ e.verdict = "done"
      /\ Verifies(posts[e.post].body, shown.state, requests[shown.state].lenient)

(* A verdict on the screen is never replaced by the opposite verdict of    *)
(* the same session, even by an older poll that arrives later.             *)
VerdictNeverFlips ==
  [][shown.answer \in {"done", "failed"} /\ shown'.state = shown.state
     => shown'.answer \in {shown.answer, "expired"}]_allVars

(* Polling always ends, so a request that was put on the screen always     *)
(* gets a result panel: the wallet's verdict or the expiry message.        *)
PollingEnds ==
  \A s \in States : polling = s ~> polling # s

-----------------------------------------------------------------------------
(* The header of app.js: poll until the wallet returns a verified result   *)
(* or an actionable failure.  So a session being polled is given up only   *)
(* for an answer about that session.                                       *)
PolledToItsOwnEnd ==
  [][polling # NoState /\ polling' = NoState => shown'.state = polling]_allVars

=============================================================================
