--------------------------- MODULE ConformanceRun ---------------------------
(* One run of the OIDF conformance harness, scripts/oidf-ci: the             *)
(* orchestrator drives a test of a remote suite over HTTP, the suite calls   *)
(* the harness's own verifier server, and the orchestrator judges the run by *)
(* the suite's log and by the responses that server recorded.                *)
(*                                                                           *)
(* The orchestrator, the handler of POST /response and the suite run at once; *)
(* every await is the end of an action.  Time is counted down: `left` is what *)
(* remains of the time limit of the polling loop, `nap` of its sleep.  The    *)
(* suite is external: it posts one response at a time while its test runs,    *)
(* writes what it finds to its log, and may stop at a failed check.           *)
EXTENDS Integers, FiniteSets

CONSTANTS
  None,
  Checks,          \* the checks of the suite that can fail
  StatusIs4xx,     \* EXPECTED_DIVERGENCE_CHECK
  Allowed,         \* the ids of the allow-list
  WaitingTimeout, FinishedTimeout, PollInterval,
  MaxPosts         \* bound: responses the suite posts in a run

ASSUME HarnessAssumption ==
  /\ StatusIs4xx \in Checks \ Allowed
  /\ Allowed \subseteq Checks
  /\ {WaitingTimeout, FinishedTimeout, PollInterval} \subseteq Nat \ {0}

VARIABLES
  config,    \* the profile, and whether the allow-list repeats an id
  pc,        \* where runProfile is
  left, nap, \* what is left of the loop's limit and of its sleep
  answer,    \* the two halves of the status that is being fetched
  log,       \* the suite's log as it was fetched
  suite,     \* the remote test
  post,      \* the response being handled by the verifier server
  records,   \* responses[]: how often ok, how often not
  report,    \* oidf-result.json
  exit,      \* the exit code
  verdicts   \* history: what the library said of the responses, "unread" for
             \* one that did not get that far

runVars == <<pc, left, nap, answer, log, report, exit>>
vars == <<config, runVars, suite, post, records, verdicts>>

Terminal == {"FINISHED", "INTERRUPTED"}
Failures == [src: Checks, result: {"FAILURE"}]
Malformed == [src |-> None, result |-> "malformed"]
NoAnswer == [asked |-> FALSE, status |-> None, endpoint |-> None]
NoPost == [stage |-> "none", says |-> None]
Polls == {"pollUntilWaiting", "pollUntilFinished"}

Init ==
  /\ config \in [expect: {"accept", "reject"}, divergent: BOOLEAN, twice: BOOLEAN]
  /\ config.divergent => config.expect = "reject"
  /\ pc = "prepare" /\ left = 0 /\ nap = 0
  /\ answer = NoAnswer /\ log = {}
  /\ suite = [status |-> "none", endpoint |-> FALSE, triggered |-> FALSE,
              log |-> {}, posts |-> 0]
  /\ post = NoPost
  /\ records = [ok |-> 0, failed |-> 0]
  /\ report = None /\ exit = None
  /\ verdicts = {}

---------------------------------------------------------------------------
(* The orchestrator. *)

(* What comes before the try of runProfile: reading the allow-list and the    *)
(* profile, the fixtures, the server.  An error there is only caught by main,  *)
(* which exits 2; that the port is taken is an event nobody listens to, which  *)
(* ends the process with exit code 1.  Neither leaves a result.               *)
Prepare ==
  /\ pc = "prepare"
  /\ \/ pc' = "createPlan" /\ UNCHANGED exit
     \/ pc' = "exited" /\ exit' \in {1, 2}
  /\ UNCHANGED <<config, left, nap, answer, log, report, suite, post, records, verdicts>>

(* The catch of runProfile: an error record, and exit code 2 once the server *)
(* is closed.                                                                *)
Throw ==
  /\ pc' = "close" /\ exit' = 2
  /\ report' = [pass |-> FALSE, outcome |-> "error"]

CreatePlan ==
  /\ pc = "createPlan"
  /\ \/ pc' = "startTest" /\ UNCHANGED <<report, exit>>
     \/ Throw
  /\ UNCHANGED <<config, left, nap, answer, log, suite, post, records, verdicts>>

Enter(loop, limit) == pc' = loop /\ left' = limit /\ nap' = 0 /\ answer' = NoAnswer

StartTest ==
  /\ pc = "startTest"
  /\ \/ /\ Enter("pollUntilWaiting", WaitingTimeout)
        /\ suite' = [suite EXCEPT !.status = "CREATED"]
        /\ UNCHANGED <<report, exit>>
     \/ Throw /\ UNCHANGED <<left, nap, answer, suite>>
  /\ UNCHANGED <<config, log, post, records, verdicts>>

(* The head of a polling loop: past the limit it throws. *)
Overdue_Never == FALSE
Overdue == left = 0

AskStatus ==
  /\ pc \in Polls /\ nap = 0 /\ ~answer.asked
  /\ IF Overdue
     THEN Throw /\ UNCHANGED answer
     ELSE answer' = [NoAnswer EXCEPT !.asked = TRUE] /\ UNCHANGED <<pc, report, exit>>
  /\ UNCHANGED <<config, left, nap, log, suite, post, records, verdicts>>

(* getTestStatus fetches the status and the exposed values at once; each is  *)
(* read when the suite serves it, in any order, and either may fail.         *)
FetchStatus ==
  /\ pc \in Polls /\ answer.asked /\ answer.status = None
  /\ \/ answer' = [answer EXCEPT !.status = suite.status] /\ UNCHANGED <<pc, report, exit>>
     \/ Throw /\ UNCHANGED answer
  /\ UNCHANGED <<config, left, nap, log, suite, post, records, verdicts>>

FetchExposed ==
  /\ pc \in Polls /\ answer.asked /\ answer.endpoint = None
  /\ \/ answer' = [answer EXCEPT !.endpoint = suite.endpoint] /\ UNCHANGED <<pc, report, exit>>
     \/ Throw /\ UNCHANGED answer
  /\ UNCHANGED <<config, left, nap, log, suite, post, records, verdicts>>

Answered == pc \in Polls /\ None \notin {answer.status, answer.endpoint}

Sleep == nap' = PollInterval /\ answer' = NoAnswer /\ UNCHANGED <<pc, left, report, exit>>

JudgeWaiting ==
  /\ Answered /\ pc = "pollUntilWaiting"
  /\ IF answer.status = "WAITING" /\ answer.endpoint
     THEN pc' = "trigger" /\ UNCHANGED <<left, nap, answer, report, exit>>
     ELSE IF answer.status \in Terminal
     THEN Throw /\ UNCHANGED <<left, nap, answer>>
     ELSE Sleep
  /\ UNCHANGED <<config, log, suite, post, records, verdicts>>

(* The fetch that stands for the wallet.  Its failure is only logged: the    *)
(* suite may or may not have seen it.                                        *)
TriggerWallet ==
  /\ pc = "trigger"
  /\ Enter("pollUntilFinished", FinishedTimeout)
  /\ \E seen \in BOOLEAN : suite' = [suite EXCEPT !.triggered = seen]
  /\ UNCHANGED <<config, log, report, exit, post, records, verdicts>>

(* A run that stopped at a failed check has a log that can be judged. *)
JudgeFinished ==
  /\ Answered /\ pc = "pollUntilFinished"
  /\ IF answer.status \in Terminal
     THEN pc' = "getTestLog" /\ UNCHANGED <<left, nap, answer, report, exit>>
     ELSE Sleep
  /\ UNCHANGED <<config, log, suite, post, records, verdicts>>

GetTestLog ==
  /\ pc = "getTestLog"
  /\ \/ pc' = "gate" /\ log' = suite.log /\ UNCHANGED <<report, exit>>
     \/ Throw /\ UNCHANGED log
  /\ UNCHANGED <<config, left, nap, answer, suite, post, records, verdicts>>

(* categorise: the failures that no entry of the allow-list excuses. *)
Blocking(entries) == {e.src : e \in entries \ {Malformed}} \ Allowed
CannotCategorise == config.twice \/ Malformed \in log

ExpectedDivergence_AnyFailure ==
  /\ config.divergent
  /\ records.ok >= 1 /\ records.failed = 0
  /\ StatusIs4xx \in Blocking(log)
ExpectedDivergence ==
  /\ config.divergent
  /\ records.ok >= 1 /\ records.failed = 0
  /\ Blocking(log) # {} /\ Blocking(log) \subseteq {StatusIs4xx}

EvidenceOk ==
  IF config.expect = "accept" THEN records.ok >= 1 /\ records.failed = 0
                              ELSE records.failed >= 1 /\ records.ok = 0

Verdict ==
  IF ExpectedDivergence THEN [pass |-> FALSE, outcome |-> "known-divergence"]
  ELSE IF Blocking(log) = {} /\ EvidenceOk
  THEN [pass |-> TRUE, outcome |-> IF config.divergent THEN "divergence-closed" ELSE "pass"]
  ELSE [pass |-> FALSE, outcome |-> "fail"]

(* Everything after the log has come is one stretch without an await: the    *)
(* records are drained, the verdict is formed, written and returned.         *)
Gate ==
  /\ pc = "gate"
  /\ IF CannotCategorise
     THEN Throw /\ UNCHANGED records
     ELSE /\ records' = [ok |-> 0, failed |-> 0]
          /\ report' = Verdict
          /\ exit' = IF Verdict.pass \/ ExpectedDivergence THEN 0 ELSE 1
          /\ pc' = "close"
  /\ UNCHANGED <<config, left, nap, answer, log, suite, post, verdicts>>

(* The finally of runProfile: close() waits for the request being handled. *)
Close ==
  /\ pc = "close" /\ post.stage = "none"
  /\ pc' = "exited"
  /\ UNCHANGED <<config, left, nap, answer, log, report, exit, suite, post, records, verdicts>>

---------------------------------------------------------------------------
(* The verifier server, POST /response. *)

(* Phase 1, decryption and the state: a failure is recorded and answered 500. *)
PhaseOneReply_LikeRejections == 400
PhaseOneReply == 500

Reply(status, ok) ==
  /\ post' = [post EXCEPT !.stage = "replied", !.says = status]
  /\ records' = IF ok THEN [records EXCEPT !.ok = @ + 1]
                      ELSE [records EXCEPT !.failed = @ + 1]

Decrypt ==
  /\ post.stage = "arrived"
  /\ IF post.says = "foreign"
     THEN Reply(PhaseOneReply, FALSE) /\ verdicts' = verdicts \cup {"unread"}
     ELSE post' = [post EXCEPT !.stage = "verifying"] /\ UNCHANGED <<records, verdicts>>
  /\ UNCHANGED <<config, runVars, suite>>

(* Phase 2, verifyAuthorizationResponse: it accepts, or it rejects, which is  *)
(* a result that is not valid or an error; only an accept is answered 200.    *)
Recorded_Anything(verdict) == TRUE
Recorded(verdict) == verdict = "accept"

Verify ==
  /\ post.stage = "verifying"
  /\ \E verdict \in {"accept", "reject"} :
       /\ verdicts' = verdicts \cup {verdict}
       /\ Reply(IF verdict = "accept" THEN 200 ELSE 400, Recorded(verdict))
  /\ UNCHANGED <<config, runVars, suite>>

---------------------------------------------------------------------------
(* The suite, as far as the harness depends on it. *)

SuiteExposes ==
  /\ suite.status \in {"CREATED", "WAITING"} /\ ~suite.endpoint
  /\ suite' = [suite EXCEPT !.endpoint = TRUE]
  /\ UNCHANGED <<config, runVars, post, records, verdicts>>

SuiteWaits ==
  /\ suite.status = "CREATED"
  /\ suite' = [suite EXCEPT !.status = "WAITING"]
  /\ UNCHANGED <<config, runVars, post, records, verdicts>>

(* Triggered, it fetches /request.jwt and runs its test. *)
SuiteRuns ==
  /\ suite.status = "WAITING" /\ suite.triggered
  /\ suite' = [suite EXCEPT !.status = "RUNNING"]
  /\ UNCHANGED <<config, runVars, post, records, verdicts>>

SuitePosts ==
  /\ suite.status = "RUNNING" /\ post = NoPost
  /\ suite.posts < MaxPosts /\ pc \notin {"close", "exited"}
  /\ \E kind \in {"ours", "foreign"} : post' = [stage |-> "arrived", says |-> kind]
  /\ suite' = [suite EXCEPT !.posts = @ + 1]
  /\ UNCHANGED <<config, runVars, records, verdicts>>

(* A negative module demands a 4xx. *)
SuiteHears ==
  /\ post.stage = "replied"
  /\ post' = NoPost
  /\ suite' = IF config.expect = "reject" /\ post.says # 400
              THEN [suite EXCEPT !.log = @ \cup {[src |-> StatusIs4xx, result |-> "FAILURE"]}]
              ELSE suite
  /\ UNCHANGED <<config, runVars, records, verdicts>>

SuiteLogs ==
  /\ suite.status = "RUNNING" /\ post = NoPost
  /\ \E e \in Failures \cup {Malformed} : suite' = [suite EXCEPT !.log = @ \cup {e}]
  /\ UNCHANGED <<config, runVars, post, records, verdicts>>

(* It finishes, or is interrupted, by a failed check or for reasons of its own. *)
SuiteStops ==
  /\ suite.status \in {"CREATED", "WAITING", "RUNNING"} /\ post = NoPost
  /\ \/ suite.status = "RUNNING" /\ suite' = [suite EXCEPT !.status = "FINISHED"]
     \/ \E why \in SUBSET Failures :
          /\ Cardinality(why) <= 1
          /\ suite' = [suite EXCEPT !.status = "INTERRUPTED", !.log = @ \cup why]
  /\ UNCHANGED <<config, runVars, post, records, verdicts>>

(* Time passes for the loop and for its sleep. *)
Tick ==
  /\ pc \in Polls /\ left + nap > 0
  /\ left' = IF left = 0 THEN 0 ELSE left - 1
  /\ nap' = IF nap = 0 THEN 0 ELSE nap - 1
  /\ UNCHANGED <<config, pc, answer, log, report, exit, suite, post, records, verdicts>>

Orchestrator ==
  \/ Prepare \/ CreatePlan \/ StartTest \/ AskStatus \/ FetchStatus \/ FetchExposed
  \/ JudgeWaiting \/ TriggerWallet \/ JudgeFinished \/ GetTestLog \/ Gate \/ Close

Handler == Decrypt \/ Verify

(* The model ends with the run. *)
Suite ==
  /\ pc # "exited"
  /\ SuiteExposes \/ SuiteWaits \/ SuiteRuns \/ SuitePosts \/ SuiteHears \/ SuiteLogs \/ SuiteStops

Next == Orchestrator \/ Handler \/ Suite \/ Tick

(* Every request to the suite settles, the handler's promises too, the client *)
(* of a reply takes it, and time passes.  The test itself owes nothing.       *)
Spec == Init /\ [][Next]_vars
        /\ WF_vars(Orchestrator) /\ WF_vars(Handler) /\ WF_vars(SuiteHears) /\ WF_vars(Tick)

---------------------------------------------------------------------------
Unexcused == Blocking(suite.log)

(* A run that exits 0 without the excuse of a documented divergence proves   *)
(* something: the suite found nothing that is not allow-listed, the library   *)
(* judged at least one response, and every response it judged ended as the    *)
(* profile expects (orchestrator.ts:126-147).  A response that failed before  *)
(* the library saw it, or that the suite never sent, is no proof.             *)
GreenIsEarned ==
  pc = "exited" /\ exit = 0 /\ report.outcome # "known-divergence" =>
    /\ Unexcused = {}
    /\ verdicts = {config.expect}

(* A run that exits 0 although the library accepted what a negative profile   *)
(* sent is a documented divergence and nothing but it: the one check that     *)
(* demands a 4xx is all that failed, the library rejected nothing, and the    *)
(* result does not read as a pass (orchestrator.ts:150-166).                  *)
DivergenceIsNarrow ==
  pc = "exited" /\ exit = 0 /\ config.expect = "reject" /\ "accept" \in verdicts =>
    /\ config.divergent
    /\ Unexcused = {StatusIs4xx}
    /\ verdicts = {"accept"}
    /\ ~report.pass

(* The gate does not fail a run for nothing: exit code 1 means that a check    *)
(* failed that nothing excuses, that a response never reached the library, or *)
(* that the library answered other than the profile expects, or not at all.   *)
RedIsDeserved ==
  pc = "exited" /\ exit = 1 =>
    \/ Unexcused # {}
    \/ verdicts # {config.expect}

(* However the remote test behaves, if it hangs in any status or stops early, *)
(* the run ends with an exit code, and once it is under way with a result     *)
(* too: both polling loops have a limit, and every error of the try is caught *)
(* (orchestrator.ts:245-302).                                                 *)
RunEnds ==
  /\ <>(pc = "exited" /\ exit \in {0, 1, 2})
  /\ pc = "createPlan" ~> (pc = "exited" /\ report # None)
=============================================================================
