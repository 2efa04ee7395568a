------------------------ MODULE ConformanceRun_proofs ------------------------
(***************************************************************************)
(* What the exit code of a conformance run says, for any checks, any       *)
(* allow-list, any time limits and any number of responses.                *)
(***************************************************************************)
EXTENDS ConformanceRun, TLAPS

Profile == [expect : {"accept", "reject"}, divergent : BOOLEAN, twice : BOOLEAN]

Test == [status : {"none", "CREATED", "WAITING", "RUNNING", "FINISHED", "INTERRUPTED"},
         endpoint : BOOLEAN, triggered : BOOLEAN,
         log : SUBSET (Failures \cup {Malformed}), posts : Nat]

IsResponse(r) == r = [stage |-> r.stage, says |-> r.says]

(* The parts of the state that the verdict depends on.                     *)
RunTypeOK ==
  /\ config \in Profile
  /\ suite \in Test
  /\ IsResponse(post)
  /\ records \in [ok : Nat, failed : Nat]
  /\ verdicts \subseteq {"accept", "reject", "unread"}

(* A test that has ended stays as it is: nothing is being handled, nothing *)
(* more is posted or logged.  The orchestrator only knows of the end after *)
(* it has come.                                                            *)
Ended == suite.status \in Terminal

EndIsSeenLate ==
  /\ Ended => post.stage = "none"
  /\ answer.status # None /\ answer.status \in Terminal => Ended
  /\ pc \in {"getTestLog", "gate"} => Ended
  /\ pc = "gate" => log = suite.log
  /\ pc \in {"prepare", "createPlan", "startTest"} => suite.status = "none"

(* A response that never reached the library leaves its trace: a negative  *)
(* test demands a 4xx, finds none and logs that.                           *)
Missing4xx == [src |-> StatusIs4xx, result |-> "FAILURE"]

UnreadIsTold ==
  config.expect = "reject" /\ "unread" \in verdicts =>
    \/ Missing4xx \in suite.log
    \/ post.stage = "replied" /\ post.says # 400

(* The records are what the library said, until the gate drains them.      *)
Tell(ok, failed) ==
  /\ ok >= 1 <=> "accept" \in verdicts
  /\ failed >= 1 <=> "reject" \in verdicts \/ "unread" \in verdicts

RecordsTell ==
  pc \notin {"close", "exited"} => Tell(records.ok, records.failed)

(* Nothing has been posted or judged while there is no test, not even when  *)
(* the run ends before there is one.                                       *)
NothingYet == suite.status = "none" => post.stage = "none" /\ verdicts = {}

(* What the gate has decided.                                              *)
Judged ==
  pc \in {"close", "exited"} /\ exit # 2 =>
    /\ Ended \/ (suite.status = "none" /\ exit = 1)
    /\ exit \in {0, 1}
    /\ exit = 0 /\ report.outcome # "known-divergence" =>
         Unexcused = {} /\ verdicts = {config.expect}
    /\ exit = 0 /\ config.expect = "reject" /\ "accept" \in verdicts =>
         /\ config.divergent
         /\ Unexcused = {StatusIs4xx}
         /\ verdicts = {"accept"}
         /\ ~report.pass
    /\ exit = 1 => Unexcused # {} \/ verdicts # {config.expect}

RunInv == RunTypeOK /\ EndIsSeenLate /\ UnreadIsTold /\ RecordsTell /\ NothingYet /\ Judged

-----------------------------------------------------------------------------
LEMMA InitRun == Init => RunInv
  <1> SUFFICES ASSUME Init PROVE RunInv
    OBVIOUS
  <1>1. RunTypeOK
    BY DEF Init, RunTypeOK, Profile, Test, IsResponse, NoPost
  <1>2. EndIsSeenLate /\ UnreadIsTold /\ RecordsTell /\ NothingYet /\ Judged
    BY DEF Init, EndIsSeenLate, UnreadIsTold, RecordsTell, NothingYet, Judged, Ended, Terminal, NoAnswer, NoPost, Tell
  <1> QED BY <1>1, <1>2 DEF RunInv

LEMMA Missing4xxCounts == Missing4xx \in suite.log => StatusIs4xx \in Unexcused
  BY HarnessAssumption DEF Missing4xx, Malformed, Unexcused, Blocking

LEMMA BlockingGrows ==
  ASSUME suite.log \subseteq suite'.log
  PROVE  Unexcused \subseteq Unexcused'
  BY DEF Unexcused, Blocking

(* The steps of the orchestrator that leave the test alone: they go on     *)
(* with what they know, or they throw.                                     *)
LEMMA GoesOn ==
  ASSUME RunInv,
         pc \notin {"close", "exited"}, pc' \notin {"close", "exited"},
         UNCHANGED <<config, suite, post, records, verdicts>>,
         answer'.status # None /\ answer'.status \in Terminal => Ended,
         pc' \in {"getTestLog", "gate"} => Ended,
         pc' = "gate" => log' = suite.log,
         pc' \in {"prepare", "createPlan", "startTest"} => suite.status = "none"
  PROVE  RunInv'
  <1>1. RunTypeOK' /\ UnreadIsTold' /\ RecordsTell' /\ NothingYet' /\ Judged'
    BY DEF RunInv, RunTypeOK, UnreadIsTold, RecordsTell, Tell, NothingYet, Judged
  <1>2. EndIsSeenLate'
    BY DEF RunInv, EndIsSeenLate, Ended
  <1> QED BY <1>1, <1>2 DEF RunInv

(* Starting the test and triggering the wallet change it, but not its log. *)
LEMMA BeforeTheEnd ==
  ASSUME RunInv, UNCHANGED <<config, post, records, verdicts>>,
         pc \in {"startTest", "trigger"},
         pc' \in {"pollUntilWaiting", "pollUntilFinished"}, answer'.status = None,
         suite' \in Test, suite'.log = suite.log, Ended' => Ended,
         suite'.status = "none" => suite.status = "none"
  PROVE  RunInv'
  BY DEF RunInv, RunTypeOK, EndIsSeenLate, UnreadIsTold, RecordsTell, Tell, NothingYet, Judged

LEMMA Throws ==
  ASSUME RunInv, Throw,
         UNCHANGED <<config, answer, suite, post, records, verdicts>>
  PROVE  RunInv'
  <1>1. RunTypeOK' /\ UnreadIsTold' /\ RecordsTell' /\ NothingYet' /\ Judged'
    BY DEF RunInv, RunTypeOK, UnreadIsTold, RecordsTell, Tell, NothingYet, Judged, Throw
  <1>2. EndIsSeenLate'
    BY DEF RunInv, EndIsSeenLate, Ended, Throw
  <1> QED BY <1>1, <1>2 DEF RunInv

(* A step of the test that ends nothing it should not, and that logs what  *)
(* it should.                                                              *)
LEMMA TestStep ==
  ASSUME RunInv,
         UNCHANGED <<config, runVars, records, verdicts>>,
         suite' \in Test, IsResponse(post'),
         suite'.status = "none" <=> suite.status = "none",
         Ended => UNCHANGED suite,
         suite.status = "none" => UNCHANGED <<suite, post>>,
         Ended' => post'.stage = "none",
         suite.log \subseteq suite'.log,
         \/ post.stage # "replied"
         \/ post' = post
         \/ config.expect = "reject" /\ post.says # 400 => Missing4xx \in suite'.log
  PROVE  RunInv'
  <1> USE DEF runVars
  <1>1. RunTypeOK' /\ RecordsTell' /\ NothingYet'
    BY DEF RunInv, RunTypeOK, RecordsTell, Tell, NothingYet
  <1>2. EndIsSeenLate'
    BY DEF RunInv, EndIsSeenLate, Ended
  <1>3. UnreadIsTold'
    BY DEF RunInv, UnreadIsTold
  <1>4. Judged'
    BY DEF RunInv, Judged, Ended, Unexcused, Blocking
  <1> QED BY <1>1, <1>2, <1>3, <1>4 DEF RunInv

(* A step of the handler: it goes on to the library, or it answers and     *)
(* records what the library said.                                          *)
LEMMA HandlerStep ==
  ASSUME RunInv, UNCHANGED <<config, runVars, suite>>,
         post.stage \in {"arrived", "verifying"}, IsResponse(post'),
         \/ UNCHANGED <<records, verdicts>>
         \/ \E verdict \in {"accept", "reject", "unread"} :
              /\ verdicts' = verdicts \cup {verdict}
              /\ records' = IF verdict = "accept" THEN [records EXCEPT !.ok = @ + 1]
                                                 ELSE [records EXCEPT !.failed = @ + 1]
              /\ verdict = "unread" => post'.stage = "replied" /\ post'.says # 400
  PROVE  RunInv'
  <1> USE DEF runVars
  <1>1. ~Ended /\ suite.status # "none"
    BY DEF RunInv, EndIsSeenLate, NothingYet
  <1>2. RunTypeOK' /\ NothingYet'
    BY <1>1 DEF RunInv, RunTypeOK, NothingYet
  <1>3. EndIsSeenLate'
    BY <1>1 DEF RunInv, EndIsSeenLate, Ended
  <1>4. RecordsTell'
    BY DEF RunInv, RunTypeOK, RecordsTell, Tell
  <1>5. UnreadIsTold'
    BY DEF RunInv, UnreadIsTold
  <1>6. Judged'
    BY <1>1 DEF RunInv, Judged, Ended
  <1> QED BY <1>2, <1>3, <1>4, <1>5, <1>6 DEF RunInv

(* The gate: the evidence it demands is that the library said nothing but  *)
(* what the profile expects, as long as no failure stands in the log.      *)
LEMMA GateStep == RunInv /\ Gate => RunInv'
  <1> SUFFICES ASSUME RunInv, Gate PROVE RunInv'
    OBVIOUS
  <1>1. /\ pc = "gate" /\ Ended /\ log = suite.log
        /\ Tell(records.ok, records.failed)
        /\ records.ok \in Nat /\ records.failed \in Nat
        /\ verdicts \subseteq {"accept", "reject", "unread"}
        /\ config.expect \in {"accept", "reject"}
    BY DEF Gate, RunInv, RunTypeOK, EndIsSeenLate, RecordsTell, Profile
  <1>2. CASE CannotCategorise
    BY <1>2, Throws DEF Gate
  <1>3. CASE ~CannotCategorise
    <2>1. /\ config' = config /\ answer' = answer /\ log' = log
          /\ suite' = suite /\ post' = post /\ verdicts' = verdicts
          /\ pc' = "close"
          /\ records' = [ok |-> 0, failed |-> 0]
          /\ report' = Verdict
          /\ exit' = IF Verdict.pass \/ ExpectedDivergence THEN 0 ELSE 1
      BY <1>3 DEF Gate
    <2>2. RunTypeOK' /\ NothingYet'
      BY <2>1 DEF RunInv, RunTypeOK, NothingYet
    <2>3. EndIsSeenLate' /\ UnreadIsTold' /\ RecordsTell'
      BY <2>1 DEF RunInv, EndIsSeenLate, UnreadIsTold, RecordsTell, Ended
    <2>4. Unexcused' = Unexcused /\ Unexcused = Blocking(log)
      BY <1>1, <2>1 DEF Unexcused, Blocking
    <2>5. Blocking(log) = {} => (EvidenceOk <=> verdicts = {config.expect})
      <3> SUFFICES ASSUME Blocking(log) = {} PROVE EvidenceOk <=> verdicts = {config.expect}
        OBVIOUS
      <3>1. config.expect = "reject" => "unread" \notin verdicts
        BY <1>1, <2>4, Missing4xxCounts DEF RunInv, EndIsSeenLate, UnreadIsTold
      <3>2. CASE config.expect = "accept"
        <4>1. EvidenceOk <=> /\ "accept" \in verdicts
                             /\ "reject" \notin verdicts /\ "unread" \notin verdicts
          BY <1>1, <3>2 DEF EvidenceOk, Tell
        <4> QED BY <1>1, <3>2, <4>1
      <3>3. CASE config.expect = "reject"
        <4>1. EvidenceOk <=> "reject" \in verdicts /\ "accept" \notin verdicts
          BY <1>1, <3>1, <3>3 DEF EvidenceOk, Tell
        <4> QED BY <1>1, <3>1, <3>3, <4>1
      <3> QED BY <1>1, <3>2, <3>3
    <2>6. ExpectedDivergence =>
            config.divergent /\ Unexcused = {StatusIs4xx} /\ verdicts = {"accept"}
      <3> SUFFICES ASSUME ExpectedDivergence
                   PROVE  config.divergent /\ Unexcused = {StatusIs4xx} /\ verdicts = {"accept"}
        OBVIOUS
      <3>1. /\ "accept" \in verdicts
            /\ "reject" \notin verdicts /\ "unread" \notin verdicts
        BY <1>1 DEF ExpectedDivergence, Tell
      <3>2. config.divergent /\ Unexcused = {StatusIs4xx}
        BY <2>4 DEF ExpectedDivergence
      <3> QED BY <1>1, <3>1, <3>2
    <2>10. Ended' /\ config'.expect = config.expect
      BY <1>1, <2>1 DEF Ended
    <2>7. CASE ExpectedDivergence
      <3>1. report' = [pass |-> FALSE, outcome |-> "known-divergence"] /\ exit' = 0
        BY <2>1, <2>7 DEF Verdict
      <3>2. report'.outcome = "known-divergence" /\ ~report'.pass
        BY <3>1
      <3>3. config'.divergent /\ Unexcused' = {StatusIs4xx} /\ verdicts' = {"accept"}
        BY <2>1, <2>4, <2>6, <2>7
      <3>4. exit' \in {0, 1} /\ exit' # 1 /\ exit' # 2
        BY <3>1
      <3>5. Judged'
        BY <2>10, <3>2, <3>3, <3>4 DEF Judged
      <3> QED BY <2>2, <2>3, <3>5 DEF RunInv
    <2>8. CASE ~ExpectedDivergence /\ Blocking(log) = {} /\ EvidenceOk
      <3>1. Verdict.pass
        BY <2>8 DEF Verdict
      <3>2. exit' = 0
        BY <2>1, <3>1
      <3>3. Unexcused' = {} /\ verdicts' = {config'.expect}
        BY <2>1, <2>4, <2>5, <2>8, <2>10
      <3>4. ~(config'.expect = "reject" /\ "accept" \in verdicts')
        BY <3>3
      <3>5. exit' \in {0, 1} /\ exit' # 1 /\ exit' # 2
        BY <3>2
      <3>6. Judged'
        BY <2>10, <3>3, <3>4, <3>5 DEF Judged
      <3> QED BY <2>2, <2>3, <3>6 DEF RunInv
    <2>9. CASE ~ExpectedDivergence /\ ~(Blocking(log) = {} /\ EvidenceOk)
      <3>1. ~Verdict.pass
        BY <2>9 DEF Verdict
      <3>2. exit' = 1
        BY <2>1, <2>9, <3>1
      <3>3. Unexcused' # {} \/ verdicts' # {config'.expect}
        BY <2>1, <2>4, <2>5, <2>9, <2>10
      <3> QED BY <2>2, <2>3, <2>10, <3>2, <3>3 DEF Judged, RunInv
    <2> QED BY <2>7, <2>8, <2>9
  <1> QED BY <1>2, <1>3

LEMMA NextRun == RunInv /\ [Next]_vars => RunInv'
  <1> SUFFICES ASSUME RunInv, [Next]_vars PROVE RunInv'
    OBVIOUS
  <1>1. /\ config \in Profile /\ suite \in Test /\ IsResponse(post)
        /\ records \in [ok : Nat, failed : Nat]
        /\ Ended => post.stage = "none"
        /\ answer.status # None /\ answer.status \in Terminal => Ended
        /\ pc \in {"getTestLog", "gate"} => Ended
    BY DEF RunInv, RunTypeOK, EndIsSeenLate
  <1>2. CASE CreatePlan
    <2>1. CASE pc' = "startTest" /\ UNCHANGED <<config, suite, post, records, verdicts, answer>>
      <3>1. pc = "createPlan" /\ suite.status = "none"
        BY <1>2 DEF CreatePlan, RunInv, EndIsSeenLate
      <3>2. answer'.status # None /\ answer'.status \in Terminal => Ended
        BY <1>1, <2>1
      <3> QED BY <2>1, <3>1, <3>2, GoesOn
    <2> QED BY <1>2, <2>1, Throws DEF CreatePlan
  <1>3. CASE StartTest
    <2>1. CASE /\ Enter("pollUntilWaiting", WaitingTimeout)
               /\ suite' = [suite EXCEPT !.status = "CREATED"]
      <3>1. /\ UNCHANGED <<config, post, records, verdicts>> /\ pc = "startTest"
            /\ suite'.log = suite.log /\ suite' \in Test /\ suite'.status = "CREATED"
            /\ pc' = "pollUntilWaiting" /\ answer'.status = None
        BY <1>1, <1>3, <2>1 DEF StartTest, Enter, NoAnswer, Test
      <3> QED BY <3>1, BeforeTheEnd DEF Ended, Terminal
    <2> QED BY <1>1, <1>3, <2>1, Throws DEF StartTest
  <1>4. CASE AskStatus
    BY <1>1, <1>4, GoesOn, Throws DEF AskStatus, Polls, NoAnswer
  <1>5. CASE FetchStatus
    <2>1. CASE answer' = [answer EXCEPT !.status = suite.status] /\ pc' = pc
      <3>1. answer'.status # None /\ answer'.status \in Terminal => Ended
        BY <2>1 DEF Ended
      <3> QED BY <1>1, <1>5, <2>1, <3>1, GoesOn DEF FetchStatus, Polls
    <2> QED BY <1>5, <2>1, Throws DEF FetchStatus, Polls
  <1>6. CASE FetchExposed
    <2>1. CASE answer' = [answer EXCEPT !.endpoint = suite.endpoint] /\ pc' = pc
      <3>1. answer'.status = answer.status
        BY <2>1
      <3> QED BY <1>1, <1>6, <2>1, <3>1, GoesOn DEF FetchExposed, Polls
    <2> QED BY <1>6, <2>1, Throws DEF FetchExposed, Polls
  <1>7. CASE JudgeWaiting
    BY <1>1, <1>7, GoesOn, Throws DEF JudgeWaiting, Answered, Sleep, NoAnswer
  <1>8. CASE TriggerWallet
    <2>1. /\ UNCHANGED <<config, post, records, verdicts>> /\ pc = "trigger"
          /\ suite'.log = suite.log /\ suite' \in Test /\ suite'.status = suite.status
          /\ pc' = "pollUntilFinished" /\ answer'.status = None
      BY <1>1, <1>8 DEF TriggerWallet, Enter, NoAnswer, Test
    <2> QED BY <2>1, BeforeTheEnd DEF Ended
  <1>9. CASE JudgeFinished
    BY <1>1, <1>9, GoesOn DEF JudgeFinished, Answered, Sleep, NoAnswer
  <1>10. CASE GetTestLog
    BY <1>1, <1>10, GoesOn, Throws DEF GetTestLog
  <1>11. CASE Gate
    BY <1>11, GateStep
  <1>12. CASE Close
    BY <1>12 DEF Close, RunInv, RunTypeOK, EndIsSeenLate, UnreadIsTold, RecordsTell, NothingYet,
                 Judged, Ended, Unexcused, Blocking
  <1>13. CASE Decrypt
    <2>1. CASE post.says = "foreign"
      <3>1. /\ verdicts' = verdicts \cup {"unread"}
            /\ records' = [records EXCEPT !.failed = @ + 1]
            /\ post' = [post EXCEPT !.stage = "replied", !.says = 500]
        BY <1>13, <2>1 DEF Decrypt, Reply, PhaseOneReply
      <3>2. IsResponse(post') /\ post'.stage = "replied" /\ post'.says # 400
        <4>1. post' = [stage |-> "replied", says |-> 500]
          BY <1>1, <3>1 DEF IsResponse
        <4> QED BY <4>1 DEF IsResponse
      <3>3. post.stage \in {"arrived", "verifying"} /\ UNCHANGED <<config, runVars, suite>>
        BY <1>13 DEF Decrypt
      <3>4. \E verdict \in {"accept", "reject", "unread"} :
              /\ verdicts' = verdicts \cup {verdict}
              /\ records' = IF verdict = "accept" THEN [records EXCEPT !.ok = @ + 1]
                                                 ELSE [records EXCEPT !.failed = @ + 1]
              /\ verdict = "unread" => post'.stage = "replied" /\ post'.says # 400
        <4>1. "unread" # "accept"
          OBVIOUS
        <4> WITNESS "unread" \in {"accept", "reject", "unread"}
        <4> QED BY <3>1, <3>2, <4>1
      <3> QED BY <3>2, <3>3, <3>4, HandlerStep
    <2>2. CASE post.says # "foreign"
      BY <1>1, <1>13, <2>2, HandlerStep DEF Decrypt, IsResponse
    <2> QED BY <2>1, <2>2
  <1>14. CASE Verify
    BY <1>1, <1>14, HandlerStep DEF Verify, Reply, Recorded, IsResponse
  <1>15. CASE SuiteExposes
    BY <1>1, <1>15, TestStep DEF SuiteExposes, Test, Ended, Terminal
  <1>16. CASE SuiteWaits
    BY <1>1, <1>16, TestStep DEF SuiteWaits, Test, Ended, Terminal
  <1>17. CASE SuiteRuns
    BY <1>1, <1>17, TestStep DEF SuiteRuns, Test, Ended, Terminal
  <1>18. CASE SuitePosts
    BY <1>1, <1>18, TestStep DEF SuitePosts, Test, IsResponse, NoPost, Ended, Terminal
  <1>19. CASE SuiteHears
    <2>1. /\ UNCHANGED <<config, runVars, records, verdicts>>
          /\ post.stage = "replied" /\ IsResponse(post')
      BY <1>19 DEF SuiteHears, IsResponse, NoPost
    <2>2. suite' \in Test /\ suite.log \subseteq suite'.log /\ suite'.status = suite.status
      BY <1>1, <1>19, HarnessAssumption DEF SuiteHears, Test, Failures
    <2>3. config.expect = "reject" /\ post.says # 400 => Missing4xx \in suite'.log
      BY <1>1, <1>19 DEF SuiteHears, Test, Missing4xx
    <2>4. ~Ended /\ ~Ended'
      BY <1>1, <2>1, <2>2 DEF Ended
    <2>5. suite.status # "none" /\ suite'.status # "none"
      BY <2>1, <2>2 DEF RunInv, NothingYet
    <2> QED BY <2>1, <2>2, <2>3, <2>4, <2>5, TestStep
  <1>20. CASE SuiteLogs
    BY <1>1, <1>20, TestStep DEF SuiteLogs, Test, IsResponse, NoPost, Ended, Terminal
  <1>21. CASE SuiteStops
    <2>1. /\ UNCHANGED <<config, runVars, records, verdicts, post>>
          /\ post.stage = "none"
          /\ suite.status \in {"CREATED", "WAITING", "RUNNING"}
      BY <1>21 DEF SuiteStops, NoPost
    <2>2. /\ suite' \in Test /\ suite.log \subseteq suite'.log
          /\ suite'.status \in {"FINISHED", "INTERRUPTED"}
      <3>1. CASE suite' = [suite EXCEPT !.status = "FINISHED"]
        BY <1>1, <3>1 DEF Test
      <3>2. ASSUME NEW why \in SUBSET Failures,
                   suite' = [suite EXCEPT !.status = "INTERRUPTED", !.log = @ \cup why]
            PROVE  /\ suite' \in Test /\ suite.log \subseteq suite'.log
                   /\ suite'.status \in {"FINISHED", "INTERRUPTED"}
        BY <1>1, <3>2 DEF Test
      <3> QED BY <1>21, <3>1, <3>2 DEF SuiteStops
    <2>3. ~Ended
      BY <2>1 DEF Ended, Terminal
    <2> QED BY <1>1, <2>1, <2>2, <2>3, TestStep
  <1>22. CASE Tick \/ UNCHANGED vars
    <2>1. UNCHANGED <<config, pc, answer, log, report, exit, suite, post, records, verdicts>>
      BY <1>22 DEF Tick, vars, runVars
    <2>2. RunTypeOK' /\ EndIsSeenLate' /\ UnreadIsTold' /\ RecordsTell' /\ NothingYet'
      BY <2>1 DEF RunInv, RunTypeOK, EndIsSeenLate, UnreadIsTold, RecordsTell, Tell, NothingYet, Ended
    <2>3. Judged'
      BY <2>1 DEF RunInv, Judged, Ended, Unexcused, Blocking
    <2> QED BY <2>2, <2>3 DEF RunInv
  <1>23. CASE Prepare
    <2>1. /\ pc = "prepare" /\ suite.status = "none"
          /\ UNCHANGED <<config, answer, log, report, suite, post, records, verdicts>>
      BY <1>23 DEF Prepare, RunInv, EndIsSeenLate
    <2>2. CASE pc' = "createPlan"
      BY <1>1, <2>1, <2>2, GoesOn
    <2>3. CASE pc' = "exited" /\ exit' \in {1, 2}
      <3>1. RunTypeOK' /\ EndIsSeenLate' /\ UnreadIsTold' /\ RecordsTell' /\ NothingYet'
        BY <2>1, <2>3 DEF RunInv, RunTypeOK, EndIsSeenLate, UnreadIsTold, RecordsTell, NothingYet, Ended
      <3>2. Judged'
        BY <2>1, <2>3 DEF RunInv, NothingYet, Judged
      <3> QED BY <3>1, <3>2 DEF RunInv
    <2> QED BY <1>23, <2>2, <2>3 DEF Prepare
  <1> QED
    BY <1>2, <1>3, <1>4, <1>5, <1>6, <1>7, <1>8, <1>9, <1>10, <1>11, <1>12, <1>13, <1>14,
       <1>15, <1>16, <1>17, <1>18, <1>19, <1>20, <1>21, <1>22, <1>23
    DEF Next, Orchestrator, Handler, Suite

LEMMA RunHolds == Spec => []RunInv
  BY InitRun, NextRun, PTL DEF Spec

(* A run that is green, and not for a documented divergence, was earned:   *)
(* the suite found nothing, and the library was asked and said only what   *)
(* the profile expects.                                                    *)
THEOREM GreenIsEarnedCorrect == Spec => []GreenIsEarned
  <1>1. RunInv => GreenIsEarned
    BY DEF RunInv, Judged, GreenIsEarned
  <1> QED BY <1>1, RunHolds, PTL

(* The exception for a documented divergence excuses that one check only.  *)
THEOREM DivergenceIsNarrowCorrect == Spec => []DivergenceIsNarrow
  <1>1. RunInv => DivergenceIsNarrow
    BY DEF RunInv, Judged, DivergenceIsNarrow
  <1> QED BY <1>1, RunHolds, PTL

(* A run that fails has a reason to.                                       *)
THEOREM RedIsDeservedCorrect == Spec => []RedIsDeserved
  <1>1. RunInv => RedIsDeserved
    BY DEF RunInv, Judged, RedIsDeserved
  <1> QED BY <1>1, RunHolds, PTL
=============================================================================
