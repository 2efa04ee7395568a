------------------------- MODULE PocVerifier_proofs -------------------------
(***************************************************************************)
(* Theorems about the server and the page together, for any number of      *)
(* sessions, posts and overlapping fetches.                                *)
(***************************************************************************)
EXTENDS PocVerifier, VerifierServer_proofs

(* A step of the page is a step of the server or leaves it alone.          *)
LEMMA ServerSteps ==
  ASSUME PocTypeOK, [PocNext]_allVars
  PROVE  [Next]_vars
  <1>1. \A i \in Fetches : polls[i].state \in States
    BY DEF PocTypeOK, BrowserTypeOK, Fetch
  <1>2. ASSUME NEW s \in States, NEW lenient \in BOOLEAN, ClickRequest(s, lenient)
        PROVE  Next
    BY <1>2 DEF ClickRequest, Next
  <1>3. ASSUME NEW i \in Fetches, ServePoll(i)
        PROVE  Next
    BY <1>1, <1>3 DEF ServePoll, Next
  <1>4. CASE ServerStep
    BY <1>4 DEF ServerStep, Next
  <1>5. CASE UNCHANGED vars
    BY <1>5
  <1>6. CASE PocNext
    BY <1>2, <1>3, <1>4, <1>5, <1>6
    DEF PocNext, ReceiveRequest, LoseRequest, PollTimer, ReceivePoll, LosePoll
  <1> QED BY <1>5, <1>6 DEF allVars

(* What each step of the page does to the page.                            *)
LEMMA PageSteps ==
  ASSUME PocNext
  PROVE  \/ \E s \in States, lenient \in BOOLEAN : ClickRequest(s, lenient)
         \/ \E s \in States : ReceiveRequest(s)
         \/ \E s \in States : LoseRequest(s)
         \/ \E i \in Fetches : PollTimer(i)
         \/ \E i \in Fetches : ServePoll(i)
         \/ \E i \in Fetches : ReceivePoll(i)
         \/ \E i \in Fetches : LosePoll(i)
         \/ UNCHANGED browserVars
  BY DEF PocNext, ServerStep

-----------------------------------------------------------------------------
LEMMA InitPocType == PocInit => PocTypeOK
  <1> SUFFICES ASSUME PocInit PROVE BrowserTypeOK
    BY InitType DEF PocInit, PocTypeOK
  <1>1. (CHOOSE s \in States : TRUE) \in States
    BY SetsAssumption
  <1> QED BY <1>1 DEF PocInit, BrowserTypeOK, Fetch, Answers, Statuses

LEMMA NextPocType == PocTypeOK /\ [PocNext]_allVars => PocTypeOK'
  <1> SUFFICES ASSUME PocTypeOK, [PocNext]_allVars PROVE BrowserTypeOK'
    BY ServerSteps, NextType DEF PocTypeOK
  <1> USE DEF BrowserTypeOK
  <1>2. BrowserTypeOK
    BY DEF PocTypeOK
  <1>11. ASSUME NEW i \in Fetches, NEW s \in States, SendPoll(i, s)
         PROVE  polls' \in [Fetches -> Fetch]
    <2>1. polls[i] \in Fetch
      BY <1>2
    <2>2. [polls[i] EXCEPT !.pc = "sent", !.state = s] \in Fetch
      BY <2>1 DEF Fetch
    <2> QED BY <1>2, <1>11, <2>1, <2>2 DEF SendPoll
  <1>3. CASE \E s \in States, lenient \in BOOLEAN : ClickRequest(s, lenient)
    BY <1>2, <1>3 DEF ClickRequest
  <1>4. CASE \E s \in States : ReceiveRequest(s)
    BY <1>2, <1>4, <1>11 DEF ReceiveRequest
  <1>5. CASE \E s \in States : LoseRequest(s)
    BY <1>2, <1>5 DEF LoseRequest
  <1>6. CASE \E i \in Fetches : PollTimer(i)
    BY <1>2, <1>6, <1>11 DEF PollTimer
  <1>7. CASE \E i \in Fetches : ServePoll(i)
    <2> PICK i \in Fetches : ServePoll(i)
      BY <1>7
    <2>1. polls[i].state \in States
      BY <1>2 DEF Fetch
    <2>2. PollAnswer(polls[i].state) \in Answers
      BY <2>1 DEF PocTypeOK, TypeOK, PollAnswer, Usable, Held, Session, Answers
    <2> QED BY <1>2, <2>2 DEF ServePoll, Fetch
  <1>8. CASE \E i \in Fetches : ReceivePoll(i)
    BY <1>2, <1>8 DEF ReceivePoll, Fetch
  <1>9. CASE \E i \in Fetches : LosePoll(i)
    BY <1>2, <1>9 DEF LosePoll, Fetch
  <1>10. CASE UNCHANGED browserVars
    BY <1>2, <1>10 DEF browserVars
  <1> QED
    BY <1>3, <1>4, <1>5, <1>6, <1>7, <1>8, <1>9, <1>10, PageSteps DEF allVars

(* Every variable of the server and of the page keeps its type.            *)
THEOREM PocTypeCorrect == PocSpec => []PocTypeOK
  BY InitPocType, NextPocType, PTL DEF PocSpec

(* The server keeps its one-shot invariant whatever the page does.         *)
LEMMA OneShotHolds == PocSpec => []OneShotInv
  <1>1. PocInit => OneShotInv
    BY InitOneShot DEF PocInit
  <1>2. PocTypeOK /\ OneShotInv /\ [PocNext]_allVars => OneShotInv'
    BY ServerSteps, NextOneShot DEF PocTypeOK
  <1> QED BY <1>1, <1>2, PocTypeCorrect, PTL DEF PocSpec

-----------------------------------------------------------------------------
LEMMA NextQrIsWatched == PocTypeOK /\ QrIsWatched /\ [PocNext]_allVars => QrIsWatched'
  <1> SUFFICES ASSUME PocTypeOK, QrIsWatched, [PocNext]_allVars PROVE QrIsWatched'
    OBVIOUS
  <1> USE DEF QrIsWatched
  <1>1. CASE UNCHANGED <<panel, polling>>
    BY <1>1
  <1>2. CASE \E s \in States, lenient \in BOOLEAN : ClickRequest(s, lenient)
    BY <1>2 DEF ClickRequest
  <1>3. CASE \E s \in States : ReceiveRequest(s)
    BY <1>3, NoStateAssumption DEF ReceiveRequest
  <1>4. CASE \E i \in Fetches : ReceivePoll(i)
    BY <1>1, <1>4, NoStateAssumption DEF ReceivePoll, PocTypeOK, BrowserTypeOK, Fetch
  <1> QED
    BY <1>1, <1>2, <1>3, <1>4, PageSteps
    DEF LoseRequest, PollTimer, ServePoll, LosePoll, browserVars, allVars

(* A QR code is on the screen exactly while its session is being polled.   *)
THEOREM QrIsWatchedCorrect == PocSpec => []QrIsWatched
  <1>1. PocInit => QrIsWatched
    BY DEF PocInit, QrIsWatched
  <1> QED BY <1>1, PocTypeCorrect, NextQrIsWatched, PTL DEF PocSpec

-----------------------------------------------------------------------------
(* A verdict on its way to the page, or on its screen, is on record.       *)
OnRecord(s, verdict) == \E e \in ledger[s] : e.verdict = verdict

Verdicts == {"done", "failed"}

PagesVerdictIsOnRecord ==
  /\ \A i \in Fetches :
       polls[i].pc = "answered" /\ polls[i].answer \in Verdicts =>
         OnRecord(polls[i].state, polls[i].answer)
  /\ shown.answer \in Verdicts => /\ shown.state \in States
                                  /\ OnRecord(shown.state, shown.answer)

LEMMA NextOnRecord ==
  PocTypeOK /\ OneShotInv /\ PagesVerdictIsOnRecord /\ [PocNext]_allVars
    => PagesVerdictIsOnRecord'
  <1> SUFFICES ASSUME PocTypeOK, OneShotInv, PagesVerdictIsOnRecord, [PocNext]_allVars
               PROVE  PagesVerdictIsOnRecord'
    OBVIOUS
  <1>1. \A s \in States : \A verdict \in Verdicts :
          OnRecord(s, verdict) => OnRecord(s, verdict)'
    BY ServerSteps, LastingStep DEF PocTypeOK, OnRecord
  <1>2. polls \in [Fetches -> Fetch] /\ \A i \in Fetches : polls[i].state \in States
    BY DEF PocTypeOK, BrowserTypeOK, Fetch
  <1>3. ASSUME shown' = shown \/ /\ shown'.state \in States
                                 /\ shown'.answer \in Verdicts =>
                                      OnRecord(shown'.state, shown'.answer),
               \A i \in Fetches : polls'[i].pc = "answered" => polls'[i] = polls[i]
        PROVE  PagesVerdictIsOnRecord'
    BY <1>1, <1>2, <1>3 DEF PagesVerdictIsOnRecord
  <1>4. CASE \E s \in States, lenient \in BOOLEAN : ClickRequest(s, lenient)
    BY <1>3, <1>4 DEF ClickRequest
  <1>5. CASE \E s \in States : ReceiveRequest(s)
    BY <1>2, <1>3, <1>5 DEF ReceiveRequest, SendPoll
  <1>6. CASE \E s \in States : LoseRequest(s)
    BY <1>3, <1>6 DEF LoseRequest
  <1>7. CASE \E i \in Fetches : PollTimer(i)
    BY <1>2, <1>3, <1>7 DEF PollTimer, SendPoll
  <1>8. CASE \E i \in Fetches : ServePoll(i)
    <2> PICK i \in Fetches : ServePoll(i)
      BY <1>8
    <2> DEFINE s == polls[i].state
    <2>1. /\ s \in States
          /\ polls'[i].state = s /\ polls'[i].answer = PollAnswer(s)
          /\ \A j \in Fetches \ {i} : polls'[j] = polls[j]
          /\ shown' = shown /\ ledger' = ledger
      BY <1>2 DEF ServePoll, PollStatus, Fetch
    <2>2. PollAnswer(s) \in Verdicts => OnRecord(s, PollAnswer(s))
      BY <2>1 DEF PollAnswer, Verdicts, OnRecord, OneShotInv, SettledIsRecorded
    <2> HIDE DEF s
    <2> QED BY <2>1, <2>2, <1>2 DEF PagesVerdictIsOnRecord, OnRecord
  <1>9. CASE \E i \in Fetches : ReceivePoll(i)
    <2> PICK i \in Fetches : ReceivePoll(i)
      BY <1>9
    <2>1. \A j \in Fetches : polls'[j].pc = "answered" => polls'[j] = polls[j]
      BY <1>2 DEF ReceivePoll
    <2>2. shown' = shown \/ shown' = [state |-> polls[i].state, answer |-> polls[i].answer]
      BY DEF ReceivePoll
    <2>3. polls[i].answer \in Verdicts => OnRecord(polls[i].state, polls[i].answer)
      BY DEF ReceivePoll, PagesVerdictIsOnRecord
    <2> QED BY <1>2, <1>3, <2>1, <2>2, <2>3
  <1>10. CASE \E i \in Fetches : LosePoll(i)
    BY <1>2, <1>3, <1>10 DEF LosePoll
  <1>11. CASE UNCHANGED browserVars
    BY <1>3, <1>11 DEF browserVars
  <1> QED
    BY <1>4, <1>5, <1>6, <1>7, <1>8, <1>9, <1>10, <1>11, PageSteps DEF allVars

LEMMA OnRecordHolds == PocSpec => []PagesVerdictIsOnRecord
  <1>1. PocInit => PagesVerdictIsOnRecord
    BY DEF PocInit, PagesVerdictIsOnRecord, Verdicts
  <1> QED
    BY <1>1, PocTypeCorrect, OneShotHolds, NextOnRecord, PTL DEF PocSpec

(* What the page shows as verified was accepted for exactly that session,  *)
(* from a presentation made for it, whatever polls overtook each other.    *)
THEOREM ShownResultIsEarnedCorrect == PocSpec => []ShownResultIsEarned
  <1>1. OneShotInv /\ PagesVerdictIsOnRecord => ShownResultIsEarned
    BY DEF OneShotInv, EntriesAreAnswered, PagesVerdictIsOnRecord, OnRecord, Verdicts,
           ShownResultIsEarned
  <1> QED BY <1>1, OneShotHolds, OnRecordHolds, PTL

(* A verdict on the screen is never replaced by the opposite verdict of    *)
(* the same session: there is only one on record.                          *)
THEOREM VerdictNeverFlipsCorrect == PocSpec => VerdictNeverFlips
  <1>1. ASSUME PocTypeOK, OneShotInv, PagesVerdictIsOnRecord, PocNext,
               shown.answer \in {"done", "failed"}, shown'.state = shown.state
        PROVE  shown'.answer \in {shown.answer, "expired"}
    <2>1. CASE shown' = shown
      BY <2>1
    <2>2. CASE \E i \in Fetches : ReceivePoll(i)
      <3> PICK i \in Fetches : ReceivePoll(i)
        BY <2>2
      <3>1. CASE shown' = [state |-> polls[i].state, answer |-> polls[i].answer]
                 /\ polls[i].answer # "pending"
        <4>1. polls[i].answer \in {"done", "failed", "expired"} /\ polls[i].state = shown.state
          BY <1>1, <3>1 DEF PocTypeOK, BrowserTypeOK, Fetch, Answers, Statuses
        <4>2. polls[i].answer \in Verdicts => polls[i].answer = shown.answer
          BY <1>1, <4>1
          DEF ReceivePoll, PagesVerdictIsOnRecord, OnRecord, Verdicts, OneShotInv, OneVerdict
        <4> QED BY <3>1, <4>1, <4>2 DEF Verdicts
      <3> QED BY <2>1, <3>1 DEF ReceivePoll
    <2> QED
      BY <1>1, <2>1, <2>2, PageSteps
      DEF ClickRequest, ReceiveRequest, LoseRequest, PollTimer, ServePoll, LosePoll, browserVars
  <1>2. PocTypeOK /\ OneShotInv /\ PagesVerdictIsOnRecord /\ [PocNext]_allVars =>
          [shown.answer \in {"done", "failed"} /\ shown'.state = shown.state
             => shown'.answer \in {shown.answer, "expired"}]_allVars
    BY <1>1
  <1> QED
    BY <1>2, PocTypeCorrect, OneShotHolds, OnRecordHolds, PTL
    DEF PocSpec, VerdictNeverFlips

(* A done session was earned by a presentation made for it, in time, when  *)
(* the page drives the server as well.                                     *)
THEOREM PageDoneIsEarned == PocSpec => []DoneIsEarned
  <1>1. OneShotInv => DoneIsEarned
    BY DEF OneShotInv, EntriesAreAnswered, DoneIsEarned
  <1> QED BY <1>1, OneShotHolds, PTL

(* The page drives the server without coming between it and its promise:   *)
(* seen through the refinement mapping, the two together are still         *)
(* one-shot sessions.                                                      *)
THEOREM PageImplementsOneShot == PocSpec => OneShot!Safety
  <1>1. PocInit => Init /\ MadeForOpened
    BY DEF PocInit, Init, MadeForOpened
  <1>2. PocTypeOK /\ [PocNext]_allVars => TypeOK /\ [Next]_vars
    BY ServerSteps DEF PocTypeOK
  <1>3. PocSpec => []MadeForOpened
    BY <1>1, <1>2, PocTypeCorrect, NextMadeForOpened, PTL DEF PocSpec
  <1>4. PocSpec => [][OneShot!Next]_<<SessionViews, PresentedStates>>
    BY <1>2, <1>3, PocTypeCorrect, OneShotHolds, NextRefines, PTL DEF PocSpec
  <1> QED BY <1>1, <1>4, InitRefines, PTL DEF PocSpec, OneShot!Safety, OneShot!vars

=============================================================================
