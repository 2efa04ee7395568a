------------------------ MODULE TrustEvaluator_proofs ------------------------
(***************************************************************************)
(* Theorems about the LOTL trust store and the evaluations that share it,  *)
(* for any number of callers, countries and refreshes, any refresh         *)
(* interval, any certificates, lists and inputs.                           *)
(***************************************************************************)
EXTENDS TrustEvaluator, WellFoundedInduction, TLAPS

(* Every step but a stutter is one of these. *)
LEMMA StepCases ==
  ASSUME Next
  PROVE  \/ \E a \in Callers : ServeFresh(a)
         \/ \E a \in Callers : JoinRefresh(a)
         \/ \E a \in Callers, r \in Refreshes : StartRefresh(a, r)
         \/ \E r \in Refreshes : LotlFails(r)
         \/ \E r \in Refreshes, pointers \in SUBSET Countries :
              LotlLoads(r, pointers)
         \/ \E r \in Refreshes, c \in Countries,
               outcome \in {"loaded", "failed"} : NationalSettles(r, c, outcome)
         \/ \E r \in Refreshes : FinishRefresh(r)
         \/ Tick
  BY DEF Next, Call, LotlSettles, AnyNationalSettles

LEMMA InitType == Init => TypeOK
  BY DEF Init, TypeOK, NoSnapshot, Snapshot, Refresh, Caller, Lists

(* What a refresh leaves with its callers has the type of callers. *)
LEMMA SettleType ==
  ASSUME TypeOK, NEW r \in Refreshes, NEW outcome \in {"served", "rejected"},
         NEW answer \in Snapshot, Settle(r, outcome, answer)
  PROVE  callers' \in [Callers -> Caller]
  <1>1. ASSUME NEW a \in Callers
        PROVE  [callers[a] EXCEPT !.pc = outcome, !.answer = answer] \in Caller
    BY DEF TypeOK, Caller
  <1> QED BY <1>1 DEF Settle, TypeOK

(* What a refresh leaves with one caller. *)
LEMMA SettleCaller ==
  ASSUME TypeOK, NEW r \in Refreshes, NEW outcome, NEW answer,
         Settle(r, outcome, answer), NEW a \in Callers
  PROVE  /\ callers'[a].on = callers[a].on
         /\ callers'[a].calledAt = callers[a].calledAt
         /\ callers[a].pc = "waiting" /\ callers[a].on = r
            => callers'[a].pc = outcome /\ callers'[a].answer = answer
         /\ ~(callers[a].pc = "waiting" /\ callers[a].on = r)
            => callers'[a] = callers[a]
  <1>1. callers[a] \in Caller
    BY DEF TypeOK
  <1>2. callers'[a] = IF callers[a].pc = "waiting" /\ callers[a].on = r
                      THEN [callers[a] EXCEPT !.pc = outcome, !.answer = answer]
                      ELSE callers[a]
    BY DEF Settle
  <1> QED BY <1>1, <1>2 DEF Caller

LEMMA AskType ==
  ASSUME TypeOK, NEW a \in Callers, NEW answerNow \in BOOLEAN,
         NEW r \in Refreshes \cup {NoRefresh}, Ask(a, answerNow, r)
  PROVE  callers' \in [Callers -> Caller]
  BY DEF TypeOK, Ask, Caller, NoSnapshot, Snapshot

LEMMA NextType == TypeOK /\ [Next]_vars => TypeOK'
  <1> SUFFICES ASSUME TypeOK, [Next]_vars PROVE TypeOK'
    OBVIOUS
  <1>1. CASE \E a \in Callers : ServeFresh(a)
    BY <1>1, AskType DEF TypeOK, ServeFresh
  <1>2. CASE \E a \in Callers : JoinRefresh(a)
    BY <1>2, AskType DEF TypeOK, JoinRefresh
  <1>3. CASE \E a \in Callers, r \in Refreshes : StartRefresh(a, r)
    <2> PICK a \in Callers, r \in Refreshes : StartRefresh(a, r)
      BY <1>3
    <2>1. callers' \in [Callers -> Caller]
      BY AskType DEF StartRefresh
    <2> QED BY <2>1 DEF TypeOK, StartRefresh, Refresh
  <1>4. CASE \E r \in Refreshes : LotlFails(r)
    <2> PICK r \in Refreshes : LotlFails(r)
      BY <1>4
    <2>1. callers' \in [Callers -> Caller]
      BY SettleType DEF LotlFails, TypeOK
    <2> QED BY <2>1 DEF TypeOK, LotlFails, Refresh
  <1>5. CASE \E r \in Refreshes, pointers \in SUBSET Countries :
               LotlLoads(r, pointers)
    <2> PICK r \in Refreshes, pointers \in SUBSET Countries :
               LotlLoads(r, pointers)
      BY <1>5
    <2>1. refreshes' \in [Refreshes -> Refresh]
      BY DEF TypeOK, LotlLoads, Refresh
    <2> QED BY <2>1 DEF TypeOK, LotlLoads
  <1>6. CASE \E r \in Refreshes, c \in Countries,
                outcome \in {"loaded", "failed"} : NationalSettles(r, c, outcome)
    <2> PICK r \in Refreshes, c \in Countries, outcome \in {"loaded", "failed"} :
               NationalSettles(r, c, outcome)
      BY <1>6
    <2>1. [refreshes[r].lists EXCEPT ![c] = outcome] \in [Countries -> Lists]
      BY DEF TypeOK, Refresh, Lists
    <2>2. [refreshes[r] EXCEPT !.lists[c] = outcome] \in Refresh
      BY <2>1 DEF TypeOK, Refresh
    <2>3. refreshes' \in [Refreshes -> Refresh]
      BY <2>2 DEF TypeOK, NationalSettles
    <2> QED BY <2>3 DEF TypeOK, NationalSettles
  <1>7. CASE \E r \in Refreshes : FinishRefresh(r)
    <2> PICK r \in Refreshes : FinishRefresh(r)
      BY <1>7
    <2>1. snapshot' \in Snapshot
      BY DEF TypeOK, FinishRefresh, Snapshot, Refresh, LoadedLists, FetchedAt
    <2>2. callers' \in [Callers -> Caller]
      BY <2>1, SettleType DEF FinishRefresh
    <2> QED BY <2>1, <2>2 DEF TypeOK, FinishRefresh, Refresh
  <1>8. CASE Tick
    BY <1>8 DEF TypeOK, Tick
  <1>9. CASE UNCHANGED vars
    BY <1>9 DEF TypeOK, vars
  <1> QED
    BY <1>1, <1>2, <1>3, <1>4, <1>5, <1>6, <1>7, <1>8, <1>9, StepCases

(* Type correctness of every variable of the trust store. *)
THEOREM TypeCorrect == Spec => []TypeOK
  BY InitType, NextType, PTL DEF Spec

-----------------------------------------------------------------------------
(* Single flight. *)

LEMMA NextSingleFlight ==
  TypeOK /\ SingleFlight /\ [Next]_vars => SingleFlight'
  <1> SUFFICES ASSUME TypeOK, SingleFlight, [Next]_vars PROVE SingleFlight'
    OBVIOUS
  <1> USE TrustStoreAssumption DEF SingleFlight, Running
  <1>1. CASE \E a \in Callers : ServeFresh(a)
    BY <1>1 DEF TypeOK, ServeFresh, Ask
  <1>2. CASE \E a \in Callers : JoinRefresh(a)
    BY <1>2 DEF TypeOK, JoinRefresh, Ask
  <1>3. CASE \E a \in Callers, r \in Refreshes : StartRefresh(a, r)
    BY <1>3 DEF TypeOK, StartRefresh, Ask, Refresh
  <1>4. CASE \E r \in Refreshes : LotlFails(r)
    <2> PICK r \in Refreshes : LotlFails(r)
      BY <1>4
    <2>1. \A q \in Refreshes : ~(refreshes'[q].pc \in {"lotl", "national"})
      BY DEF TypeOK, LotlFails, Refresh
    <2>2. \A a \in Callers : callers'[a].pc # "waiting"
      BY SettleCaller DEF LotlFails
    <2> QED BY <2>1, <2>2 DEF LotlFails
  <1>5. CASE \E r \in Refreshes, pointers \in SUBSET Countries :
               LotlLoads(r, pointers)
    BY <1>5 DEF TypeOK, LotlLoads, Refresh
  <1>6. CASE \E r \in Refreshes, c \in Countries,
                outcome \in {"loaded", "failed"} : NationalSettles(r, c, outcome)
    BY <1>6 DEF TypeOK, NationalSettles, Refresh
  <1>7. CASE \E r \in Refreshes : FinishRefresh(r)
    <2> PICK r \in Refreshes : FinishRefresh(r)
      BY <1>7
    <2>1. \A q \in Refreshes : ~(refreshes'[q].pc \in {"lotl", "national"})
      BY DEF TypeOK, FinishRefresh, Refresh
    <2>2. \A a \in Callers : callers'[a].pc # "waiting"
      BY SettleCaller DEF FinishRefresh
    <2> QED BY <2>1, <2>2 DEF FinishRefresh
  <1>8. CASE Tick
    BY <1>8 DEF Tick
  <1>9. CASE UNCHANGED vars
    BY <1>9 DEF vars
  <1> QED
    BY <1>1, <1>2, <1>3, <1>4, <1>5, <1>6, <1>7, <1>8, <1>9, StepCases

(* Whatever the callers' timing, at most one refresh runs, it is the one   *)
(* inFlight promises, and every waiting caller waits for it.               *)
THEOREM SingleFlightCorrect == Spec => []SingleFlight
  <1>1. Init => SingleFlight
    BY TrustStoreAssumption DEF Init, SingleFlight, Running
  <1> QED BY <1>1, NextSingleFlight, TypeCorrect, PTL DEF Spec

-----------------------------------------------------------------------------
(* What callers are served. *)

(* A refresh that ended, well or not, stays as it ended. *)
LEMMA EndedStays ==
  ASSUME TypeOK, [Next]_vars, NEW q \in Refreshes,
         refreshes[q].pc \in {"refreshed", "failed"}
  PROVE  refreshes'[q] = refreshes[q]
  <1>1. CASE \E a \in Callers, r \in Refreshes : StartRefresh(a, r)
    BY <1>1 DEF TypeOK, StartRefresh
  <1>2. CASE \E r \in Refreshes : LotlFails(r)
    BY <1>2 DEF TypeOK, LotlFails
  <1>3. CASE \E r \in Refreshes, pointers \in SUBSET Countries :
               LotlLoads(r, pointers)
    <2> PICK r \in Refreshes, pointers \in SUBSET Countries :
               LotlLoads(r, pointers)
      BY <1>3
    <2> QED BY DEF TypeOK, LotlLoads
  <1>4. CASE \E r \in Refreshes, c \in Countries,
                outcome \in {"loaded", "failed"} : NationalSettles(r, c, outcome)
    <2> PICK r \in Refreshes, c \in Countries, outcome \in {"loaded", "failed"} :
               NationalSettles(r, c, outcome)
      BY <1>4
    <2> QED BY DEF TypeOK, NationalSettles
  <1>5. CASE \E r \in Refreshes : FinishRefresh(r)
    BY <1>5 DEF TypeOK, FinishRefresh
  <1>6. CASE UNCHANGED refreshes
    BY <1>6
  <1> QED
    BY <1>1, <1>2, <1>3, <1>4, <1>5, <1>6, StepCases
    DEF ServeFresh, JoinRefresh, Tick, vars

LEMMA WasLoadedStays ==
  ASSUME TypeOK, [Next]_vars, NEW c, WasLoaded(c)
  PROVE  WasLoaded(c)'
  BY EndedStays DEF WasLoaded

(* What FinishRefresh makes the snapshot of was loaded by that refresh. *)
LEMMA LoadedListsWereLoaded ==
  ASSUME TypeOK, NEW r \in Refreshes, FinishRefresh(r), NEW c \in LoadedLists(r)
  PROVE  WasLoaded(c)'
  <1>1. /\ refreshes'[r].pc = "refreshed"
        /\ refreshes'[r].pointers = refreshes[r].pointers
        /\ refreshes'[r].lists = refreshes[r].lists
    BY DEF TypeOK, FinishRefresh, Refresh
  <1> QED BY <1>1 DEF WasLoaded, LoadedLists

(* The strengthening: also the snapshot itself holds only loaded lists,    *)
(* for it is what later callers are served.                                *)
ServedInv ==
  /\ \A c \in snapshot.lists : WasLoaded(c)
  /\ ServedWasLoaded

LEMMA NextServed == TypeOK /\ ServedInv /\ [Next]_vars => ServedInv'
  <1> SUFFICES ASSUME TypeOK, ServedInv, [Next]_vars PROVE ServedInv'
    OBVIOUS
  <1> USE DEF ServedInv, ServedWasLoaded
  <1>1. CASE \E a \in Callers : ServeFresh(a)
    <2>1. ASSUME NEW b \in Callers, NEW c \in callers'[b].answer.lists
          PROVE  c \in snapshot.lists \/ c \in callers[b].answer.lists
      BY <1>1, <2>1 DEF TypeOK, ServeFresh, Ask
    <2> QED BY <1>1, <2>1, WasLoadedStays DEF ServeFresh
  <1>2. ASSUME NEW a \in Callers, NEW r \in Refreshes \cup {NoRefresh},
               Ask(a, FALSE, r), UNCHANGED snapshot
        PROVE  ServedInv'
    <2>1. ASSUME NEW b \in Callers, NEW c \in callers'[b].answer.lists
          PROVE  c \in callers[b].answer.lists
      BY <1>2, <2>1 DEF TypeOK, Ask, NoSnapshot
    <2> QED BY <1>2, <2>1, WasLoadedStays
  <1>3. CASE \E r \in Refreshes : LotlFails(r)
    <2> PICK r \in Refreshes : LotlFails(r)
      BY <1>3
    <2>1. ASSUME NEW b \in Callers, NEW c \in callers'[b].answer.lists
          PROVE  c \in snapshot.lists \/ c \in callers[b].answer.lists
      BY <2>1, SettleCaller DEF LotlFails
    <2> QED BY <2>1, WasLoadedStays DEF LotlFails
  <1>4. CASE \E r \in Refreshes : FinishRefresh(r)
    <2> PICK r \in Refreshes : FinishRefresh(r)
      BY <1>4
    <2>1. snapshot'.lists = LoadedLists(r)
      BY DEF FinishRefresh
    <2>2. ASSUME NEW b \in Callers, NEW c \in callers'[b].answer.lists
          PROVE  c \in LoadedLists(r) \/ c \in callers[b].answer.lists
      BY <2>2, SettleCaller DEF FinishRefresh
    <2> QED BY <2>1, <2>2, WasLoadedStays, LoadedListsWereLoaded
  <1>5. CASE UNCHANGED <<snapshot, callers>>
    BY <1>5, WasLoadedStays
  <1> QED
    BY <1>1, <1>2, <1>3, <1>4, <1>5, StepCases
    DEF TypeOK, JoinRefresh, StartRefresh, LotlLoads, NationalSettles, Tick, vars

(* Every list a caller is served was fetched and verified by some refresh  *)
(* that pointed to it.                                                     *)
THEOREM ServedWasLoadedCorrect == Spec => []ServedWasLoaded
  <1>1. Init => ServedInv
    BY DEF Init, ServedInv, ServedWasLoaded, NoSnapshot
  <1>2. ServedInv => ServedWasLoaded
    BY DEF ServedInv
  <1> QED BY <1>1, <1>2, NextServed, TypeCorrect, PTL DEF Spec

-----------------------------------------------------------------------------
(* How old what callers are served may be. *)

(* The strengthening: no caller asked in the future, so what a refresh     *)
(* that ends now makes is fresh for everyone who waited for it.            *)
AgeInv ==
  /\ \A a \in Callers : callers[a].calledAt <= now
  /\ StaleOnlyAfterFailure

LEMMA NextAge == TypeOK /\ AgeInv /\ [Next]_vars => AgeInv'
  <1> SUFFICES ASSUME TypeOK, AgeInv, [Next]_vars PROVE AgeInv'
    OBVIOUS
  <1> USE DEF AgeInv, StaleOnlyAfterFailure
  <1>a. \A a \in Callers : callers[a] \in Caller
    BY DEF TypeOK
  <1>b. ASSUME NEW b \in Callers, callers'[b] = callers[b], now' >= now, now' \in Nat
        PROVE  /\ callers'[b].calledAt <= now'
               /\ /\ callers'[b].pc = "served"
                  /\ callers'[b].answer.fetchedAt + Interval <= callers'[b].calledAt
                  => /\ callers'[b].on # NoRefresh
                     /\ refreshes'[callers'[b].on].pc = "failed"
    <2>1. callers'[b].calledAt <= now'
      BY <1>a, <1>b DEF Caller, TypeOK
    <2> SUFFICES ASSUME callers'[b].pc = "served",
                        callers'[b].answer.fetchedAt + Interval <= callers'[b].calledAt
                 PROVE  /\ callers'[b].on # NoRefresh
                        /\ refreshes'[callers'[b].on].pc = "failed"
      BY <2>1
    <2>2. callers[b].on # NoRefresh /\ refreshes[callers[b].on].pc = "failed"
      BY <1>b
    <2>3. callers[b].on \in Refreshes
      BY <1>a, <2>2 DEF Caller
    <2> QED BY <1>b, <2>2, <2>3, EndedStays
  <1>1. CASE \E a \in Callers : ServeFresh(a)
    <2> PICK a \in Callers : ServeFresh(a)
      BY <1>1
    <2>1. \A b \in Callers \ {a} : callers'[b] = callers[b]
      BY DEF ServeFresh, Ask, TypeOK
    <2>2. /\ callers'[a].calledAt = now
          /\ callers'[a].answer = snapshot
      BY DEF ServeFresh, Ask, TypeOK
    <2>3. ~(snapshot.fetchedAt + Interval <= now)
      BY TrustStoreAssumption DEF ServeFresh, IsFresh, TypeOK, Snapshot
    <2>4. now' = now /\ now \in Nat
      BY DEF ServeFresh, TypeOK
    <2> QED BY <1>b, <2>1, <2>2, <2>3, <2>4
  <1>2. ASSUME NEW a \in Callers, NEW r \in Refreshes \cup {NoRefresh},
               Ask(a, FALSE, r), UNCHANGED now
        PROVE  AgeInv'
    <2>1. \A b \in Callers \ {a} : callers'[b] = callers[b]
      BY <1>2 DEF Ask, TypeOK
    <2>2. callers'[a].calledAt = now /\ callers'[a].pc = "waiting"
      BY <1>2 DEF Ask, TypeOK
    <2>3. now' = now /\ now \in Nat
      BY <1>2 DEF TypeOK
    <2> QED BY <1>b, <2>1, <2>2, <2>3
  <1>3. CASE \E r \in Refreshes : LotlFails(r)
    <2> PICK r \in Refreshes : LotlFails(r)
      BY <1>3
    <2>1. refreshes'[r].pc = "failed"
      BY DEF LotlFails, TypeOK, Refresh
    <2>2. now' = now /\ now \in Nat
      BY DEF LotlFails, TypeOK
    <2>3. ASSUME NEW b \in Callers,
                 callers[b].pc = "waiting" /\ callers[b].on = r
          PROVE  callers'[b].on = r /\ callers'[b].calledAt = callers[b].calledAt
      BY <2>3, SettleCaller DEF LotlFails
    <2>4. \A b \in Callers : ~(callers[b].pc = "waiting" /\ callers[b].on = r)
                             => callers'[b] = callers[b]
      BY SettleCaller DEF LotlFails
    <2> QED BY TrustStoreAssumption, <1>b, <2>1, <2>2, <2>3, <2>4
  <1>4. CASE \E r \in Refreshes : FinishRefresh(r)
    <2> PICK r \in Refreshes : FinishRefresh(r)
      BY <1>4
    <2>1. now' = now /\ now \in Nat
      BY DEF FinishRefresh, TypeOK
    <2>2. ASSUME NEW b \in Callers,
                 callers[b].pc = "waiting" /\ callers[b].on = r
          PROVE  /\ callers'[b].answer.fetchedAt = now
                 /\ callers'[b].calledAt = callers[b].calledAt
      BY <2>2, SettleCaller DEF FinishRefresh, FetchedAt
    <2>3. \A b \in Callers : ~(callers[b].pc = "waiting" /\ callers[b].on = r)
                             => callers'[b] = callers[b]
      BY SettleCaller DEF FinishRefresh
    <2>4. \A b \in Callers :
            callers[b].calledAt <= now /\ ~(now + Interval <= callers[b].calledAt)
      BY <1>a, TrustStoreAssumption DEF Caller, TypeOK
    <2> QED BY <1>b, <2>1, <2>2, <2>3, <2>4
  <1>5. CASE UNCHANGED callers /\ now' \in {now, now + 1}
    <2>1. now' >= now /\ now' \in Nat
      BY <1>5 DEF TypeOK
    <2> QED BY <1>b, <1>5, <2>1
  <1> QED
    BY <1>1, <1>2, <1>3, <1>4, <1>5, StepCases
    DEF TypeOK, JoinRefresh, StartRefresh, LotlLoads, NationalSettles, Tick, vars

(* A caller is served anchors that were too old when it asked only if the  *)
(* refresh it waited for could not load the LOTL.                          *)
THEOREM StaleOnlyAfterFailureCorrect == Spec => []StaleOnlyAfterFailure
  <1>1. Init => AgeInv
    BY DEF Init, AgeInv, StaleOnlyAfterFailure
  <1>2. AgeInv => StaleOnlyAfterFailure
    BY DEF AgeInv
  <1> QED BY <1>1, <1>2, NextAge, TypeCorrect, PTL DEF Spec

StepRejectsOnlyUnloaded ==
  \A a \in Callers :
    callers[a].pc = "waiting" /\ callers'[a].pc = "rejected" => ~snapshot.loaded

LEMMA RejectsOnlyUnloaded == TypeOK /\ [Next]_vars => [StepRejectsOnlyUnloaded]_vars
  <1> SUFFICES ASSUME TypeOK, Next, NEW a \in Callers, callers[a].pc = "waiting",
                      callers'[a].pc = "rejected"
               PROVE  ~snapshot.loaded
    BY DEF StepRejectsOnlyUnloaded
  <1>1. CASE \E b \in Callers : ServeFresh(b)
    BY <1>1 DEF TypeOK, ServeFresh, Ask
  <1>2. CASE \E b \in Callers : JoinRefresh(b)
    BY <1>2 DEF TypeOK, JoinRefresh, Ask
  <1>3. CASE \E b \in Callers, r \in Refreshes : StartRefresh(b, r)
    BY <1>3 DEF TypeOK, StartRefresh, Ask
  <1>4. CASE \E r \in Refreshes : LotlFails(r)
    BY <1>4, SettleCaller DEF LotlFails
  <1>5. CASE \E r \in Refreshes : FinishRefresh(r)
    BY <1>5, SettleCaller DEF FinishRefresh
  <1>6. CASE UNCHANGED callers
    BY <1>6
  <1> QED
    BY <1>1, <1>2, <1>3, <1>4, <1>5, <1>6, StepCases
    DEF LotlLoads, NationalSettles, Tick

(* A caller is rejected only by a store that was never loaded. *)
THEOREM RejectedOnlyUnloadedCorrect == Spec => RejectedOnlyUnloaded
  BY RejectsOnlyUnloaded, TypeCorrect, PTL
  DEF Spec, RejectedOnlyUnloaded, StepRejectsOnlyUnloaded

-----------------------------------------------------------------------------
(* What the stores offer.                                                  *)

(* A set of numbers that is not empty has a least one.                     *)
LEMMA LeastIs ==
  ASSUME NEW T \in SUBSET Nat, T # {}
  PROVE  Min(T) \in T /\ \A j \in T : Min(T) <= j
  <1>1. PICK i \in T : \A j \in T : ~(<<j, i>> \in OpToRel(<, Nat))
    BY WFMin, NatLessThanWellFounded, Zenon
  <1>2. \A j \in T : ~(j < i)
    BY <1>1, Zenon DEF OpToRel
  <1>3. \A j \in T : i <= j
    BY <1>2
  <1>4. \E k \in T : \A j \in T : k <= j
    BY <1>3
  <1> QED BY <1>4 DEF Min

LEMMA PickedIs ==
  ASSUME NEW S, NEW s \in Seq(S), NEW I
  PROVE  /\ Picked(s, I) \in Seq(S)
         /\ \A k \in 1..Len(Picked(s, I)) :
              \E i \in 1..Len(s) : i \in I /\ s[i] = Picked(s, I)[k]
         /\ \A i \in 1..Len(s) : i \in I =>
              \E k \in 1..Len(Picked(s, I)) : Picked(s, I)[k] = s[i]
  <1> DEFINE Step(f, i) == IF i = 0 THEN <<>>
                           ELSE IF i \in I THEN Append(f[i - 1], s[i]) ELSE f[i - 1]
             Keeps(f, n) == f = [i \in 0..n |-> Step(f, i)]
             kept == CHOOSE f : Keeps(f, Len(s))
  <1>0. Len(s) \in Nat
    OBVIOUS
  <1>1. \A n \in Nat : \E f : Keeps(f, n)
    <2> DEFINE T == {n \in Nat : ~\E f : Keeps(f, n)}
               n == Min(T)
    <2> SUFFICES ASSUME T # {} PROVE FALSE
      OBVIOUS
    <2>1. n \in T /\ \A j \in T : n <= j
      BY LeastIs
    <2> HIDE DEF n
    <2>2. CASE n = 0
      <3>1. Keeps([i \in 0..0 |-> <<>>], 0)
        OBVIOUS
      <3> QED BY <2>1, <2>2, <3>1
    <2>3. CASE n # 0
      <3>1. n - 1 \in Nat /\ n - 1 \notin T
        <4>1. n \in Nat
          BY <2>1
        <4> HIDE DEF T
        <4> QED BY <2>1, <2>3, <4>1
      <3>2. PICK f : Keeps(f, n - 1)
        BY <3>1
      <3> DEFINE g == [i \in 0..n |-> IF i = n THEN Step(f, n) ELSE f[i]]
      <3>3. ASSUME NEW i \in 0..n PROVE g[i] = Step(g, i)
        <4>1. CASE i = n
          BY <2>1, <2>3, <4>1
        <4>2. CASE i # n
          <5>1. i \in 0..(n - 1) /\ (i # 0 => i - 1 \in 0..n /\ i - 1 # n)
            BY <2>1, <4>2
          <5>2. g[i] = f[i] /\ f[i] = Step(f, i)
            BY <3>2, <4>2, <5>1
          <5> QED BY <5>1, <5>2
        <4> QED BY <4>1, <4>2
      <3> HIDE DEF Step
      <3>4. Keeps(g, n)
        BY <3>3
      <3> QED BY <2>1, <3>4
    <2> QED BY <2>2, <2>3
  <1>2. Keeps(kept, Len(s))
    BY <1>0, <1>1
  <1>3. Picked(s, I) = kept[Len(s)]
    BY DEF Picked
  <1> HIDE DEF kept
  <1> DEFINE P(n) == /\ kept[n] \in Seq(S)
                     /\ \A x : (\E k \in 1..Len(kept[n]) : kept[n][k] = x)
                               <=> \E i \in 1..n : i \in I /\ s[i] = x
  <1>4. \A n \in 0..Len(s) : P(n)
    <2> DEFINE T == {n \in 0..Len(s) : ~P(n)}
               n == Min(T)
    <2> SUFFICES ASSUME T # {} PROVE FALSE
      OBVIOUS
    <2>1. n \in T /\ \A j \in T : n <= j
      <3> HIDE DEF P
      <3>1. T \in SUBSET Nat
        BY <1>0
      <3> QED BY <3>1, LeastIs
    <2> HIDE DEF n
    <2>0. n \in 0..Len(s) /\ ~P(n) /\ \A j \in 0..Len(s) : j < n => P(j)
      <3> HIDE DEF P
      <3> QED BY <1>0, <2>1
    <2>2. n # 0
      <3>1. kept[0] = <<>>
        BY <1>0, <1>2
      <3>2. P(0)
        BY <3>1
      <3> QED BY <2>0, <3>2
    <2>3. n - 1 \in 0..Len(s) /\ P(n - 1) /\ n \in 1..Len(s) /\ s[n] \in S
      <3> HIDE DEF P
      <3> QED BY <1>0, <2>0, <2>2
    <2>4. kept[n] = IF n \in I THEN Append(kept[n - 1], s[n]) ELSE kept[n - 1]
      BY <1>0, <1>2, <2>1, <2>2
    <2> DEFINE m == kept[n - 1]
    <2>5. /\ m \in Seq(S)
          /\ \A x : (\E k \in 1..Len(m) : m[k] = x) <=> \E i \in 1..(n - 1) : i \in I /\ s[i] = x
      BY <2>3
    <2>6. \A i : i \in 1..n <=> i \in 1..(n - 1) \/ i = n
      BY <2>3
    <2> HIDE DEF m
    <2>7. CASE n \in I
      <3>1. kept[n] = Append(m, s[n])
        BY <2>4, <2>7 DEF m
      <3>2. /\ kept[n] \in Seq(S) /\ Len(kept[n]) = Len(m) + 1 /\ Len(m) \in Nat
            /\ \A k \in 1..Len(m) : kept[n][k] = m[k]
            /\ kept[n][Len(m) + 1] = s[n]
        BY <2>3, <2>5, <3>1
      <3>3. \A k : k \in 1..Len(kept[n]) <=> k \in 1..Len(m) \/ k = Len(m) + 1
        BY <3>2
      <3>4. \A x : (\E k \in 1..Len(kept[n]) : kept[n][k] = x)
                   <=> (\E k \in 1..Len(m) : m[k] = x) \/ s[n] = x
        BY <3>2, <3>3
      <3>5. P(n)
        BY <2>5, <2>6, <2>7, <3>2, <3>4
      <3> QED BY <2>0, <3>5
    <2>8. CASE n \notin I
      <3>1. kept[n] = m
        BY <2>4, <2>8 DEF m
      <3>2. P(n)
        BY <2>5, <2>6, <2>8, <3>1
      <3> QED BY <2>0, <3>2
    <2> QED BY <2>7, <2>8
  <1>5. P(Len(s))
    <2> HIDE DEF P
    <2> QED BY <1>0, <1>4
  <1> HIDE DEF Keeps
  <1> QED BY <1>3, <1>5

LEMMA LotlOffersAre ==
  ASSUME NEW hint, NEW lists
  PROVE  /\ LotlOffers(hint, lists) \in Seq(Anchor)
         /\ \A k \in 1..Len(LotlOffers(hint, lists)) :
              LET a == LotlOffers(hint, lists)[k]
              IN /\ a.country \in lists
                 /\ [cert |-> a.cert, country |-> a.country] \in Range(Services)
  <1> DEFINE anchors == [i \in 1..Len(Services) |->
                           [cert |-> Services[i].cert, source |-> "lotl",
                            country |-> Services[i].country]]
             I == {i \in 1..Len(Services) : /\ Services[i].country \in lists
                                            /\ Matches(Services[i].cert, hint)}
             offers == Picked(anchors, I)
  <1>1. /\ \A i \in 1..Len(Services) :
             /\ Services[i] \in Service
             /\ Services[i] \in Range(Services)
             /\ Services[i].cert \in Certs /\ Services[i].country \in Countries
             /\ Services[i] = [cert |-> Services[i].cert, country |-> Services[i].country]
        /\ Len(Services) \in Nat
    <2>1. Services \in Seq(Service)
      BY EvaluatorAssumption
    <2>2. DOMAIN Services = 1..Len(Services)
      BY <2>1
    <2>3. \A i \in DOMAIN Services : Services[i] \in Range(Services)
      BY DEF Range
    <2>4. \A i \in 1..Len(Services) : Services[i] \in Service
      BY <2>1
    <2>5. \A x \in Service : /\ x.cert \in Certs /\ x.country \in Countries
                              /\ x = [cert |-> x.cert, country |-> x.country]
      BY DEF Service
    <2> QED BY <2>1, <2>2, <2>3, <2>4, <2>5
  <1>2. anchors \in Seq(Anchor) /\ Len(anchors) = Len(Services)
    <2>1. \A i \in 1..Len(Services) : anchors[i] \in Anchor
      BY <1>1 DEF Anchor
    <2> QED BY <1>1, <2>1
  <1>3. LotlOffers(hint, lists) = offers
    BY DEF LotlOffers
  <1> HIDE DEF anchors, I
  <1>4. /\ offers \in Seq(Anchor)
        /\ \A k \in 1..Len(offers) :
             \E i \in 1..Len(anchors) : i \in I /\ anchors[i] = offers[k]
    BY <1>2, PickedIs
  <1> HIDE DEF offers
  <1>5. ASSUME NEW k \in 1..Len(offers)
        PROVE  /\ offers[k].country \in lists
               /\ [cert |-> offers[k].cert, country |-> offers[k].country] \in Range(Services)
    <2>1. PICK i \in 1..Len(anchors) : i \in I /\ anchors[i] = offers[k]
      BY <1>4
    <2>2. /\ offers[k].country = Services[i].country
          /\ offers[k].cert = Services[i].cert
          /\ Services[i].country \in lists
      BY <1>2, <2>1 DEF anchors, I
    <2> QED BY <1>1, <1>2, <2>1, <2>2
  <1> QED BY <1>3, <1>4, <1>5

LEMMA StaticOffersAre ==
  ASSUME NEW certs \in Statics, NEW hint
  PROVE  /\ StaticOffers(certs, hint) \in Seq(Anchor)
         /\ \A k \in 1..Len(StaticOffers(certs, hint)) :
              StaticOffers(certs, hint)[k].source = "static"
  <1> DEFINE anchors == [i \in 1..Len(certs) |->
                           [cert |-> certs[i], source |-> "static", country |-> None]]
             S == {a \in Anchor : a.source = "static"}
             keyed == {i \in 1..Len(certs) : HasKey(certs[i], hint)}
             named == {i \in 1..Len(certs) : Matches(certs[i], hint)} \ keyed
  <1>1. certs \in Seq(Certs)
    BY EvaluatorAssumption
  <1>2. anchors \in Seq(S)
    BY <1>1 DEF Anchor
  <1> HIDE DEF anchors, keyed, named
  <1>3. Picked(anchors, keyed) \in Seq(S) /\ Picked(anchors, named) \in Seq(S)
    <2> HIDE DEF S
    <2> QED BY <1>2, PickedIs
  <1>4. Picked(anchors, keyed) \o Picked(anchors, named) \in Seq(S)
    <2> HIDE DEF S
    <2> QED BY <1>3
  <1>5. StaticOffers(certs, hint) \in Seq(S)
    BY <1>4 DEF StaticOffers, anchors, keyed, named
  <1> QED BY <1>5

(* Nothing is invented, and every key that was there is still there.       *)
LEMMA UniqueIs ==
  ASSUME NEW key, NEW anchors \in Seq(Anchor)
  PROVE  /\ Unique(key, anchors) \in Seq(Anchor)
         /\ \A k \in 1..Len(Unique(key, anchors)) :
              \E i \in 1..Len(anchors) : anchors[i] = Unique(key, anchors)[k]
         /\ \A i \in 1..Len(anchors) :
              \E k \in 1..Len(Unique(key, anchors)) :
                key[Unique(key, anchors)[k].cert] = key[anchors[i].cert]
  <1> DEFINE I == {i \in 1..Len(anchors) :
                     \A j \in 1..(i - 1) : key[anchors[j].cert] # key[anchors[i].cert]}
             u == Picked(anchors, I)
  <1>0. Unique(key, anchors) = u
    BY DEF Unique
  <1> HIDE DEF I
  <1>1. /\ u \in Seq(Anchor)
        /\ \A k \in 1..Len(u) :
             \E i \in 1..Len(anchors) : i \in I /\ anchors[i] = u[k]
        /\ \A i \in 1..Len(anchors) : i \in I =>
             \E k \in 1..Len(u) : u[k] = anchors[i]
    BY PickedIs, SMTT(60)
  <1>2. ASSUME NEW i \in 1..Len(anchors)
        PROVE  \E k \in 1..Len(u) : key[u[k].cert] = key[anchors[i].cert]
    <2> DEFINE T == {j \in 1..Len(anchors) : key[anchors[j].cert] = key[anchors[i].cert]}
               m == Min(T)
    <2>1. m \in T /\ \A j \in T : m <= j
      <3>1. T \in SUBSET Nat /\ i \in T
        OBVIOUS
      <3> HIDE DEF T
      <3> QED BY <3>1, LeastIs
    <2> HIDE DEF m
    <2>2. m \in I /\ m \in 1..Len(anchors) /\ key[anchors[m].cert] = key[anchors[i].cert]
      BY <2>1 DEF I
    <2> HIDE DEF u, T
    <2>3. PICK k \in 1..Len(u) : u[k] = anchors[m]
      BY <1>1, <2>2
    <2> QED BY <2>2, <2>3
  <1> HIDE DEF u
  <1> QED BY <1>0, <1>1, <1>2

(* Whatever is offered as an anchor of the LOTL is in a list it was asked  *)
(* for in.                                                                 *)
LEMMA OffersAre ==
  ASSUME NEW certs \in Statics, NEW hint \in Hints, NEW lists \in SUBSET Countries
  PROVE  /\ Offers[certs][hint][lists] \in Seq(Anchor)
         /\ \A k \in 1..Len(Offers[certs][hint][lists]) :
              LET a == Offers[certs][hint][lists][k]
              IN a.source = "lotl" =>
                   /\ a.country \in lists
                   /\ [cert |-> a.cert, country |-> a.country] \in Range(Services)
  <1> DEFINE lotl == LotlOffers(hint, lists)
             own == StaticOffers(certs, hint)
             all == own \o lotl
             o == Offers[certs][hint][lists]
             Listed(a) == a.source = "lotl" =>
                            /\ a.country \in lists
                            /\ [cert |-> a.cert, country |-> a.country] \in Range(Services)
  <1>1. o = IF certs = <<>> THEN lotl ELSE Unique(SkiOrSerial, all)
    BY DEF Offers
  <1>2. lotl \in Seq(Anchor) /\ \A k \in 1..Len(lotl) : Listed(lotl[k])
    BY LotlOffersAre
  <1>3. own \in Seq(Anchor) /\ \A k \in 1..Len(own) : Listed(own[k])
    BY StaticOffersAre
  <1> HIDE DEF Listed, own, lotl
  <1>4. all \in Seq(Anchor) /\ \A k \in 1..Len(all) : Listed(all[k])
    <2>1. /\ all \in Seq(Anchor) /\ Len(all) = Len(own) + Len(lotl)
          /\ Len(own) \in Nat /\ Len(lotl) \in Nat
          /\ \A k \in 1..Len(all) : all[k] = IF k <= Len(own) THEN own[k] ELSE lotl[k - Len(own)]
      BY <1>2, <1>3
    <2>2. ASSUME NEW k \in 1..Len(all) PROVE Listed(all[k])
      <3>1. CASE k <= Len(own)
        <4>1. k \in 1..Len(own) /\ all[k] = own[k]
          BY <2>1, <3>1
        <4> QED BY <1>3, <4>1
      <3>2. CASE ~(k <= Len(own))
        <4>1. k - Len(own) \in 1..Len(lotl) /\ all[k] = lotl[k - Len(own)]
          BY <2>1, <3>2
        <4> QED BY <1>2, <4>1
      <3> QED BY <3>1, <3>2
    <2> QED BY <2>1, <2>2
  <1> HIDE DEF all
  <1>5. /\ Unique(SkiOrSerial, all) \in Seq(Anchor)
        /\ \A k \in 1..Len(Unique(SkiOrSerial, all)) : Listed(Unique(SkiOrSerial, all)[k])
    BY <1>4, UniqueIs
  <1>6. o \in Seq(Anchor) /\ \A k \in 1..Len(o) : Listed(o[k])
    BY <1>1, <1>2, <1>5
  <1> QED BY <1>6 DEF Listed

-----------------------------------------------------------------------------
(* The store under the evaluations.                                        *)

(* A step of an evaluation is a step of the store or leaves it alone.      *)
LEMMA StoreSteps == [EvaluatorNext]_allVars => [Next]_vars
  <1> SUFFICES ASSUME [EvaluatorNext]_allVars PROVE [Next]_vars
    OBVIOUS
  <1>1. CASE StoreStep
    BY <1>1 DEF StoreStep, Next
  <1>2. ASSUME NEW e \in Callers, Continue(e) PROVE [Next]_vars
    BY <1>2 DEF Continue, AskAnchors, ReadAnchors, AnchorsUnavailable, CheckRevocation,
                AskProvenance, ReadProvenance, Next
  <1>3. ASSUME NEW e \in Callers, NEW in \in Inputs, Begin(e, in) PROVE [Next]_vars
    BY <1>3 DEF Begin
  <1>4. CASE UNCHANGED allVars
    BY <1>4 DEF allVars
  <1> QED BY <1>1, <1>2, <1>3, <1>4 DEF EvaluatorNext

LEMMA StoreHolds ==
  EvaluatorSpec => [](TypeOK /\ SingleFlight /\ ServedInv /\ AgeInv)
  <1>1. EvaluatorInit => TypeOK /\ SingleFlight /\ ServedInv /\ AgeInv
    BY InitType, TrustStoreAssumption
    DEF EvaluatorInit, Init, SingleFlight, Running, ServedInv, ServedWasLoaded,
        AgeInv, StaleOnlyAfterFailure, NoSnapshot
  <1>2. /\ TypeOK /\ SingleFlight /\ ServedInv /\ AgeInv
        /\ [EvaluatorNext]_allVars
        => (TypeOK /\ SingleFlight /\ ServedInv /\ AgeInv)'
    BY StoreSteps, NextType, NextSingleFlight, NextServed, NextAge
  <1> QED BY <1>1, <1>2, PTL DEF EvaluatorSpec

(* Evaluations that share a store keep its promises: one refresh at a time *)
(* whatever their timing.                                                  *)
THEOREM EvaluationsShareOneRefresh == EvaluatorSpec => []SingleFlight
  BY StoreHolds, PTL

(* Every list an evaluation is served was fetched and verified.            *)
THEOREM EvaluationsAreServedLoadedLists == EvaluatorSpec => []ServedWasLoaded
  BY StoreHolds, PTL DEF ServedInv

(* An evaluation works from a snapshot that was too old when it asked only *)
(* if the refresh it waited for failed.                                    *)
THEOREM EvaluationsAreStaleOnlyAfterFailure == EvaluatorSpec => []StaleOnlyAfterFailure
  BY StoreHolds, PTL DEF AgeInv

(* Only a store that was never loaded rejects an evaluation.               *)
THEOREM EvaluationsAreRejectedOnlyUnloaded == EvaluatorSpec => RejectedOnlyUnloaded
  <1>1. TypeOK /\ [Next]_vars => [StepRejectsOnlyUnloaded]_vars
    BY RejectsOnlyUnloaded
  <1> QED BY <1>1, StoreHolds, StoreSteps, PTL
          DEF EvaluatorSpec, RejectedOnlyUnloaded, StepRejectsOnlyUnloaded

-----------------------------------------------------------------------------
(* What an evaluation has, at any moment: its pool has nothing that was    *)
(* not offered, and an anchor for each serial number that was; what the    *)
(* LOTL offered is in a list that was loaded; the anchor it settled on was *)
(* offered and closes its chain; a refusal left none in the pool that      *)
(* would; and provenance is of the anchor's key.                           *)
Pooled(ev) ==
  /\ \A i \in 1..Len(ev.pool) : ev.pool[i] \in ev.offered
  /\ \A a \in ev.offered : \E i \in 1..Len(ev.pool) : Serial[ev.pool[i].cert] = Serial[a.cert]

ListedAnchor(a, loaded) ==
  a.source = "lotl" => /\ a.country \in loaded
                       /\ [cert |-> a.cert, country |-> a.country] \in Range(Services)

Placed(ev) ==
  /\ ev.pc \in {"ask", "anchors"} => Len(ev.hints) >= 1
  /\ ev.pc \in {"idle", "ask", "anchors", "revocation"} => ev.outcome = None
  /\ ev.pc # "done" => ev.provenance = None
  /\ ev.pc \in {"ask provenance", "provenance"} =>
       ev.outcome = "trusted" /\ ev.anchor.source = "lotl"

Decisive(ev) ==
  /\ ev.pc = "revocation" \/ ev.outcome = "trusted" =>
       ev.anchor \in ev.offered /\ ev.anchor.cert \in ev.closes
  /\ ev.outcome \in {"no anchor", "no chain"} => Closers(ev, ev.pool) = {}

Traced(ev, loaded) ==
  ev.provenance # None =>
    /\ ev.anchor.source = "lotl"
    /\ ev.provenance \in loaded
    /\ \E i \in 1..Len(Services) :
         /\ Services[i].country = ev.provenance
         /\ Cert[Services[i].cert].ski = Cert[ev.anchor.cert].ski

Sound(ev, loaded) ==
  /\ Pooled(ev) /\ Placed(ev) /\ Decisive(ev) /\ Traced(ev, loaded)
  /\ \A a \in ev.offered : ListedAnchor(a, loaded)

Loaded == {c \in Countries : WasLoaded(c)}

EvaluationInv == \A e \in Callers : Sound(evals[e], Loaded)

LEMMA LoadedGrows == TypeOK /\ [Next]_vars => Loaded \subseteq Loaded'
  BY WasLoadedStays DEF Loaded

LEMMA SoundStays ==
  ASSUME NEW ev, NEW loaded, NEW more, loaded \subseteq more, Sound(ev, loaded)
  PROVE  Sound(ev, more)
  BY DEF Sound, Traced, ListedAnchor

(* What the store and the other evaluations do leaves an evaluation sound. *)
LEMMA OneEvaluation ==
  ASSUME EvaluatorTypeOK, EvaluationInv, [Next]_vars,
         NEW e \in Callers, NEW ev \in Eval, evals' = [evals EXCEPT ![e] = ev],
         Sound(ev, Loaded')
  PROVE  evals' \in [Callers -> Eval] /\ EvaluationInv'
  <1>1. evals' \in [Callers -> Eval] /\ evals'[e] = ev
    BY DEF EvaluatorTypeOK
  <1>2. ASSUME NEW f \in Callers, f # e PROVE Sound(evals'[f], Loaded')
    <2>1. evals'[f] = evals[f] /\ Sound(evals[f], Loaded)
      BY <1>2 DEF EvaluatorTypeOK, EvaluationInv
    <2>2. Loaded \subseteq Loaded'
      BY LoadedGrows DEF EvaluatorTypeOK
    <2> QED BY <2>1, <2>2, SoundStays
  <1> QED BY <1>1, <1>2 DEF EvaluationInv

(* The pool and what was offered, after a batch of anchors.                *)
LEMMA PoolTakesBatch ==
  ASSUME NEW ev \in Eval, Pooled(ev), NEW batch \in Seq(Anchor),
         NEW new \in Eval, new.pool = Unique(Serial, ev.pool \o batch),
         new.offered = ev.offered \cup Range(batch)
  PROVE  Pooled(new)
  <1> DEFINE all == ev.pool \o batch
             u == Unique(Serial, all)
  <1>1. /\ all \in Seq(Anchor)
        /\ \A i \in 1..Len(all) : all[i] \in new.offered
        /\ \A i \in 1..Len(ev.pool) : \E j \in 1..Len(all) : all[j] = ev.pool[i]
        /\ \A x \in Range(batch) : \E j \in 1..Len(all) : all[j] = x
    <2>1. /\ ev.pool \in Seq(Anchor) /\ Len(ev.pool) \in Nat /\ Len(batch) \in Nat
          /\ Len(all) = Len(ev.pool) + Len(batch) /\ all \in Seq(Anchor)
          /\ DOMAIN batch = 1..Len(batch)
      <3>1. ev.pool \in Seq(Anchor)
        BY DEF Eval
      <3> QED BY <3>1
    <2>2. \A i \in 1..Len(ev.pool) : i \in 1..Len(all) /\ all[i] = ev.pool[i]
      BY <2>1
    <2>3. \A i \in 1..Len(batch) :
            Len(ev.pool) + i \in 1..Len(all) /\ all[Len(ev.pool) + i] = batch[i]
      BY <2>1
    <2>4. \A i \in 1..Len(batch) : batch[i] \in Range(batch)
      BY <2>1 DEF Range
    <2>5. ASSUME NEW i \in 1..Len(all) PROVE all[i] \in new.offered
      <3>1. CASE i <= Len(ev.pool)
        <4>1. i \in 1..Len(ev.pool)
          BY <2>1, <3>1
        <4> QED BY <2>2, <4>1 DEF Pooled
      <3>2. CASE ~(i <= Len(ev.pool))
        <4>1. /\ i - Len(ev.pool) \in 1..Len(batch)
              /\ Len(ev.pool) + (i - Len(ev.pool)) = i
          BY <2>1, <3>2
        <4>2. all[i] = batch[i - Len(ev.pool)]
          BY <2>3, <4>1
        <4> QED BY <2>4, <4>1, <4>2
      <3> QED BY <3>1, <3>2
    <2>6. \A x \in Range(batch) : \E i \in 1..Len(batch) : batch[i] = x
      BY <2>1 DEF Range
    <2> HIDE DEF all
    <2> QED BY <2>1, <2>2, <2>3, <2>5, <2>6
  <1> HIDE DEF all
  <1>2. /\ \A k \in 1..Len(u) : \E i \in 1..Len(all) : all[i] = u[k]
        /\ \A i \in 1..Len(all) : \E k \in 1..Len(u) : Serial[u[k].cert] = Serial[all[i].cert]
    <2>1. all \in Seq(Anchor)
      BY <1>1
    <2> QED BY <2>1, UniqueIs, SMTT(60)
  <1>3. new.pool = u
    BY DEF all
  <1> HIDE DEF u
  <1>4. \A k \in 1..Len(u) : u[k] \in new.offered
    BY <1>1, <1>2
  <1>5. ASSUME NEW a \in new.offered
        PROVE  \E k \in 1..Len(u) : Serial[u[k].cert] = Serial[a.cert]
    <2>1. CASE a \in ev.offered
      <3>1. PICK i \in 1..Len(ev.pool) : Serial[ev.pool[i].cert] = Serial[a.cert]
        BY <2>1 DEF Pooled
      <3>2. PICK j \in 1..Len(all) : all[j] = ev.pool[i]
        BY <1>1
      <3> QED BY <1>2, <3>1, <3>2
    <2>2. CASE a \in Range(batch)
      BY <1>1, <1>2, <2>2
    <2> QED BY <2>1, <2>2
  <1> QED BY <1>3, <1>4, <1>5 DEF Pooled

LEMMA NoClosers == ASSUME NEW ev PROVE Closers(ev, <<>>) = {}
  <1>1. Len(<<>>) = 0 /\ 1..0 = {}
    OBVIOUS
  <1> QED BY <1>1 DEF Closers

(* The anchor the chain is closed at is in the pool.                       *)
LEMMA ClosingIs ==
  ASSUME NEW ev, NEW pool \in Seq(Anchor), Closers(ev, pool) # {}
  PROVE  \E i \in 1..Len(pool) : Closing(ev, pool) = pool[i] /\ pool[i].cert \in ev.closes
  <1>1. Closers(ev, pool) \in SUBSET Nat
    BY DEF Closers
  <1>2. Min(Closers(ev, pool)) \in Closers(ev, pool)
    BY <1>1, LeastIs
  <1> QED BY <1>2 DEF Closers, Closing

LEMMA Begins ==
  ASSUME EvaluatorTypeOK, EvaluationInv, [Next]_vars,
         NEW e \in Callers, NEW in \in Inputs, Begin(e, in)
  PROVE  evals' \in [Callers -> Eval] /\ EvaluationInv'
  <1> DEFINE old == evals[e]
             ev == [old EXCEPT !.pc = "ask", !.hints = in.hints, !.closes = in.closes]
  <1>1. old \in Eval /\ Sound(old, Loaded) /\ old.pc = "idle"
    BY DEF Begin, EvaluatorTypeOK, EvaluationInv
  <1>2. evals' = [evals EXCEPT ![e] = ev]
    BY DEF Begin, EvaluatorTypeOK
  <1>3. in.hints \in Seq(Hints) /\ Len(in.hints) >= 1 /\ in.closes \in SUBSET Certs
    <2>1. in.hints \in Seq(Hints) /\ in.hints # <<>> /\ in.closes \in SUBSET Certs
      BY EvaluatorAssumption
    <2> QED BY <2>1
  <1>4. ev \in Eval
    BY <1>1, <1>3 DEF Eval
  <1>5. /\ ev.pc = "ask" /\ Len(ev.hints) >= 1 /\ ev.pool = old.pool /\ ev.offered = old.offered
        /\ ev.anchor = old.anchor /\ ev.outcome = None /\ ev.provenance = None
    BY <1>1, <1>3 DEF Eval, Sound, Placed
  <1>6. Sound(ev, Loaded')
    <2>1. Sound(ev, Loaded)
      <3> HIDE DEF ev, old
      <3> QED BY <1>1, <1>5, EvaluatorAssumption DEF Sound, Pooled, Placed, Decisive, Traced
    <2> HIDE DEF ev
    <2> QED BY <2>1, LoadedGrows, SoundStays DEF EvaluatorTypeOK
  <1> HIDE DEF ev
  <1> QED BY <1>2, <1>4, <1>6, OneEvaluation

LEMMA Asks ==
  ASSUME EvaluatorTypeOK, EvaluationInv, [Next]_vars,
         NEW e \in Callers, AskAnchors(e) \/ AskProvenance(e)
  PROVE  evals' \in [Callers -> Eval] /\ EvaluationInv'
  <1> DEFINE old == evals[e]
  <1>1. PICK pc \in {"anchors", "provenance"} :
          /\ evals' = [evals EXCEPT ![e].pc = pc]
          /\ old.pc = IF pc = "anchors" THEN "ask" ELSE "ask provenance"
    BY DEF AskAnchors, AskProvenance
  <1> DEFINE ev == [old EXCEPT !.pc = pc]
  <1>2. old \in Eval /\ Sound(old, Loaded)
    BY DEF EvaluatorTypeOK, EvaluationInv
  <1>3. evals' = [evals EXCEPT ![e] = ev]
    BY <1>1 DEF EvaluatorTypeOK
  <1>4. ev \in Eval
    BY <1>2 DEF Eval
  <1>5. /\ ev.pc = pc /\ ev.hints = old.hints /\ ev.pool = old.pool
        /\ ev.offered = old.offered /\ ev.closes = old.closes
        /\ ev.anchor = old.anchor /\ ev.outcome = old.outcome
        /\ ev.provenance = old.provenance
    BY <1>2 DEF Eval
  <1>6. Sound(ev, Loaded')
    <2>1. Sound(ev, Loaded)
      <3> HIDE DEF ev, old
      <3>1. Pooled(ev) /\ Traced(ev, Loaded) /\ \A a \in ev.offered : ListedAnchor(a, Loaded)
        BY <1>2, <1>5 DEF Sound, Pooled, Traced
      <3>2. Placed(ev)
        BY <1>1, <1>2, <1>5 DEF Sound, Placed
      <3>3. Decisive(ev)
        <4>1. Closers(ev, ev.pool) = Closers(old, old.pool)
          BY <1>5 DEF Closers
        <4> QED BY <1>1, <1>2, <1>5, <4>1 DEF Sound, Decisive
      <3> QED BY <3>1, <3>2, <3>3 DEF Sound
    <2> HIDE DEF ev
    <2> QED BY <2>1, LoadedGrows, SoundStays DEF EvaluatorTypeOK
  <1> HIDE DEF ev
  <1> QED BY <1>3, <1>4, <1>6, OneEvaluation

LEMMA Reads ==
  ASSUME EvaluatorTypeOK, EvaluationInv, ServedInv, [Next]_vars,
         NEW e \in Callers, ReadAnchors(e)
  PROVE  evals' \in [Callers -> Eval] /\ EvaluationInv'
  <1> DEFINE old == evals[e]
             batch == Offers[static][Head(old.hints)][callers[e].answer.lists]
             pool == Unique(Serial, old.pool \o batch)
             read == [old EXCEPT !.pool = pool, !.hints = Tail(@),
                                 !.offered = @ \cup Range(batch),
                                 !.seen = callers[e].answer.fetchedAt]
             ev == IF Len(old.hints) > 1 THEN [read EXCEPT !.pc = "ask"]
                   ELSE Decided(read, pool)
  <1>1. old \in Eval /\ Sound(old, Loaded) /\ old.pc = "anchors" /\ Len(old.hints) >= 1
    BY DEF ReadAnchors, EvaluatorTypeOK, EvaluationInv, Sound, Placed
  <1>2. evals' = [evals EXCEPT ![e] = ev]
    BY DEF ReadAnchors
  <1>3. old.hints \in Seq(Hints) /\ old.pool \in Seq(Anchor) /\ old.offered \in SUBSET Anchor
    BY <1>1 DEF Eval
  <1>4. Head(old.hints) \in Hints /\ Tail(old.hints) \in Seq(Hints)
        /\ (Len(old.hints) > 1 => Len(Tail(old.hints)) >= 1)
    <2>1. Len(Tail(old.hints)) = Len(old.hints) - 1 /\ Len(old.hints) \in Nat
      BY <1>1, <1>3
    <2> QED BY <1>1, <1>3, <2>1
  <1>5. /\ static \in Statics /\ callers[e].answer.lists \in SUBSET Countries
        /\ callers[e].answer.lists \subseteq Loaded
        /\ callers[e].answer.fetchedAt \in Nat
    BY DEF EvaluatorTypeOK, TypeOK, Caller, Snapshot, ServedInv, ServedWasLoaded, Loaded
  <1>6. /\ batch \in Seq(Anchor)
        /\ \A k \in 1..Len(batch) : ListedAnchor(batch[k], callers[e].answer.lists)
    <2> DEFINE hint == Head(old.hints)
               lists == callers[e].answer.lists
    <2>1. hint \in Hints /\ lists \in SUBSET Countries /\ static \in Statics
      BY <1>4, <1>5
    <2> HIDE DEF hint, lists
    <2>2. /\ Offers[static][hint][lists] \in Seq(Anchor)
          /\ \A k \in 1..Len(Offers[static][hint][lists]) :
               ListedAnchor(Offers[static][hint][lists][k], lists)
      BY <2>1, OffersAre DEF ListedAnchor
    <2> QED BY <2>2 DEF hint, lists
  <1> HIDE DEF batch
  <1>7. /\ Range(batch) \in SUBSET Anchor
        /\ \A a \in Range(batch) : ListedAnchor(a, Loaded)
    <2>1. DOMAIN batch = 1..Len(batch) /\ \A k \in 1..Len(batch) : batch[k] \in Anchor
      BY <1>6
    <2>2. \A a \in Range(batch) : \E k \in 1..Len(batch) : a = batch[k]
      BY <2>1 DEF Range
    <2> QED BY <1>5, <1>6, <2>1, <2>2 DEF ListedAnchor
  <1>8. pool \in Seq(Anchor)
    <2>1. old.pool \o batch \in Seq(Anchor)
      BY <1>3, <1>6
    <2> QED BY <2>1, UniqueIs
  <1>9. /\ read \in Eval /\ read.pool = pool /\ read.hints = Tail(old.hints)
        /\ read.offered = old.offered \cup Range(batch)
        /\ read.closes = old.closes /\ read.outcome = None /\ read.provenance = None
        /\ read.pc = "anchors" /\ read.anchor = old.anchor
    <2> HIDE DEF pool
    <2> QED BY <1>1, <1>3, <1>4, <1>5, <1>7, <1>8 DEF Eval, Sound, Placed
  <1>10. Pooled(read)
    BY <1>1, <1>6, <1>9, PoolTakesBatch DEF Sound
  <1>11. \A a \in read.offered : ListedAnchor(a, Loaded)
    BY <1>1, <1>7, <1>9 DEF Sound
  <1> HIDE DEF read, pool
  <1>12. ev \in Eval /\ Sound(ev, Loaded)
    <2>1. CASE Len(old.hints) > 1
      <3>1. ev = [read EXCEPT !.pc = "ask"]
        BY <2>1
      <3> HIDE DEF ev
      <3>2. /\ ev \in Eval /\ ev.pc = "ask" /\ ev.hints = Tail(old.hints) /\ ev.pool = read.pool
            /\ ev.offered = read.offered /\ ev.outcome = None /\ ev.provenance = None
        BY <1>9, <3>1 DEF Eval
      <3> QED BY <1>4, <1>10, <1>11, <2>1, <3>2, EvaluatorAssumption
              DEF Sound, Pooled, Placed, Decisive, Traced
    <2>2. CASE ~(Len(old.hints) > 1) /\ (pool = <<>> \/ Closers(read, pool) = {})
      <3>1. PICK why \in {"no anchor", "no chain"} :
              ev = [read EXCEPT !.pc = "done", !.outcome = why]
        BY <2>2 DEF Decided
      <3>2. Closers(read, pool) = {}
        BY <2>2, NoClosers
      <3> HIDE DEF ev
      <3>3. /\ ev \in Eval /\ ev.pc = "done" /\ ev.outcome = why /\ ev.pool = read.pool
            /\ ev.offered = read.offered /\ ev.provenance = None /\ ev.closes = read.closes
        BY <1>9, <3>1 DEF Eval
      <3>4. Closers(ev, ev.pool) = {}
        BY <1>9, <3>2, <3>3 DEF Closers
      <3> QED BY <1>10, <1>11, <3>3, <3>4, EvaluatorAssumption
              DEF Sound, Pooled, Placed, Decisive, Traced
    <2>3. CASE ~(Len(old.hints) > 1) /\ pool # <<>> /\ Closers(read, pool) # {}
      <3>1. ev = [read EXCEPT !.pc = "revocation", !.anchor = Closing(read, pool)]
        BY <2>3 DEF Decided
      <3>2. PICK i \in 1..Len(pool) : Closing(read, pool) = pool[i] /\ pool[i].cert \in read.closes
        BY <1>8, <2>3, ClosingIs
      <3>3. pool[i] \in read.offered /\ pool[i] \in Anchor
        BY <1>8, <1>9, <1>10 DEF Pooled
      <3> HIDE DEF ev
      <3>4. /\ ev \in Eval /\ ev.pc = "revocation" /\ ev.anchor = pool[i] /\ ev.outcome = None
            /\ ev.pool = read.pool /\ ev.offered = read.offered /\ ev.provenance = None
            /\ ev.closes = read.closes
        BY <1>9, <3>1, <3>2, <3>3 DEF Eval
      <3> QED BY <1>10, <1>11, <3>2, <3>3, <3>4, EvaluatorAssumption
              DEF Sound, Pooled, Placed, Decisive, Traced
    <2> QED BY <2>1, <2>2, <2>3
  <1> HIDE DEF ev
  <1>13. Sound(ev, Loaded')
    BY <1>12, LoadedGrows, SoundStays DEF EvaluatorTypeOK
  <1> QED BY <1>2, <1>12, <1>13, OneEvaluation

LEMMA Unavailable ==
  ASSUME EvaluatorTypeOK, EvaluationInv, [Next]_vars,
         NEW e \in Callers, AnchorsUnavailable(e)
  PROVE  evals' \in [Callers -> Eval] /\ EvaluationInv'
  <1> DEFINE old == evals[e]
             ev == [old EXCEPT !.pc = "done", !.outcome = "unavailable"]
  <1>1. old \in Eval /\ Sound(old, Loaded) /\ old.pc = "anchors"
    BY DEF AnchorsUnavailable, EvaluatorTypeOK, EvaluationInv
  <1>2. evals' = [evals EXCEPT ![e] = ev]
    BY DEF AnchorsUnavailable, EvaluatorTypeOK
  <1>3. ev \in Eval
    BY <1>1 DEF Eval
  <1>4. /\ ev.pc = "done" /\ ev.outcome = "unavailable" /\ ev.pool = old.pool
        /\ ev.offered = old.offered /\ ev.provenance = None
    BY <1>1 DEF Eval, Sound, Placed
  <1>5. Sound(ev, Loaded')
    <2>1. Sound(ev, Loaded)
      <3> HIDE DEF ev, old
      <3>1. Decisive(ev) /\ Placed(ev) /\ Traced(ev, Loaded)
        BY <1>4 DEF Decisive, Placed, Traced
      <3>2. Pooled(ev) /\ \A a \in ev.offered : ListedAnchor(a, Loaded)
        BY <1>1, <1>4 DEF Sound, Pooled
      <3> QED BY <3>1, <3>2 DEF Sound
    <2> HIDE DEF ev
    <2> QED BY <2>1, LoadedGrows, SoundStays DEF EvaluatorTypeOK
  <1> HIDE DEF ev
  <1> QED BY <1>2, <1>3, <1>5, OneEvaluation

LEMMA Checks ==
  ASSUME EvaluatorTypeOK, EvaluationInv, [Next]_vars,
         NEW e \in Callers, NEW status \in Statuses, CheckRevocation(e, status)
  PROVE  evals' \in [Callers -> Eval] /\ EvaluationInv'
  <1> DEFINE old == evals[e]
             ends == status \in {"revoked", "threw"}
             asks == old.anchor.source = "lotl"
             pc == IF ends \/ ~asks THEN "done" ELSE "ask provenance"
             outcome == IF ends THEN status ELSE "trusted"
             ev == [old EXCEPT !.pc = pc, !.outcome = outcome]
  <1>1. old \in Eval /\ Sound(old, Loaded) /\ old.pc = "revocation"
    BY DEF CheckRevocation, EvaluatorTypeOK, EvaluationInv
  <1>2. evals' = [evals EXCEPT ![e] = ev]
    BY DEF CheckRevocation, EvaluatorTypeOK
  <1>3. ev \in Eval
    BY <1>1 DEF Eval
  <1>4. /\ ev.pc = pc /\ ev.outcome = outcome /\ ev.pool = old.pool
        /\ ev.offered = old.offered /\ ev.provenance = None /\ ev.anchor = old.anchor
        /\ ev.closes = old.closes
    BY <1>1 DEF Eval, Sound, Placed
  <1>5. Sound(ev, Loaded')
    <2>1. Sound(ev, Loaded)
      <3> HIDE DEF ev, old
      <3>1. Placed(ev)
        BY <1>4 DEF Placed
      <3>2. Decisive(ev)
        BY <1>1, <1>4 DEF Sound, Decisive
      <3>3. Pooled(ev) /\ \A a \in ev.offered : ListedAnchor(a, Loaded)
        BY <1>1, <1>4 DEF Sound, Pooled
      <3>4. Traced(ev, Loaded)
        BY <1>4 DEF Traced
      <3> QED BY <3>1, <3>2, <3>3, <3>4 DEF Sound
    <2> HIDE DEF ev
    <2> QED BY <2>1, LoadedGrows, SoundStays DEF EvaluatorTypeOK
  <1> HIDE DEF ev
  <1> QED BY <1>2, <1>3, <1>5, OneEvaluation

LEMMA Traces ==
  ASSUME EvaluatorTypeOK, EvaluationInv, ServedInv, [Next]_vars,
         NEW e \in Callers, ReadProvenance(e)
  PROVE  evals' \in [Callers -> Eval] /\ EvaluationInv'
  <1> DEFINE old == evals[e]
             lists == callers[e].answer.lists
             telling == IF callers[e].pc = "rejected" THEN {} ELSE Telling(old.anchor, lists)
             found == IF telling = {} THEN None ELSE Services[Min(telling)].country
             ev == [old EXCEPT !.pc = "done", !.provenance = found]
  <1>1. old \in Eval /\ Sound(old, Loaded) /\ old.pc = "provenance"
    BY DEF ReadProvenance, EvaluatorTypeOK, EvaluationInv
  <1>2. evals' = [evals EXCEPT ![e] = ev]
    BY DEF ReadProvenance, EvaluatorTypeOK
  <1>3. lists \subseteq Loaded
    BY DEF EvaluatorTypeOK, TypeOK, Caller, Snapshot, ServedInv, ServedWasLoaded, Loaded
  <1>4. found # None =>
          /\ found \in Loaded
          /\ \E i \in 1..Len(Services) :
               /\ Services[i].country = found
               /\ Cert[Services[i].cert].ski = Cert[old.anchor.cert].ski
    <2> SUFFICES ASSUME telling # {}
                 PROVE  \E i \in Telling(old.anchor, lists) : Services[i].country = found
      BY <1>3 DEF Telling
    <2>1. telling \in SUBSET Nat /\ telling \subseteq Telling(old.anchor, lists)
      BY DEF Telling
    <2> HIDE DEF telling
    <2> QED BY <2>1, LeastIs
  <1>5. found \in Countries \cup {None}
    BY <1>4 DEF Loaded
  <1> HIDE DEF found
  <1>6. ev \in Eval
    BY <1>1, <1>5 DEF Eval
  <1>7. /\ ev.pc = "done" /\ ev.provenance = found /\ ev.pool = old.pool
        /\ ev.offered = old.offered /\ ev.closes = old.closes /\ ev.anchor = old.anchor
        /\ ev.outcome = "trusted" /\ ev.anchor.source = "lotl"
    BY <1>1 DEF Eval, Sound, Placed
  <1>8. Sound(ev, Loaded')
    <2>1. Sound(ev, Loaded)
      <3> HIDE DEF ev, old
      <3>1. Decisive(ev)
        BY <1>1, <1>7 DEF Sound, Decisive, Placed
      <3>2. Traced(ev, Loaded)
        BY <1>4, <1>7 DEF Traced
      <3>3. Pooled(ev) /\ \A a \in ev.offered : ListedAnchor(a, Loaded)
        BY <1>1, <1>7 DEF Sound, Pooled
      <3>4. Placed(ev)
        BY <1>7 DEF Placed
      <3> QED BY <3>1, <3>2, <3>3, <3>4 DEF Sound
    <2> HIDE DEF ev
    <2> QED BY <2>1, LoadedGrows, SoundStays DEF EvaluatorTypeOK
  <1> HIDE DEF ev
  <1> QED BY <1>2, <1>6, <1>8, OneEvaluation

LEMMA InitEvaluations == EvaluatorInit => EvaluatorTypeOK /\ EvaluationInv
  <1> SUFFICES ASSUME EvaluatorInit PROVE EvaluatorTypeOK /\ EvaluationInv
    OBVIOUS
  <1>1. Idle \in Eval
    BY DEF Idle, Eval
  <1>2. Sound(Idle, Loaded)
    <2>1. /\ Idle.pc = "idle" /\ Idle.offered = {} /\ Idle.outcome = None
          /\ Idle.provenance = None /\ Len(Idle.pool) = 0
      BY DEF Idle
    <2>2. Pooled(Idle)
      BY <2>1 DEF Pooled
    <2> QED BY <2>1, <2>2, EvaluatorAssumption DEF Sound, Placed, Decisive, Traced
  <1>3. \A e \in Callers : evals[e] = Idle
    BY DEF EvaluatorInit
  <1> QED BY <1>1, <1>2, <1>3, InitType DEF EvaluatorInit, EvaluatorTypeOK, EvaluationInv

LEMMA NextEvaluations ==
  EvaluatorTypeOK /\ ServedInv /\ EvaluationInv /\ [EvaluatorNext]_allVars
    => EvaluatorTypeOK' /\ EvaluationInv'
  <1> SUFFICES ASSUME EvaluatorTypeOK, ServedInv, EvaluationInv, [EvaluatorNext]_allVars
               PROVE  static' = static /\ evals' \in [Callers -> Eval] /\ EvaluationInv'
    BY StoreSteps, NextType DEF EvaluatorTypeOK
  <1>1. [Next]_vars
    BY StoreSteps
  <1>2. CASE UNCHANGED evalVars
    BY <1>1, <1>2, LoadedGrows, SoundStays DEF evalVars, EvaluatorTypeOK, EvaluationInv
  <1>3. ASSUME NEW e \in Callers, NEW in \in Inputs, Begin(e, in)
        PROVE  static' = static /\ evals' \in [Callers -> Eval] /\ EvaluationInv'
    BY <1>1, <1>3, Begins DEF Begin
  <1>4. ASSUME NEW e \in Callers, Continue(e)
        PROVE  static' = static /\ evals' \in [Callers -> Eval] /\ EvaluationInv'
    <2>1. static' = static
      BY <1>4 DEF Continue, AskAnchors, ReadAnchors, AnchorsUnavailable, CheckRevocation,
                  AskProvenance, ReadProvenance
    <2> QED BY <1>1, <1>4, <2>1, Asks, Reads, Unavailable, Checks, Traces DEF Continue
  <1>5. CASE UNCHANGED allVars
    BY <1>2, <1>5 DEF allVars
  <1> QED BY <1>2, <1>3, <1>4, <1>5 DEF EvaluatorNext, StoreStep

LEMMA EvaluationsHold == EvaluatorSpec => [](EvaluatorTypeOK /\ EvaluationInv)
  <1> QED BY InitEvaluations, NextEvaluations, StoreHolds, PTL DEF EvaluatorSpec

(* Type correctness of every variable of the evaluations and their store.  *)
THEOREM EvaluatorTypeCorrect == EvaluatorSpec => []EvaluatorTypeOK
  BY EvaluationsHold, PTL

(* An evaluation that trusts names an anchor that closes its own chain,    *)
(* that it was offered, and that a loaded list holds if the LOTL offered   *)
(* it.                                                                     *)
THEOREM AnchorIsTheTerminusCorrect == EvaluatorSpec => []AnchorIsTheTerminus
  <1>1. EvaluationInv => AnchorIsTheTerminus
    BY DEF EvaluationInv, Sound, Decisive, ListedAnchor, Loaded, AnchorIsTheTerminus, Trusted
  <1> QED BY <1>1, EvaluationsHold, PTL

(* An anchor that would have closed the chain of a refused leaf was hidden *)
(* behind another certificate with its serial number.                      *)
THEOREM RefusedMeansNoAnchorCorrect == EvaluatorSpec => []RefusedMeansNoAnchor
  <1>1. ASSUME EvaluatorTypeOK, EvaluationInv, NEW e \in Callers,
               evals[e].outcome \in {"no anchor", "no chain"},
               NEW a \in evals[e].offered, a.cert \in evals[e].closes
        PROVE  \E b \in evals[e].offered :
                 b.cert # a.cert /\ Cert[b.cert].serial = Cert[a.cert].serial
    <2> DEFINE ev == evals[e]
    <2>1. ev \in Eval /\ Pooled(ev) /\ Closers(ev, ev.pool) = {}
      BY <1>1 DEF EvaluatorTypeOK, EvaluationInv, Sound, Decisive
    <2>2. ev.offered \in SUBSET Anchor /\ ev.pool \in Seq(Anchor)
      BY <2>1 DEF Eval
    <2>3. PICK i \in 1..Len(ev.pool) : Serial[ev.pool[i].cert] = Serial[a.cert]
      BY <1>1, <2>1 DEF Pooled
    <2>4. ev.pool[i] \in ev.offered /\ ev.pool[i].cert \notin ev.closes
      BY <2>1, <2>3 DEF Pooled, Closers
    <2>5. ev.pool[i].cert \in Certs /\ a.cert \in Certs
      BY <1>1, <2>2, <2>4 DEF Anchor
    <2>6. Cert[ev.pool[i].cert].serial = Cert[a.cert].serial
      BY <2>3, <2>5 DEF Serial
    <2> QED BY <1>1, <2>4, <2>6
  <1>2. EvaluatorTypeOK /\ EvaluationInv => RefusedMeansNoAnchor
    BY <1>1 DEF RefusedMeansNoAnchor
  <1> QED BY <1>2, EvaluationsHold, PTL

-----------------------------------------------------------------------------
(* The two calls of an evaluation: the snapshot only moves on, and once it *)
(* is loaded it stays so.                                                  *)
SnapshotInv ==
  /\ snapshot.fetchedAt <= now
  /\ \A a \in Callers : callers[a].pc = "served" =>
       snapshot.loaded /\ callers[a].answer.fetchedAt <= snapshot.fetchedAt

(* What a caller has after a step that is not what it had before.          *)
Answered(a) ==
  \/ callers'[a].pc = "waiting"
  \/ callers'[a].pc = "rejected" /\ ~snapshot.loaded
  \/ /\ callers'[a].pc = "served"
     /\ snapshot'.loaded
     /\ snapshot.fetchedAt <= callers'[a].answer.fetchedAt
     /\ callers'[a].answer.fetchedAt <= snapshot'.fetchedAt

SnapshotMovesOn ==
  /\ snapshot.loaded => snapshot'.loaded
  /\ snapshot.fetchedAt <= snapshot'.fetchedAt
  /\ snapshot'.fetchedAt <= now'
  /\ \A a \in Callers : callers'[a] = callers[a] \/ Answered(a)

LEMMA StoreMovesOn ==
  ASSUME TypeOK, SnapshotInv, [Next]_vars
  PROVE  SnapshotMovesOn
  <1>0. snapshot \in Snapshot /\ now \in Nat /\ snapshot.fetchedAt <= now
        /\ snapshot.fetchedAt \in Nat
    BY DEF TypeOK, SnapshotInv, Snapshot
  <1>1. CASE \E a \in Callers : ServeFresh(a)
    <2> PICK a \in Callers : ServeFresh(a)
      BY <1>1
    <2>1. /\ \A b \in Callers \ {a} : callers'[b] = callers[b]
          /\ callers'[a].pc = "served" /\ callers'[a].answer = snapshot
      BY DEF ServeFresh, Ask, TypeOK
    <2> QED BY <1>0, <2>1 DEF ServeFresh, IsFresh, SnapshotMovesOn, Answered
  <1>2. ASSUME NEW a \in Callers, NEW r \in Refreshes \cup {NoRefresh},
               Ask(a, FALSE, r), UNCHANGED <<now, snapshot>>
        PROVE  SnapshotMovesOn
    <2>1. /\ \A b \in Callers \ {a} : callers'[b] = callers[b]
          /\ callers'[a].pc = "waiting"
      BY <1>2 DEF Ask, TypeOK
    <2> QED BY <1>0, <1>2, <2>1 DEF SnapshotMovesOn, Answered
  <1>3. CASE \E r \in Refreshes : LotlFails(r)
    <2> PICK r \in Refreshes : LotlFails(r)
      BY <1>3
    <2>1. ASSUME NEW b \in Callers
          PROVE  \/ callers'[b] = callers[b]
                 \/ /\ callers'[b].answer = snapshot
                    /\ callers'[b].pc = IF snapshot.loaded THEN "served" ELSE "rejected"
      BY SettleCaller DEF LotlFails
    <2> QED BY <1>0, <2>1 DEF LotlFails, SnapshotMovesOn, Answered
  <1>4. CASE \E r \in Refreshes : FinishRefresh(r)
    <2> PICK r \in Refreshes : FinishRefresh(r)
      BY <1>4
    <2>1. snapshot'.loaded /\ snapshot'.fetchedAt = now /\ now' = now
      BY DEF FinishRefresh, FetchedAt
    <2>2. ASSUME NEW b \in Callers
          PROVE  \/ callers'[b] = callers[b]
                 \/ callers'[b].pc = "served" /\ callers'[b].answer.fetchedAt = now
      BY SettleCaller DEF FinishRefresh, FetchedAt
    <2> QED BY <1>0, <2>1, <2>2 DEF SnapshotMovesOn, Answered
  <1>5. CASE UNCHANGED <<snapshot, callers>> /\ now' \in {now, now + 1}
    BY <1>0, <1>5 DEF SnapshotMovesOn
  <1> QED
    BY <1>1, <1>2, <1>3, <1>4, <1>5, StepCases
    DEF TypeOK, JoinRefresh, StartRefresh, LotlLoads, NationalSettles, Tick, vars

LEMMA NextSnapshot == TypeOK /\ SnapshotInv /\ [Next]_vars => SnapshotInv'
  <1> SUFFICES ASSUME TypeOK, SnapshotInv, [Next]_vars PROVE SnapshotInv'
    OBVIOUS
  <1>1. SnapshotMovesOn /\ TypeOK'
    BY StoreMovesOn, NextType
  <1>2. ASSUME NEW a \in Callers, callers'[a].pc = "served"
        PROVE  snapshot'.loaded /\ callers'[a].answer.fetchedAt <= snapshot'.fetchedAt
    <2>1. CASE callers'[a] = callers[a]
      <3>1. /\ snapshot'.loaded
            /\ callers[a].answer.fetchedAt <= snapshot.fetchedAt
            /\ snapshot.fetchedAt <= snapshot'.fetchedAt
        BY <1>1, <1>2, <2>1 DEF SnapshotInv, SnapshotMovesOn
      <3>2. /\ callers[a].answer.fetchedAt \in Nat
            /\ snapshot.fetchedAt \in Nat /\ snapshot'.fetchedAt \in Nat
        BY <1>1 DEF TypeOK, Caller, Snapshot
      <3> QED BY <2>1, <3>1, <3>2
    <2>2. CASE Answered(a)
      BY <1>2, <2>2 DEF Answered
    <2> QED BY <1>1, <2>1, <2>2 DEF SnapshotMovesOn
  <1> QED BY <1>1, <1>2 DEF SnapshotInv, SnapshotMovesOn

(* The strengthening.  What an evaluation has seen is no newer than the    *)
(* snapshot.  From the moment it has an anchor the store is loaded, so its *)
(* second call is not refused, and is answered by no earlier snapshot.     *)
Recalls(ev, caller) ==
  /\ ev.seen <= snapshot.fetchedAt
  /\ ev.pc \in {"revocation", "ask provenance", "provenance"} => snapshot.loaded
  /\ ev.pc = "provenance" =>
       \/ caller.pc = "waiting"
       \/ caller.pc = "served" /\ ev.seen <= caller.answer.fetchedAt
  /\ ev.pc = "done" /\ ev.outcome = "trusted" /\ ev.anchor.source = "lotl" =>
       caller.pc = "served" /\ ToldLater(ev, caller.answer)

RecallInv == \A e \in Callers : Recalls(evals[e], callers[e])

(* An evaluation that does not move: its caller is left alone, or answered *)
(* if it waits.                                                            *)
LEMMA RecallsStays ==
  ASSUME EvaluatorTypeOK, EvaluatorTypeOK', SnapshotMovesOn,
         NEW e \in Callers, Recalls(evals[e], callers[e]),
         evals'[e] = evals[e],
         callers'[e] = callers[e] \/ callers[e].pc = "waiting"
  PROVE  Recalls(evals[e], callers[e])'
  <1>1. /\ evals[e].seen \in Nat /\ snapshot.fetchedAt \in Nat
        /\ snapshot'.fetchedAt \in Nat /\ callers'[e].answer.fetchedAt \in Nat
    BY DEF EvaluatorTypeOK, Eval, TypeOK, Snapshot, Caller
  <1>2. /\ evals[e].seen <= snapshot.fetchedAt
        /\ snapshot.fetchedAt <= snapshot'.fetchedAt
        /\ snapshot.loaded => snapshot'.loaded
    BY DEF Recalls, SnapshotMovesOn
  <1>3. ASSUME evals[e].pc = "provenance"
        PROVE  \/ callers'[e].pc = "waiting"
               \/ callers'[e].pc = "served" /\ evals[e].seen <= callers'[e].answer.fetchedAt
    <2>1. CASE callers'[e] = callers[e]
      BY <1>3, <2>1 DEF Recalls
    <2>2. CASE Answered(e)
      <3>1. snapshot.loaded
        BY <1>3 DEF Recalls
      <3> QED BY <1>1, <1>2, <2>2, <3>1 DEF Answered
    <2> QED BY <2>1, <2>2 DEF SnapshotMovesOn
  <1>4. ASSUME evals[e].pc = "done", evals[e].outcome = "trusted",
               evals[e].anchor.source = "lotl"
        PROVE  callers'[e].pc = "served" /\ ToldLater(evals[e], callers'[e].answer)
    <2>1. callers[e].pc = "served" /\ ToldLater(evals[e], callers[e].answer)
      BY <1>4 DEF Recalls
    <2> QED BY <2>1
  <1>5. evals[e].seen <= snapshot'.fetchedAt
    BY <1>1, <1>2
  <1> QED BY <1>2, <1>3, <1>4, <1>5 DEF Recalls, ToldLater

LEMMA OneRecalls ==
  ASSUME EvaluatorTypeOK, EvaluatorTypeOK', SnapshotMovesOn, RecallInv, NEW e \in Callers,
         \A f \in Callers \ {e} : evals'[f] = evals[f] /\ callers'[f] = callers[f],
         Recalls(evals[e], callers[e])'
  PROVE  RecallInv'
  <1>1. ASSUME NEW f \in Callers, f # e PROVE Recalls(evals[f], callers[f])'
    BY <1>1, RecallsStays DEF RecallInv
  <1> QED BY <1>1 DEF RecallInv

(* What a call leaves with the caller. *)
LEMMA CallAnswers ==
  ASSUME TypeOK, NEW e \in Callers, Call(e)
  PROVE  /\ snapshot' = snapshot
         /\ \A f \in Callers \ {e} : callers'[f] = callers[f]
         /\ \/ callers'[e].pc = "waiting"
            \/ callers'[e].pc = "served" /\ callers'[e].answer = snapshot
  BY DEF Call, ServeFresh, JoinRefresh, StartRefresh, Ask, TypeOK

LEMMA BeginRecalls ==
  ASSUME EvaluatorTypeOK, EvaluationInv, RecallInv, EvaluatorTypeOK', SnapshotMovesOn,
         NEW e \in Callers, NEW in \in Inputs, Begin(e, in)
  PROVE  RecallInv'
  <1>1. evals[e] \in Eval /\ evals[e].seen <= snapshot.fetchedAt
    BY DEF EvaluatorTypeOK, RecallInv, Recalls
  <1>2. /\ evals'[e].pc = "ask" /\ evals'[e].seen = evals[e].seen
        /\ \A f \in Callers \ {e} : evals'[f] = evals[f] /\ callers'[f] = callers[f]
        /\ snapshot' = snapshot
    BY <1>1 DEF Begin, EvaluatorTypeOK, Eval, vars
  <1>3. Recalls(evals[e], callers[e])'
    BY <1>1, <1>2 DEF Recalls
  <1> QED BY <1>2, <1>3, OneRecalls

LEMMA AskRecalls ==
  ASSUME EvaluatorTypeOK, EvaluationInv, RecallInv, EvaluatorTypeOK', SnapshotMovesOn,
         NEW e \in Callers, AskAnchors(e) \/ AskProvenance(e)
  PROVE  RecallInv'
  <1>1. evals[e] \in Eval /\ evals[e].seen <= snapshot.fetchedAt
    BY DEF EvaluatorTypeOK, RecallInv, Recalls
  <1>2. /\ evals'[e].seen = evals[e].seen
        /\ \/ evals'[e].pc = "anchors"
           \/ evals'[e].pc = "provenance" /\ evals[e].pc = "ask provenance"
        /\ \A f \in Callers \ {e} : evals'[f] = evals[f]
    <2>1. CASE AskAnchors(e)
      BY <1>1, <2>1 DEF AskAnchors, EvaluatorTypeOK, Eval
    <2>2. CASE AskProvenance(e)
      BY <1>1, <2>2 DEF AskProvenance, EvaluatorTypeOK, Eval
    <2> QED BY <2>1, <2>2
  <1>3. /\ snapshot' = snapshot
        /\ \A f \in Callers \ {e} : callers'[f] = callers[f]
        /\ \/ callers'[e].pc = "waiting"
           \/ callers'[e].pc = "served" /\ callers'[e].answer = snapshot
    BY CallAnswers DEF AskAnchors, AskProvenance, EvaluatorTypeOK
  <1>4. evals[e].pc = "ask provenance" => snapshot.loaded
    BY DEF RecallInv, Recalls
  <1>5. Recalls(evals[e], callers[e])'
    BY <1>1, <1>2, <1>3, <1>4 DEF Recalls
  <1> QED BY <1>2, <1>3, <1>5, OneRecalls

LEMMA ReadRecalls ==
  ASSUME EvaluatorTypeOK, EvaluationInv, SnapshotInv, RecallInv, EvaluatorTypeOK',
         SnapshotMovesOn, NEW e \in Callers, ReadAnchors(e)
  PROVE  RecallInv'
  <1> DEFINE old == evals[e]
             batch == Offers[static][Head(old.hints)][callers[e].answer.lists]
             pool == Unique(Serial, old.pool \o batch)
             read == [old EXCEPT !.pool = pool, !.hints = Tail(@),
                                 !.offered = @ \cup Range(batch),
                                 !.seen = callers[e].answer.fetchedAt]
             ev == IF Len(old.hints) > 1 THEN [read EXCEPT !.pc = "ask"]
                   ELSE Decided(read, pool)
  <1>1. old \in Eval /\ callers[e].pc = "served" /\ old.outcome = None
    BY DEF ReadAnchors, EvaluatorTypeOK, EvaluationInv, Sound, Placed
  <1>2. snapshot.loaded /\ callers[e].answer.fetchedAt <= snapshot.fetchedAt
    BY <1>1 DEF SnapshotInv
  <1>3. evals' = [evals EXCEPT ![e] = ev] /\ snapshot' = snapshot /\ callers' = callers
    BY DEF ReadAnchors, vars
  <1> HIDE DEF batch
  <1>4. /\ evals'[e] = ev /\ ev \in Eval
        /\ \A f \in Callers \ {e} : evals'[f] = evals[f]
    <2> HIDE DEF ev
    <2> QED BY <1>3 DEF EvaluatorTypeOK
  <1> HIDE DEF pool
  <1>5. /\ ev.seen = callers[e].answer.fetchedAt
        /\ \/ ev.pc \in {"ask", "revocation"}
           \/ ev.pc = "done" /\ ev.outcome \in {"no anchor", "no chain"}
    BY <1>1 DEF Eval, Decided
  <1> HIDE DEF ev
  <1>6. Recalls(evals[e], callers[e])'
    <2>1. ev.pc # "provenance" /\ ~(ev.pc = "done" /\ ev.outcome = "trusted")
      BY <1>5
    <2>2. ev.seen <= snapshot.fetchedAt
      BY <1>2, <1>5
    <2> QED BY <1>2, <1>3, <1>4, <2>1, <2>2 DEF Recalls
  <1> QED BY <1>3, <1>4, <1>6, OneRecalls

LEMMA EndRecalls ==
  ASSUME EvaluatorTypeOK, EvaluationInv, RecallInv, EvaluatorTypeOK', SnapshotMovesOn,
         NEW e \in Callers,
         AnchorsUnavailable(e) \/ \E status \in Statuses : CheckRevocation(e, status)
  PROVE  RecallInv'
  <1>1. evals[e] \in Eval /\ Recalls(evals[e], callers[e])
    BY DEF EvaluatorTypeOK, RecallInv
  <1>2. /\ evals'[e].seen = evals[e].seen /\ evals'[e].anchor = evals[e].anchor
        /\ \/ evals'[e].pc = "ask provenance" /\ evals[e].pc = "revocation"
           \/ evals'[e].pc = "done" /\ evals'[e].outcome # "trusted"
           \/ evals'[e].pc = "done" /\ evals[e].anchor.source # "lotl"
        /\ \A f \in Callers \ {e} : evals'[f] = evals[f] /\ callers'[f] = callers[f]
        /\ snapshot' = snapshot
    <2>1. CASE AnchorsUnavailable(e)
      BY <1>1, <2>1 DEF AnchorsUnavailable, EvaluatorTypeOK, Eval, vars
    <2>2. ASSUME NEW status \in Statuses, CheckRevocation(e, status)
          PROVE  <1>2
      BY <1>1, <2>2 DEF CheckRevocation, Statuses, EvaluatorTypeOK, Eval, vars
    <2> QED BY <2>1, <2>2
  <1>3. Recalls(evals[e], callers[e])'
    BY <1>1, <1>2 DEF Recalls
  <1> QED BY <1>2, <1>3, OneRecalls

(* The anchor's own service is among those that tell, if its list is still *)
(* there: the first that tells is it, or one before it.                    *)
LEMMA TellsLater ==
  ASSUME NEW ev, NEW answer,
         ListedAnchor(ev.anchor, Countries), ev.anchor.source = "lotl",
         ev.seen <= answer.fetchedAt,
         ev.provenance = IF Telling(ev.anchor, answer.lists) = {} THEN None
                         ELSE Services[Min(Telling(ev.anchor, answer.lists))].country
  PROVE  ToldLater(ev, answer)
  <1> DEFINE telling == Telling(ev.anchor, answer.lists)
             ski == Cert[ev.anchor.cert].ski
  <1> SUFFICES ASSUME ev.provenance # ev.anchor.country, ski # None,
                      ev.anchor.country \in answer.lists
               PROVE  \E i \in 1..Len(Services) :
                        /\ Services[i].country = ev.provenance
                        /\ Cert[Services[i].cert].ski = ski
                        /\ \A j \in 1..Len(Services) :
                             /\ Services[j].country = ev.anchor.country
                             /\ Cert[Services[j].cert].ski = ski
                             => i < j
    BY DEF ToldLater
  <1>1. PICK k \in 1..Len(Services) :
          Services[k] = [cert |-> ev.anchor.cert, country |-> ev.anchor.country]
    <2>1. Services \in Seq(Service)
      BY EvaluatorAssumption
    <2>2. DOMAIN Services = 1..Len(Services)
      BY <2>1
    <2> QED BY <2>2 DEF ListedAnchor, Range
  <1>2. \A j \in 1..Len(Services) :
          /\ Services[j].country = ev.anchor.country
          /\ Cert[Services[j].cert].ski = ski
          => j \in telling
    BY DEF Telling
  <1>3. k \in telling
    BY <1>1, <1>2
  <1>4. telling \in SUBSET Nat
    <2>1. \A x \in 1..Len(Services) : x \in Nat
      OBVIOUS
    <2>2. telling \subseteq 1..Len(Services)
      BY DEF Telling
    <2> QED BY <2>1, <2>2
  <1>5. Min(telling) \in telling /\ \A j \in telling : Min(telling) <= j
    <2> HIDE DEF telling
    <2> QED BY <1>3, <1>4, LeastIs
  <1> DEFINE i == Min(telling)
  <1>6. ev.provenance = Services[i].country
    BY <1>3
  <1>7. i \in 1..Len(Services) /\ Cert[Services[i].cert].ski = ski
    BY <1>5 DEF Telling
  <1> HIDE DEF i, telling, ski
  <1>8. ASSUME NEW j \in 1..Len(Services), Services[j].country = ev.anchor.country,
               Cert[Services[j].cert].ski = ski
        PROVE  i < j
    <2>1. i <= j
      BY <1>2, <1>5, <1>8 DEF i
    <2>2. i # j
      BY <1>6, <1>8
    <2>3. i \in Int /\ j \in Int
      BY <1>7
    <2> QED BY <2>1, <2>2, <2>3
  <1> QED BY <1>6, <1>7, <1>8

LEMMA ProvenanceRecalls ==
  ASSUME EvaluatorTypeOK, EvaluationInv, RecallInv, EvaluatorTypeOK', SnapshotMovesOn,
         NEW e \in Callers, ReadProvenance(e)
  PROVE  RecallInv'
  <1> DEFINE answer == callers[e].answer
             telling == Telling(evals[e].anchor, answer.lists)
             found == IF telling = {} THEN None ELSE Services[Min(telling)].country
  <1>1. /\ evals[e] \in Eval /\ evals[e].pc = "provenance"
        /\ evals[e].outcome = "trusted" /\ evals[e].anchor.source = "lotl"
        /\ evals[e].anchor \in evals[e].offered
        /\ ListedAnchor(evals[e].anchor, Countries)
    BY DEF ReadProvenance, EvaluatorTypeOK, EvaluationInv, Sound, Placed, Decisive,
           ListedAnchor, Loaded
  <1>2. callers[e].pc = "served" /\ evals[e].seen <= answer.fetchedAt
        /\ evals[e].seen <= snapshot.fetchedAt
    BY <1>1 DEF ReadProvenance, RecallInv, Recalls
  <1>3. /\ evals' = [evals EXCEPT ![e].pc = "done", ![e].provenance = found]
        /\ snapshot' = snapshot /\ callers' = callers
    BY <1>2 DEF ReadProvenance, vars
  <1> HIDE DEF found
  <1>4. /\ evals'[e].pc = "done" /\ evals'[e].seen = evals[e].seen
        /\ evals'[e].anchor = evals[e].anchor /\ evals'[e].provenance = found
        /\ \A f \in Callers \ {e} : evals'[f] = evals[f]
    BY <1>1, <1>3 DEF EvaluatorTypeOK, Eval
  <1>5. ToldLater(evals'[e], answer)
    <2> DEFINE ev == evals'[e]
    <2>1. /\ ev.anchor = evals[e].anchor /\ ev.seen = evals[e].seen
          /\ ev.provenance = found
      BY <1>4
    <2>3. /\ ListedAnchor(ev.anchor, Countries) /\ ev.anchor.source = "lotl"
          /\ ev.seen <= answer.fetchedAt
      BY <1>1, <1>2, <2>1
    <2>2. ev.provenance = IF Telling(ev.anchor, answer.lists) = {} THEN None
                          ELSE Services[Min(Telling(ev.anchor, answer.lists))].country
      BY <2>1 DEF found
    <2>4. ToldLater(ev, answer)
      <3> HIDE DEF ev, answer
      <3> QED BY <2>2, <2>3, TellsLater
    <2> QED BY <2>4
  <1>6. Recalls(evals[e], callers[e])'
    BY <1>2, <1>3, <1>4, <1>5 DEF Recalls, ToldLater
  <1> QED BY <1>3, <1>4, <1>6, OneRecalls

LEMMA NextRecall ==
  /\ EvaluatorTypeOK /\ EvaluationInv /\ SnapshotInv /\ RecallInv
  /\ EvaluatorTypeOK' /\ [EvaluatorNext]_allVars
  => RecallInv'
  <1> SUFFICES ASSUME EvaluatorTypeOK, EvaluationInv, SnapshotInv, RecallInv,
                      EvaluatorTypeOK', [EvaluatorNext]_allVars
               PROVE  RecallInv'
    OBVIOUS
  <1>1. SnapshotMovesOn
    BY StoreSteps, StoreMovesOn DEF EvaluatorTypeOK
  <1>2. CASE StoreStep \/ UNCHANGED allVars
    <2>1. \A e \in Callers : callers'[e] = callers[e] \/ callers[e].pc = "waiting"
      <3>1. ASSUME NEW r \in Refreshes, LotlFails(r) \/ FinishRefresh(r), NEW e \in Callers
            PROVE  callers'[e] = callers[e] \/ callers[e].pc = "waiting"
        BY <3>1, SettleCaller DEF LotlFails, FinishRefresh, EvaluatorTypeOK
      <3> QED BY <1>2, <3>1 DEF StoreStep, LotlSettles, LotlLoads, AnyNationalSettles,
                                NationalSettles, Tick, allVars, vars
    <2>2. evals' = evals
      BY <1>2 DEF StoreStep, evalVars, allVars
    <2> QED BY <1>1, <2>1, <2>2, RecallsStays DEF RecallInv
  <1>3. ASSUME NEW e \in Callers, NEW in \in Inputs, Begin(e, in)
        PROVE  RecallInv'
    BY <1>1, <1>3, BeginRecalls
  <1>4. ASSUME NEW e \in Callers, Continue(e)
        PROVE  RecallInv'
    BY <1>1, <1>4, AskRecalls, ReadRecalls, EndRecalls, ProvenanceRecalls DEF Continue
  <1> QED BY <1>2, <1>3, <1>4 DEF EvaluatorNext

LEMMA RecallsHold == EvaluatorSpec => []RecallInv
  <1>1. EvaluatorInit => SnapshotInv /\ RecallInv
    <2> SUFFICES ASSUME EvaluatorInit PROVE SnapshotInv /\ RecallInv
      OBVIOUS
    <2>1. SnapshotInv /\ snapshot.fetchedAt = 0
      BY DEF EvaluatorInit, Init, NoSnapshot, SnapshotInv
    <2>2. \A e \in Callers : evals[e].pc = "idle" /\ evals[e].seen = 0
      BY DEF EvaluatorInit, Idle
    <2>3. ASSUME NEW e \in Callers PROVE Recalls(evals[e], callers[e])
      <3>1. evals[e].seen <= snapshot.fetchedAt
        BY <2>1, <2>2
      <3> QED BY <2>2, <3>1 DEF Recalls
    <2> QED BY <2>1, <2>3 DEF RecallInv
  <1>2. TypeOK /\ SnapshotInv /\ [EvaluatorNext]_allVars => SnapshotInv'
    BY NextSnapshot, StoreSteps
  <1>3. EvaluatorSpec => [](TypeOK /\ SnapshotInv)
    BY <1>1, <1>2, StoreHolds, PTL DEF EvaluatorSpec
  <1> QED BY <1>1, <1>3, EvaluationsHold, NextRecall, PTL DEF EvaluatorSpec

(* Provenance is of the key of an anchor of the LOTL, from a list that was *)
(* loaded.  The call that asks for it is not refused, it is answered by no *)
(* earlier snapshot than the anchors were, and it tells another country    *)
(* only if the anchor's list has gone or another list with the key comes   *)
(* before it.                                                              *)
THEOREM ProvenanceIsOfTheAnchorCorrect == EvaluatorSpec => []ProvenanceIsOfTheAnchor
  <1>1. EvaluationInv /\ RecallInv => ProvenanceIsOfTheAnchor
    BY DEF EvaluationInv, Sound, Traced, Loaded, RecallInv, Recalls,
           ProvenanceIsOfTheAnchor, ToldOfTheAnchor, Trusted
  <1> QED BY <1>1, EvaluationsHold, RecallsHold, PTL

=============================================================================
