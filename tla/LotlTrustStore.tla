--------------------------- MODULE LotlTrustStore ---------------------------
(***************************************************************************)
(* The trust store behind the EU List of Trusted Lists: callers of         *)
(* getAnchors share one snapshot of the national lists and, when it is too *)
(* old, one refresh.  A refresh fetches the LOTL, then every national list *)
(* it points to in parallel; a national list that fails is skipped, and    *)
(* when the LOTL itself fails the prior snapshot is served.                *)
(*                                                                         *)
(* Fetching, parsing and checking the signature of one list is one         *)
(* outcome, loaded or failed.  A country stands for its list; what matters *)
(* of a snapshot is which lists it has and when it was made.               *)
(***************************************************************************)
EXTENDS Naturals, FiniteSets

CONSTANTS
  Countries,
  Callers,       \* concurrent evaluations that ask for anchors
  Refreshes,     \* bound: the refreshes that can be run
  NoRefresh,
  Interval,      \* refreshInterval, in clock ticks
  Horizon        \* bound: the clock stops here

ASSUME TrustStoreAssumption ==
  /\ Interval \in Nat \ {0}
  /\ Horizon \in Nat
  /\ NoRefresh \notin Refreshes

VARIABLES
  now,           \* Date.now()
  snapshot,      \* this.snapshot
  inFlight,      \* this.inFlight: the refresh it is the promise of
  refreshes,     \* the refreshes, running and ended
  callers        \* getSnapshot, as each caller sees it

vars == <<now, snapshot, inFlight, refreshes, callers>>

Lists == {"pending", "loaded", "failed"}

(* `loaded' is FALSE for the null snapshot of a store not loaded yet. *)
Snapshot == [loaded : BOOLEAN, lists : SUBSET Countries, fetchedAt : Nat]

NoSnapshot == [loaded |-> FALSE, lists |-> {}, fetchedAt |-> 0]

Refresh == [pc : {"unused", "lotl", "national", "refreshed", "failed"},
            pointers : SUBSET Countries,
            lists : [Countries -> Lists]]

Caller == [pc : {"idle", "waiting", "served", "rejected"},
           on : Refreshes \cup {NoRefresh},
           calledAt : Nat,
           answer : Snapshot]

TypeOK ==
  /\ now \in Nat
  /\ snapshot \in Snapshot
  /\ inFlight \in Refreshes \cup {NoRefresh}
  /\ refreshes \in [Refreshes -> Refresh]
  /\ callers \in [Callers -> Caller]

Init ==
  /\ now = 0
  /\ snapshot = NoSnapshot
  /\ inFlight = NoRefresh
  /\ refreshes = [r \in Refreshes |->
       [pc |-> "unused", pointers |-> {}, lists |-> [c \in Countries |-> "pending"]]]
  /\ callers = [a \in Callers |->
       [pc |-> "idle", on |-> NoRefresh, calledAt |-> 0, answer |-> NoSnapshot]]

-----------------------------------------------------------------------------
IsFresh_OnceLoaded == snapshot.loaded

IsFresh == snapshot.loaded /\ now - snapshot.fetchedAt < Interval

Ask(a, answerNow, r) ==
  callers' = [callers EXCEPT ![a] =
    [pc |-> IF answerNow THEN "served" ELSE "waiting", on |-> r,
     calledAt |-> now, answer |-> IF answerNow THEN snapshot ELSE NoSnapshot]]

ServeFresh(a) ==
  /\ callers[a].pc # "waiting"
  /\ IsFresh
  /\ Ask(a, TRUE, NoRefresh)
  /\ UNCHANGED <<now, snapshot, inFlight, refreshes>>

JoinRefresh(a) ==
  /\ callers[a].pc # "waiting"
  /\ ~IsFresh
  /\ inFlight # NoRefresh
  /\ Ask(a, FALSE, inFlight)
  /\ UNCHANGED <<now, snapshot, inFlight, refreshes>>

(* A refresh per caller, whether or not one is running. *)
StartRefresh_EachCaller(a, r) ==
  /\ callers[a].pc # "waiting"
  /\ ~IsFresh
  /\ refreshes[r].pc = "unused"
  /\ refreshes' = [refreshes EXCEPT ![r].pc = "lotl"]
  /\ inFlight' = r
  /\ Ask(a, FALSE, r)
  /\ UNCHANGED <<now, snapshot>>

StartRefresh(a, r) ==
  /\ callers[a].pc # "waiting"
  /\ ~IsFresh
  /\ inFlight = NoRefresh
  /\ refreshes[r].pc = "unused"
  /\ refreshes' = [refreshes EXCEPT ![r].pc = "lotl"]
  /\ inFlight' = r
  /\ Ask(a, FALSE, r)
  /\ UNCHANGED <<now, snapshot>>

-----------------------------------------------------------------------------
(* The LOTL arrives, is verified and parsed; its pointers are followed. *)
LotlLoads(r, pointers) ==
  /\ refreshes[r].pc = "lotl"
  /\ refreshes' = [refreshes EXCEPT ![r].pc = "national", ![r].pointers = pointers]
  /\ UNCHANGED <<now, snapshot, inFlight, callers>>

Settle(r, outcome, answer) ==
  callers' = [a \in Callers |->
    IF callers[a].pc = "waiting" /\ callers[a].on = r
    THEN [callers[a] EXCEPT !.pc = outcome, !.answer = answer]
    ELSE callers[a]]

(* The LOTL cannot be fetched, parsed or verified: the prior snapshot      *)
(* serves, and without one the callers are rejected.                       *)
LotlFails_Rejects(r) ==
  /\ refreshes[r].pc = "lotl"
  /\ refreshes' = [refreshes EXCEPT ![r].pc = "failed"]
  /\ inFlight' = NoRefresh
  /\ Settle(r, "rejected", NoSnapshot)
  /\ UNCHANGED <<now, snapshot>>

LotlFails_StaysInFlight(r) ==
  /\ refreshes[r].pc = "lotl"
  /\ refreshes' = [refreshes EXCEPT ![r].pc = "failed"]
  /\ Settle(r, IF snapshot.loaded THEN "served" ELSE "rejected", snapshot)
  /\ UNCHANGED <<now, snapshot, inFlight>>

LotlFails(r) ==
  /\ refreshes[r].pc = "lotl"
  /\ refreshes' = [refreshes EXCEPT ![r].pc = "failed"]
  /\ inFlight' = NoRefresh
  /\ Settle(r, IF snapshot.loaded THEN "served" ELSE "rejected", snapshot)
  /\ UNCHANGED <<now, snapshot>>

NationalSettles(r, c, outcome) ==
  /\ refreshes[r].pc = "national"
  /\ c \in refreshes[r].pointers
  /\ refreshes[r].lists[c] = "pending"
  /\ refreshes' = [refreshes EXCEPT ![r].lists[c] = outcome]
  /\ UNCHANGED <<now, snapshot, inFlight, callers>>

AllSettled(r) ==
  \A c \in refreshes[r].pointers : refreshes[r].lists[c] # "pending"

LoadedLists_Listed(r) == refreshes[r].pointers

LoadedLists(r) ==
  {c \in refreshes[r].pointers : refreshes[r].lists[c] = "loaded"}

(* fetchedAt is the time the refresh ends. *)
FetchedAt == now

(* Promise.all settles: what was loaded becomes the snapshot, whatever the *)
(* prior one had.                                                          *)
FinishRefresh(r) ==
  LET new == [loaded |-> TRUE, lists |-> LoadedLists(r), fetchedAt |-> FetchedAt]
  IN /\ refreshes[r].pc = "national"
     /\ AllSettled(r)
     /\ snapshot' = new
     /\ refreshes' = [refreshes EXCEPT ![r].pc = "refreshed"]
     /\ inFlight' = NoRefresh
     /\ Settle(r, "served", new)
     /\ UNCHANGED now

Tick ==
  /\ now < Horizon
  /\ now' = now + 1
  /\ UNCHANGED <<snapshot, inFlight, refreshes, callers>>

-----------------------------------------------------------------------------
LotlSettles(r) ==
  LotlFails(r) \/ \E pointers \in SUBSET Countries : LotlLoads(r, pointers)

AnyNationalSettles(r) ==
  \E c \in Countries, outcome \in {"loaded", "failed"} :
    NationalSettles(r, c, outcome)

Call(a) ==
  \/ ServeFresh(a)
  \/ JoinRefresh(a)
  \/ \E r \in Refreshes : StartRefresh(a, r)

Next ==
  \/ \E a \in Callers : Call(a)
  \/ \E r \in Refreshes :
       LotlSettles(r) \/ AnyNationalSettles(r) \/ FinishRefresh(r)
  \/ Tick

(* Every fetch settles, one way or the other: fetch has its own time       *)
(* limits, and an error of any kind is an outcome here.                    *)
Fairness ==
  \A r \in Refreshes : /\ WF_vars(LotlSettles(r))
                       /\ WF_vars(AnyNationalSettles(r))
                       /\ WF_vars(FinishRefresh(r))

Spec == Init /\ [][Next]_vars /\ Fairness

-----------------------------------------------------------------------------
Running(r) == refreshes[r].pc \in {"lotl", "national"}

(* Single flight: whatever the callers' timing, at most one refresh is     *)
(* running, it is the one inFlight promises, and every waiting caller      *)
(* waits for it.                                                           *)
SingleFlight ==
  /\ \A r \in Refreshes : Running(r) <=> inFlight = r
  /\ \A a \in Callers : callers[a].pc = "waiting" => callers[a].on = inFlight
  /\ \A a \in Callers : callers[a].pc = "waiting" => inFlight # NoRefresh

(* Graceful degradation: a caller gets an error only from a store that has *)
(* never been loaded; once there is a snapshot, every caller is served.    *)
RejectedOnlyUnloaded ==
  [][\A a \in Callers :
       callers[a].pc = "waiting" /\ callers'[a].pc = "rejected"
       => ~snapshot.loaded]_vars

(* A caller is served anchors that were too old when it asked only if the  *)
(* refresh it waited for could not load the LOTL.                          *)
StaleOnlyAfterFailure ==
  \A a \in Callers :
    /\ callers[a].pc = "served"
    /\ callers[a].answer.fetchedAt + Interval <= callers[a].calledAt
    => callers[a].on # NoRefresh /\ refreshes[callers[a].on].pc = "failed"

WasLoaded(c) ==
  \E r \in Refreshes : /\ refreshes[r].pc = "refreshed"
                       /\ c \in refreshes[r].pointers
                       /\ refreshes[r].lists[c] = "loaded"

(* What is served was loaded: every list a caller gets was fetched and     *)
(* verified by some refresh that pointed to it.                            *)
ServedWasLoaded ==
  \A a \in Callers : \A c \in callers[a].answer.lists : WasLoaded(c)

-----------------------------------------------------------------------------
(* The class comment and the changelog: refresh failures serve the prior   *)
(* snapshot.  So a refresh in which no national list could be loaded does  *)
(* not take away the lists that were being served.                         *)
FailedRefreshKeepsLists ==
  [][\A r \in Refreshes :
       /\ FinishRefresh(r)
       /\ refreshes[r].pointers # {}
       /\ \A c \in refreshes[r].pointers : refreshes[r].lists[c] = "failed"
       /\ snapshot.loaded
       => snapshot'.lists = snapshot.lists]_vars

=============================================================================
