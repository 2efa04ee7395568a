--------------------------- MODULE OneShotSession ---------------------------
(***************************************************************************)
(* What the PoC verifier promises about one presentation session, with no  *)
(* store, no clock and no HTTP in sight: a session is opened once, becomes *)
(* `done' only after somebody presented a credential made for it, takes    *)
(* one verdict at most, and does not live for ever.                        *)
(*                                                                         *)
(* VerifierServer implements this module; its refinement mapping says what *)
(* the views below are in terms of the session map, the clock and the      *)
(* handlers in flight.                                                     *)
(***************************************************************************)
CONSTANT States            \* the `state' parameters that name sessions

VARIABLES
  view,                    \* how the world sees each session
  presented                \* the sessions an acceptable presentation reached

vars == <<view, presented>>

Live    == {"pending", "done", "failed"}
Views   == Live \cup {"unborn", "expired"}

TypeOK ==
  /\ view \in [States -> Views]
  /\ presented \subseteq States

Init ==
  /\ view = [s \in States |-> "unborn"]
  /\ presented = {}

(* A request for a presentation opens a session under a fresh state. *)
Open(s) ==
  /\ view[s] = "unborn"
  /\ view' = [view EXCEPT ![s] = "pending"]
  /\ UNCHANGED presented

(* A wallet presents a credential that satisfies the request of s. *)
Present(s) ==
  /\ view[s] # "unborn"
  /\ presented' = presented \cup {s}
  /\ UNCHANGED view

(* The one verdict of s. *)
Settle(s, verdict) ==
  /\ view[s] = "pending"
  /\ verdict = "done" => s \in presented
  /\ view' = [view EXCEPT ![s] = verdict]
  /\ UNCHANGED presented

(* Sessions end together when their time is up or the process goes down. *)
Lapse(S) ==
  /\ S # {}
  /\ \A s \in S : view[s] \in Live
  /\ view' = [s \in States |-> IF s \in S THEN "expired" ELSE view[s]]
  /\ UNCHANGED presented

Next ==
  \/ \E s \in States : Open(s) \/ Present(s)
  \/ \E s \in States, verdict \in {"done", "failed"} : Settle(s, verdict)
  \/ \E S \in SUBSET States : Lapse(S)

LapseOf(s) == \E S \in SUBSET States : s \in S /\ Lapse(S)

Safety == Init /\ [][Next]_vars

Spec == Safety /\ \A s \in States : WF_vars(LapseOf(s))

=============================================================================
