--------------------------- MODULE TrustEvaluator ---------------------------
(***************************************************************************)
(* TrustEvaluator.evaluate over a LOTL trust store, alone or as the second *)
(* child of a composite behind a static store.  An evaluation asks the     *)
(* store once for the leaf and once for every intermediate, pools what it  *)
(* is offered, builds a chain to one of them, checks revocation and, for   *)
(* an anchor of the LOTL, asks once more for its provenance.  Any of these *)
(* calls may meet a snapshot of its own.                                   *)
(*                                                                         *)
(* An evaluation is one caller of the trust store.  Chain building is the  *)
(* set of certificates the chain can close at.                             *)
(***************************************************************************)
EXTENDS LotlTrustStore, SequencesExt

CONSTANTS
  None,
  Cert,          \* Cert[c] = [serial, ski, subject]; ski may be None
  Services,      \* the services of the lists, list after list: [cert, country]
  Statics,       \* what the static child may hold; <<>>: there is none
  Inputs         \* [hints, closes]: a leaf and its intermediates

Certs == DOMAIN Cert
Service == [cert : Certs, country : Countries]
Hints == UNION {Range(in.hints) : in \in Inputs}

(* An evaluation has a hint at least, the one of its leaf.                 *)
ASSUME EvaluatorAssumption ==
  /\ Services \in Seq(Service)
  /\ Statics \subseteq Seq(Certs)
  /\ Inputs \subseteq [hints : Seq(Hints) \ {<<>>}, closes : SUBSET Certs]
  /\ None \notin Countries \cup {"trusted", "no anchor", "no chain"}

VARIABLES
  static,        \* the anchors of the static child
  evals          \* evaluate, as each caller of the store runs it

evalVars == <<static, evals>>
allVars == <<vars, evalVars>>

Idle == [pc |-> "idle", hints |-> <<>>, closes |-> {}, offered |-> {}, pool |-> <<>>,
         anchor |-> None, outcome |-> None, provenance |-> None, seen |-> 0]

Anchor == [cert : Certs, source : {"static", "lotl"}, country : Countries \cup {None}]

(* `seen' is history: when the lists were made that the anchors came from. *)
Eval == [pc : {"idle", "ask", "anchors", "revocation", "ask provenance", "provenance", "done"},
         hints : Seq(Hints),
         closes : SUBSET Certs,
         offered : SUBSET Anchor,
         pool : Seq(Anchor),
         anchor : Anchor \cup {None},
         outcome : {None, "trusted", "no anchor", "no chain", "unavailable", "revoked", "threw"},
         provenance : Countries \cup {None},
         seen : Nat]

EvaluatorTypeOK ==
  /\ TypeOK
  /\ static \in Statics
  /\ evals \in [Callers -> Eval]

EvaluatorInit ==
  /\ Init
  /\ static \in Statics
  /\ evals = [e \in Callers |-> Idle]

-----------------------------------------------------------------------------
(* What the stores offer for a hint, as anchors.                           *)
HasKey(c, hint) == hint.aki # None /\ Cert[c].ski = hint.aki
Matches(c, hint) == HasKey(c, hint) \/ Cert[c].subject = hint.issuer

(* The elements of s at the places in I, in the order of s.                *)
Picked(s, I) ==
  LET kept[i \in 0..Len(s)] ==
        IF i = 0 THEN <<>>
        ELSE IF i \in I THEN Append(kept[i - 1], s[i]) ELSE kept[i - 1]
  IN kept[Len(s)]

(* StaticTrustStore: matches of the key before matches of the name.        *)
StaticOffers(certs, hint) ==
  LET anchors == [i \in 1..Len(certs) |->
                    [cert |-> certs[i], source |-> "static", country |-> None]]
      keyed == {i \in 1..Len(certs) : HasKey(certs[i], hint)}
      named == {i \in 1..Len(certs) : Matches(certs[i], hint)} \ keyed
  IN Picked(anchors, keyed) \o Picked(anchors, named)

(* LotlTrustStore: the services of the lists in the snapshot.              *)
LotlOffers(hint, lists) ==
  LET anchors == [i \in 1..Len(Services) |->
                    [cert |-> Services[i].cert, source |-> "lotl",
                     country |-> Services[i].country]]
  IN Picked(anchors, {i \in 1..Len(Services) : /\ Services[i].country \in lists
                                               /\ Matches(Services[i].cert, hint)})

(* The first anchor of each key; key[c] is what a certificate is told by.  *)
Unique(key, anchors) ==
  Picked(anchors, {i \in 1..Len(anchors) :
    \A j \in 1..(i - 1) : key[anchors[j].cert] # key[anchors[i].cert]})

SkiOrSerial ==
  [c \in Certs |-> IF Cert[c].ski # None THEN Cert[c].ski ELSE Cert[c].serial]

(* CompositeTrustStore: the static child first, one anchor for a key.      *)
Offers ==
  [certs \in Statics |-> [hint \in Hints |-> [lists \in SUBSET Countries |->
    IF certs = <<>> THEN LotlOffers(hint, lists)
    ELSE Unique(SkiOrSerial, StaticOffers(certs, hint) \o LotlOffers(hint, lists))]]]

-----------------------------------------------------------------------------
Begin(e, in) ==
  /\ evals[e].pc = "idle"
  /\ evals' = [evals EXCEPT ![e].pc = "ask", ![e].hints = in.hints, ![e].closes = in.closes]
  /\ UNCHANGED <<vars, static>>

(* getAnchors: the snapshot is asked for once for each hint.               *)
AskAnchors(e) ==
  /\ evals[e].pc = "ask"
  /\ Call(e)
  /\ evals' = [evals EXCEPT ![e].pc = "anchors"]
  /\ UNCHANGED static

Serial_OrName == [c \in Certs |-> Cert[c].subject]

Serial == [c \in Certs |-> Cert[c].serial]

(* ChainBuilder tries the anchors in the order of the pool, and the first  *)
(* the chain can be closed at ends it; the pool keeps one anchor for a     *)
(* serial number.                                                          *)
Closing_First(ev, pool) == pool[1]

Closers(ev, pool) == {i \in 1..Len(pool) : pool[i].cert \in ev.closes}

Closing(ev, pool) == pool[Min(Closers(ev, pool))]

(* After the last hint the chain is built, and the anchor it closed at is  *)
(* looked up in the pool.                                                  *)
Decided(ev, pool) ==
  IF pool = <<>> THEN [ev EXCEPT !.pc = "done", !.outcome = "no anchor"]
  ELSE IF Closers(ev, pool) = {} THEN [ev EXCEPT !.pc = "done", !.outcome = "no chain"]
  ELSE [ev EXCEPT !.pc = "revocation", !.anchor = Closing(ev, pool)]

(* What the store offers joins the pool.                                   *)
ReadAnchors(e) ==
  /\ evals[e].pc = "anchors"
  /\ callers[e].pc = "served"
  /\ \E batch \in {Offers[static][Head(evals[e].hints)][callers[e].answer.lists]} :
     \E pool \in {Unique(Serial, evals[e].pool \o batch)} :
     \E ev \in {[evals[e] EXCEPT !.pool = pool, !.hints = Tail(@),
                                 !.offered = @ \cup Range(batch),
                                 !.seen = callers[e].answer.fetchedAt]} :
       evals' = [evals EXCEPT ![e] =
         IF Len(evals[e].hints) > 1 THEN [ev EXCEPT !.pc = "ask"] ELSE Decided(ev, pool)]
  /\ UNCHANGED <<vars, static>>

(* A rejected snapshot rejects the composite too, whatever its first child *)
(* has.                                                                    *)
AnchorsUnavailable(e) ==
  /\ evals[e].pc = "anchors"
  /\ callers[e].pc = "rejected"
  /\ evals' = [evals EXCEPT ![e].pc = "done", ![e].outcome = "unavailable"]
  /\ UNCHANGED <<vars, static>>

(* RevocationChecker.check; `threw' under a policy that requires an answer.*)
CheckRevocation(e, status) ==
  LET ends == status \in {"revoked", "threw"}
      asks == evals[e].anchor.source = "lotl"
  IN /\ evals[e].pc = "revocation"
     /\ evals' = [evals EXCEPT
          ![e].pc = IF ends \/ ~asks THEN "done" ELSE "ask provenance",
          ![e].outcome = IF ends THEN status ELSE "trusted"]
     /\ UNCHANGED <<vars, static>>

AskProvenance(e) ==
  /\ evals[e].pc = "ask provenance"
  /\ Call(e)
  /\ evals' = [evals EXCEPT ![e].pc = "provenance"]
  /\ UNCHANGED static

(* ProvenanceResolver: the first service with a certificate of the         *)
(* anchor's key, in the snapshot of this call.                             *)
Telling_Any(anchor, lists) == {i \in 1..Len(Services) : Services[i].country \in lists}

Telling(anchor, lists) ==
  {i \in 1..Len(Services) : /\ Services[i].country \in lists
                            /\ Cert[anchor.cert].ski # None
                            /\ Cert[Services[i].cert].ski = Cert[anchor.cert].ski}

ReadProvenance(e) ==
  LET telling == IF callers[e].pc = "rejected" THEN {}
                 ELSE Telling(evals[e].anchor, callers[e].answer.lists)
  IN /\ evals[e].pc = "provenance"
     /\ callers[e].pc \in {"served", "rejected"}
     /\ evals' = [evals EXCEPT
          ![e].pc = "done",
          ![e].provenance = IF telling = {} THEN None
                            ELSE Services[Min(telling)].country]
     /\ UNCHANGED <<vars, static>>

-----------------------------------------------------------------------------
Statuses == {"good", "unknown", "revoked", "threw"}

Continue(e) ==
  \/ AskAnchors(e) \/ ReadAnchors(e) \/ AnchorsUnavailable(e)
  \/ \E status \in Statuses : CheckRevocation(e, status)
  \/ AskProvenance(e) \/ ReadProvenance(e)

(* What the store does between the calls.                                  *)
StoreStep ==
  /\ \/ \E r \in Refreshes : LotlSettles(r) \/ AnyNationalSettles(r) \/ FinishRefresh(r)
     \/ Tick
  /\ UNCHANGED evalVars

EvaluatorNext ==
  \/ StoreStep
  \/ \E e \in Callers : Continue(e) \/ \E in \in Inputs : Begin(e, in)

(* The fetches settle; an evaluation that can go on does.                  *)
EvaluatorSpec ==
  /\ EvaluatorInit
  /\ [][EvaluatorNext]_allVars
  /\ Fairness
  /\ \A e \in Callers : WF_allVars(Continue(e))

-----------------------------------------------------------------------------
Trusted(e) == evals[e].outcome = "trusted"

(* The evaluation is not led astray by what else it was offered: the       *)
(* anchor it names is one its own chain closes at, and it was offered with *)
(* that source and country for a hint of this evaluation, a country whose  *)
(* list was loaded.                                                        *)
AnchorIsTheTerminus ==
  \A e \in Callers : Trusted(e) =>
    /\ evals[e].anchor.cert \in evals[e].closes
    /\ evals[e].anchor \in evals[e].offered
    /\ evals[e].anchor.source = "lotl" =>
         /\ WasLoaded(evals[e].anchor.country)
         /\ [cert |-> evals[e].anchor.cert, country |-> evals[e].anchor.country]
              \in Range(Services)

(* A leaf is only refused for want of an anchor when none it could close   *)
(* at is offered for any of its hints, save one that is hidden behind a    *)
(* certificate with the same serial number.                                *)
RefusedMeansNoAnchor ==
  \A e \in Callers : evals[e].outcome \in {"no anchor", "no chain"} =>
    \A a \in evals[e].offered : a.cert \in evals[e].closes =>
      \E b \in evals[e].offered : b.cert # a.cert /\ Cert[b.cert].serial = Cert[a.cert].serial

(* Provenance is told of the anchor's key only, from a list that was       *)
(* loaded, and never of an anchor the operator configured.                 *)
ToldOfTheAnchor(ev) ==
  /\ ev.anchor.source = "lotl"
  /\ WasLoaded(ev.provenance)
  /\ \E i \in 1..Len(Services) :
       /\ Services[i].country = ev.provenance
       /\ Cert[Services[i].cert].ski = Cert[ev.anchor.cert].ski

(* The snapshot it is told from may be a later one than the anchor's, but  *)
(* never an earlier one, and that the two differ only shows if the list of *)
(* the anchor has been lost in between: else it is the anchor's country    *)
(* that is told, or one whose list comes before and has the same key.      *)
ToldLater(ev, answer) ==
  /\ ev.seen <= answer.fetchedAt
  /\ \/ ev.provenance = ev.anchor.country
     \/ Cert[ev.anchor.cert].ski = None
     \/ ev.anchor.country \notin answer.lists
     \/ \E i \in 1..Len(Services) :
          /\ Services[i].country = ev.provenance
          /\ Cert[Services[i].cert].ski = Cert[ev.anchor.cert].ski
          /\ \A j \in 1..Len(Services) :
               /\ Services[j].country = ev.anchor.country
               /\ Cert[Services[j].cert].ski = Cert[ev.anchor.cert].ski
               => i < j

(* Provenance belongs to the anchor that is reported, although it comes    *)
(* from another call of the store.  An evaluation that had an anchor of    *)
(* the LOTL is not refused the second call.                                *)
ProvenanceIsOfTheAnchor ==
  \A e \in Callers :
    /\ evals[e].provenance # None => ToldOfTheAnchor(evals[e])
    /\ evals[e].pc = "done" /\ Trusted(e) /\ evals[e].anchor.source = "lotl" =>
         callers[e].pc = "served" /\ ToldLater(evals[e], callers[e].answer)

(* Every evaluation ends, whatever becomes of the refreshes it waits for,  *)
(* as long as the model has a refresh left to start.                       *)
EvaluationsEnd ==
  \A e \in Callers :
    evals[e].pc # "idle" ~> \/ evals[e].pc = "done"
                            \/ \A r \in Refreshes : refreshes[r].pc # "unused"

=============================================================================
