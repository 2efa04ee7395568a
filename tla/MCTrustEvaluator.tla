-------------------------- MODULE MCTrustEvaluator --------------------------
(* TrustEvaluator over two lists.  "root" is the anchor; "renewed" has its *)
(* key and name, and a path length constraint that allows no intermediate; *)
(* "namesake" has its name and serial number, "sub" its serial number and  *)
(* the name of the intermediate.                                           *)
EXTENDS TrustEvaluator

CONSTANTS at, be

MCCert == [root |-> [serial |-> "01", ski |-> "k1", subject |-> "R"],
           renewed |-> [serial |-> "02", ski |-> "k1", subject |-> "R"],
           namesake |-> [serial |-> "01", ski |-> None, subject |-> "R"],
           sub |-> [serial |-> "01", ski |-> "k3", subject |-> "I"]]

MCServices == <<[cert |-> "namesake", country |-> at], [cert |-> "sub", country |-> be],
               [cert |-> "renewed", country |-> be], [cert |-> "root", country |-> be]>>
MCStatics == {<<>>, <<"root">>}

RootHint == [issuer |-> "R", aki |-> "k1"]
MCInputs == {[hints |-> <<RootHint>>, closes |-> {"root", "renewed"}],
             [hints |-> <<[issuer |-> "I", aki |-> None], RootHint>>, closes |-> {"root"}]}

=============================================================================
