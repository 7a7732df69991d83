---------------------------- MODULE MCModeration ----------------------------
(* Small instances of Moderation for TLC.                                  *)
EXTENDS Moderation, TLC

CONSTANTS u1, u2, l1

OneOwner == l1 :> u2
Symmetry == Permutations(Requests) \cup Permutations(Ids)

InFlight(ops) == {r \in Requests : request[r].op \in ops}

\* Bounds: nobody reports u1; a request to undo or to publish overlaps
\* decisions only; once an account is deleted, or the first day is over, there
\* is one request at a time.
Bounds ==
  /\ u1 \notin {report[i].target : i \in Ids} \cup {request[r].target : r \in InFlight({"report"})}
  /\ InFlight(Ops \ (Decisions \cup {"none", "report"})) # {} =>
       /\ InFlight({"report"}) = {}
       /\ Cardinality(InFlight(Ops \ (Decisions \cup {"none"}))) <= 1
  /\ (day > 0 \/ \E u \in Users : ~user[u].there) =>
       Cardinality(InFlight(Ops \ {"none"})) <= 1
=============================================================================
