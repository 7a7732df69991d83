----------------------------- MODULE MCAccounts -----------------------------
(* Small instances of Accounts for TLC.                                    *)
EXTENDS Accounts, TLC

Symmetry == Permutations(Passwords) \cup Permutations(Salts)
              \cup Permutations(SessionIds) \cup Permutations(Requests)

InFlight(ops) == Cardinality({r \in Requests : request[r].op \in ops})

\* Bounds: one request at a time on an account without a chat key, or whose
\* hash was overwritten; one call of the session list at a time; one session
\* lapsed.
Bounds ==
  /\ (\E u \in Users : \/ Exists(u) /\ row[u].vault = None
                       \/ u \in overwritten) => InFlight(Ops \ {"none"}) <= 1
  /\ InFlight({"logout", "revokeOne", "revokeOthers"}) <= 1
  /\ Cardinality({s \in SessionIds : session[s].state = "lapsed"}) <= 1
=============================================================================
