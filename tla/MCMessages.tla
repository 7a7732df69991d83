----------------------------- MODULE MCMessages -----------------------------
(* Small instances of Messages for TLC.                                    *)
EXTENDS Messages, TLC

CONSTANTS u1, u2, t1, t2

\* One author sends twice the same message; or both write.
OneAuthor == t1 :> u1
TwoAuthors == t1 :> u1 @@ t2 :> u2
Sends == Permutations(Requests)
=============================================================================
