------------------------------ MODULE MCOutbox ------------------------------
(* Small instances of Outbox for TLC.                                      *)
EXTENDS Outbox, TLC

CONSTANTS i1, i2

\* One message is sent again twice, the other once at most.
SomePosts == i1 :> 3 @@ i2 :> 1
=============================================================================
