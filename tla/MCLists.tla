------------------------------ MODULE MCLists -------------------------------
(* Small instances of Lists for TLC.                                       *)
EXTENDS Lists, TLC
=============================================================================
