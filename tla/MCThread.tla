------------------------------ MODULE MCThread ------------------------------
(* Small instances of Thread for TLC.                                      *)
EXTENDS Thread, TLC
=============================================================================
