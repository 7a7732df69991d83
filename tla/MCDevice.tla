------------------------------ MODULE MCDevice ------------------------------
(* Small instances of Device for TLC.                                      *)
EXTENDS Device, TLC

CONSTANTS a, b, t1, t2

MCUsers == {a, b}
MCRegistered == {a}
MCTabs == {t1, t2}
\* The tabs differ in nothing but their name.
MCSymmetry == Permutations(MCTabs)
=============================================================================
