------------------------------ MODULE MCPhotos ------------------------------
(* Small instances of Photos for TLC.                                      *)
EXTENDS Photos, TLC

Symmetry == Permutations(Photos) \cup Permutations(Requests)
=============================================================================
