----------------------------- MODULE MCReading -----------------------------
(* Small instances of Reading for TLC.                                     *)
EXTENDS Reading, FiniteSets

\* Bound: requests under way at once, reads and marks together.
MaxRequests == 3
Bounds ==
  Cardinality({q \in Queries : fetch[q] # Idle}) + marks.asked + marks.handled <= MaxRequests
=============================================================================
