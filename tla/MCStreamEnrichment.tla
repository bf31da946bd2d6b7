------------------------- MODULE MCStreamEnrichment -------------------------
(* Small instances of StreamEnrichment for TLC.                             *)
EXTENDS StreamEnrichment, TLC

\* Trips are interchangeable (safety runs only).
Symmetry == Permutations(Trips)
=============================================================================
