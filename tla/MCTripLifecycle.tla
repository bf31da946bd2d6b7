-------------------------- MODULE MCTripLifecycle --------------------------
(* Small instances of TripLifecycle for TLC.                                *)
EXTENDS TripLifecycle, TLC

\* Requests, trips and buses are interchangeable (safety runs only).
Symmetry == Permutations(Requests) \union Permutations(Trips)
              \union Permutations(Buses)
=============================================================================
