------------------------- MODULE MCTrackerDispatch -------------------------
(* Small instances of TrackerDispatch for TLC. *)
EXTENDS TrackerDispatch, TLC

\* Rows and ticks are interchangeable: ids are minted at random.
Symmetry == Permutations(Rows) \cup Permutations(Ticks)
============================================================================
