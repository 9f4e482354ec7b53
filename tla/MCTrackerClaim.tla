--------------------------- MODULE MCTrackerClaim ---------------------------
(* Three runs on two daemons claim one issue, for TLC. *)
EXTENDS TrackerClaim

CONSTANTS r1, r2, r3, d1, d2

\* The first run has a daemon of its own; the others share one.
TwoDaemons == [r \in {r1, r2, r3} |-> IF r = r1 THEN d1 ELSE d2]

\* The forge at its best, and at its worst, with windows of the requests' own;
\* and at its worst with the default window for all.
BestAndWorst == {{"read", "post", "windows"}, FaultKinds, FaultKinds \ {"windows"}}
=============================================================================
