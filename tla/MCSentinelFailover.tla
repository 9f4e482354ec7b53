------------------------- MODULE MCSentinelFailover -------------------------
(* Small instances of SentinelFailover: one or two spots, with or without   *)
(* the GCP backend, in a calm environment and in two where all goes wrong.  *)
EXTENDS SentinelFailover

CONSTANTS a, b
Two == {a, b}
One == {a}

Peace(daemons) == [faults |-> {}, serial |-> TRUE, supersedes |-> FALSE,
                   daemons |-> daemons, objs |-> MaxObjs, flaps |-> MaxFlaps]
Rough(serial) == [faults |-> {"forwarding", "page", "listen"}, serial |-> serial,
                  supersedes |-> TRUE, daemons |-> {"gcp"}, objs |-> 2, flaps |-> 1]

All == {Peace({"gcp"}), Rough(TRUE), Rough(FALSE)}
GcpFails == {Peace({"gcp"})}
SpotFails == {Peace({a})}
=============================================================================
