--------------------------- MODULE MCTunnelServer ---------------------------
(* Two spots whose ids hash to the last octet, so that the second probes    *)
(* past the end of the range.                                               *)
EXTENDS TunnelServer

CONSTANTS a, b
Two  == {a, b}
Last == [s \in Two |-> 254]
=============================================================================
