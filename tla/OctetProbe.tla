----------------------------- MODULE OctetProbe -----------------------------
(***************************************************************************)
(* TunnelRegistry.allocateOctet (internal/sentinel/tunnel_registry.go):    *)
(* the loopback octets 2..254 are probed from a spot's preferred one, in   *)
(* byte arithmetic.                                                        *)
(***************************************************************************)
EXTENDS Integers

Byte   == 256
Lo     == 2
Hi     == 254
Octets == Lo .. Hi
Slots  == Hi - Lo + 1

\* preferred + i overflows as a byte; only a sum that lands outside 2..254
\* is wrapped by the second formula, which is computed in ints.
Probe(p, i) ==
  LET c == (p + i) % Byte
  IN IF c < Lo \/ c > Hi THEN Lo + ((p + i - Lo) % Slots) ELSE c

Tries == 0 .. Slots - 1

Probed(p) == {Probe(p, i) : i \in Tries}
=============================================================================
