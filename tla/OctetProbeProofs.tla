-------------------------- MODULE OctetProbeProofs --------------------------
(***************************************************************************)
(* What allocateOctet's probe reaches, for the real byte arithmetic.       *)
(***************************************************************************)
EXTENDS OctetProbe, TLAPS

\* Every probe of allocateOctet is an octet of 127.0.0.2 .. 127.0.0.254.
THEOREM ProbeInRange ==
  ASSUME NEW p \in Octets, NEW i \in Tries
  PROVE  Probe(p, i) \in Octets
<1> DEFINE c == (p + i) % Byte
<1>1. p + i \in Int /\ p + i - Lo \in Int
  BY DEF Octets, Tries, Lo, Hi, Slots
<1>2. c \in 0 .. Byte - 1
  BY <1>1 DEF Byte
<1>3. (p + i - Lo) % Slots \in 0 .. Slots - 1
  BY <1>1 DEF Slots, Lo, Hi
<1>4. QED
  BY <1>2, <1>3 DEF Probe, Octets, Slots, Byte, Lo, Hi

\* From the preferred octet p the loop reaches every octet but, at most, the
\* three just below p: going up it needs o - p tries, and past the end of the
\* byte range o - p + 256, which is within the 253 tries unless o >= p - 3.
THEOREM ProbeReaches ==
  ASSUME NEW p \in Octets, NEW o \in Octets, o \notin p - 3 .. p - 1
  PROVE  o \in Probed(p)
<1>1. CASE o >= p
  <2>1. o - p \in Tries /\ p + (o - p) = o
    BY <1>1 DEF Octets, Tries, Lo, Hi, Slots
  <2>2. o % Byte = o
    BY DEF Octets, Byte, Lo, Hi
  <2>3. Probe(p, o - p) = o
    BY <2>1, <2>2 DEF Probe, Octets, Lo, Hi
  <2>4. QED
    BY <2>1, <2>3 DEF Probed
<1>2. CASE o < p
  <2>1. o - p + Byte \in Tries /\ p + (o - p + Byte) = o + Byte
    BY <1>2 DEF Octets, Tries, Lo, Hi, Slots, Byte
  <2>2. (o + Byte) % Byte = o
    BY DEF Octets, Byte, Lo, Hi
  <2>3. Probe(p, o - p + Byte) = o
    BY <2>1, <2>2 DEF Probe, Octets, Lo, Hi
  <2>4. QED
    BY <2>1, <2>3 DEF Probed
<1>3. QED
  BY <1>1, <1>2 DEF Octets, Lo, Hi

\* When allocateOctet finds every octet it tries in use and gives up, each octet
\* it overlooked is one of the three just below the spot's preferred one.
THEOREM OverlooksAtMostThree ==
  \A p \in Octets : Octets \ Probed(p) \subseteq p - 3 .. p - 1
<1> SUFFICES ASSUME NEW p \in Octets, NEW o \in Octets, o \notin Probed(p)
             PROVE  o \in p - 3 .. p - 1
  OBVIOUS
<1> QED
  BY ProbeReaches
=============================================================================
