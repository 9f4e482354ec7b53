--------------------------- MODULE TunnelRegistry ---------------------------
(***************************************************************************)
(* internal/sentinel/tunnel_registry.go: the spots connected by a reverse  *)
(* tunnel.  A registration is identified by its generation, which also     *)
(* names its yamux session.  Each operator is a call under the registry's  *)
(* lock, and says nothing of the caller's state.                           *)
(***************************************************************************)
EXTENDS OctetProbe

CONSTANTS Spots,
          Preferred,   \* preferredOctet, the hash of a spot id
          MaxGen       \* bound on registrations

ASSUME RegistryAssumption ==
  /\ Preferred \in [Spots -> Octets]
  /\ MaxGen \in Nat

VARIABLES spots,     \* the generation a spot is registered with, 0 when it is not
          local,     \* the octet of the registered spot's LocalIP
          port,      \* the octet its ExternalPort is computed from
          usedIPs,   \* pairs of an octet and the spot it is reserved for
          nextGen,
          open       \* the generations whose session is open

registryVars == <<spots, local, port, usedIPs, nextGen, open>>

Gens == 1 .. MaxGen

RegistryTypeOK ==
  /\ spots \in [Spots -> 0 .. nextGen]
  /\ local \in [Spots -> Octets \cup {0}] /\ port \in [Spots -> Octets \cup {0}]
  /\ usedIPs \subseteq Octets \X Spots
  /\ nextGen \in 0 .. MaxGen
  /\ open \subseteq 1 .. nextGen

RegistryInit ==
  /\ spots = [s \in Spots |-> 0]
  /\ local = [s \in Spots |-> 0] /\ port = [s \in Spots |-> 0]
  /\ usedIPs = {} /\ nextGen = 0 /\ open = {}

OctetsOf(s) == {u[1] : u \in {v \in usedIPs : v[2] = s}}
Used(o) == \E u \in usedIPs : u[1] = o

\* The try at which the probe sequence meets its first free octet.
FirstFree(s, i) == /\ ~Used(Probe(Preferred[s], i))
                   /\ \A j \in 0 .. i - 1 : Used(Probe(Preferred[s], j))

NewGeneration(s, o, x) ==
  /\ nextGen' = nextGen + 1
  /\ spots' = [spots EXCEPT ![s] = nextGen + 1]
  /\ local' = [local EXCEPT ![s] = o]
  /\ port' = [port EXCEPT ![s] = x]

\* The previous session of the spot is closed and its entry replaced; the
\* address is kept and the alias asserted again.  The octet of the external
\* port is whichever the scan of the map finds first.
Reconnects(s) ==
  /\ spots[s] # 0
  /\ \E x \in OctetsOf(s) : NewGeneration(s, local[s], x)
  /\ open' = (open \ {spots[s]}) \cup {nextGen + 1}
  /\ UNCHANGED usedIPs

Joins_Unreserved(s) ==
  /\ spots[s] = 0
  /\ \E i \in Tries : /\ FirstFree(s, i)
                      /\ NewGeneration(s, Probe(Preferred[s], i), Probe(Preferred[s], i))
  /\ open' = open \cup {nextGen + 1}
  /\ UNCHANGED usedIPs

Joins(s) ==
  /\ spots[s] = 0
  /\ \E i \in Tries :
       /\ FirstFree(s, i)
       /\ LET o == Probe(Preferred[s], i)
          IN NewGeneration(s, o, o) /\ usedIPs' = usedIPs \cup {<<o, s>>}
  /\ open' = open \cup {nextGen + 1}

Register(s) == nextGen < MaxGen /\ (Reconnects(s) \/ Joins(s))

\* Register returns an error after the old entry was deleted: the alias could
\* not be asserted again.  (A new spot whose alias fails changes nothing.)
ReassertFails(s) ==
  /\ spots[s] # 0
  /\ open' = open \ {spots[s]}
  /\ spots' = [spots EXCEPT ![s] = 0]
  /\ UNCHANGED <<local, port, usedIPs, nextGen>>

\* The entry is deleted, and the first octet found that is reserved for the
\* spot is freed.
Drops(s) ==
  /\ spots' = [spots EXCEPT ![s] = 0]
  /\ IF OctetsOf(s) = {} THEN UNCHANGED usedIPs
     ELSE \E o \in OctetsOf(s) : usedIPs' = usedIPs \ {<<o, s>>}
  /\ UNCHANGED <<local, port, nextGen>>

Removes(s) == open' = open \ {spots[s]} /\ Drops(s)

\* The session dies: the spot went away or the keepalive gave up.
SessionCloses(g) ==
  /\ g \in open
  /\ open' = open \ {g}
  /\ UNCHANGED <<spots, local, port, usedIPs, nextGen>>
=============================================================================
