------------------------- MODULE TunnelServerProofs -------------------------
(***************************************************************************)
(* Tunnels of any number of spots, reconnecting and failing any number of  *)
(* times: their loopback addresses never collide, and the goroutines of an *)
(* earlier session never take the listeners of a live one, nor, as long as *)
(* they are not overtaken in a callback, its backend.                      *)
(***************************************************************************)
EXTENDS TunnelServer, OctetProbeProofs

Known == 1 .. nextGen    \* the generations given out so far

---------------------------------------------------------------------------
(* The inductive invariant.                                                *)

\* A generation belongs to a spot, and was told of a registration that exists.
Belongs ==
  /\ \A g \in Known : conn[g] \in Spots /\ (pc[g] = "notify" => got[g] # 0)
  /\ \A g \in Gens : got[g] <= nextGen

\* An octet is reserved for one spot; a registered spot's is.
Reserved ==
  /\ \A u, v \in usedIPs : u[1] = v[1] => u = v
  /\ \A s \in Spots : spots[s] # 0 => <<local[s], s>> \in usedIPs

\* The registered generation of a spot is its newest, so that no other one of
\* the spot can have newer listeners.
Newest ==
  \A s \in Spots :
    /\ spots[s] # 0 => conn[spots[s]] = s /\ \A h \in Known : conn[h] = s => h <= spots[s]
    /\ proxies[s] # 0 => conn[proxies[s]] = s

\* The goroutines of an overtaken session are past the handshake and will not
\* call OnTunnelDisconnect.
Settled ==
  Prompt => \A g \in Known : spots[conn[g]] \notin {0, g} => pc[g] \in {"monitor", "unregister", "done"}

\* A set that is installed was not closed, and one that was not closed is
\* installed.
Past == {"get", "notify", "monitor"}
Kept == \A s \in Spots : spots[s] \in open /\ pc[spots[s]] \in Past => proxies[s] = spots[s]
Listening ==
  /\ NoStrayListener
  /\ \A s \in Spots : proxies[s] # 0 => ears[proxies[s]] # "none"

Backed == Prompt => LiveTunnelKeepsBackend

IInv == TypeOK /\ Belongs /\ Reserved /\ Newest /\ Kept /\ Listening /\ Settled /\ Backed

---------------------------------------------------------------------------
(* Small facts.                                                            *)

LEMMA KnownGens ==
  ASSUME TypeOK
  PROVE  /\ nextGen \in Nat /\ Known \subseteq Gens
         /\ \A g \in Gens : g \in Known <=> pc[g] # "none"
         /\ open \subseteq Known
         /\ \A s \in Spots : /\ spots[s] \in Known \cup {0} /\ proxies[s] \in Known \cup {0}
                             /\ pool[s] \in Known \cup {0}
<1> USE RegistryAssumption DEF TypeOK, RegistryTypeOK, Known, Gens
<1>1. nextGen \in Nat /\ Known \subseteq Gens /\ open \subseteq Known
  OBVIOUS
<1>2. \A g \in Gens : g \in Known <=> pc[g] # "none"
  OBVIOUS
<1>3. \A s \in Spots : /\ spots[s] \in 0 .. nextGen /\ proxies[s] \in 0 .. nextGen
                       /\ pool[s] \in 0 .. nextGen
  OBVIOUS
<1>4. QED
  BY <1>1, <1>2, <1>3

LEMMA GoesMoves ==
  ASSUME TypeOK, NEW g \in Gens, NEW to \in Steps, Goes(g, to)
  PROVE  /\ pc' \in [Gens -> Steps] /\ pc'[g] = to
         /\ \A h \in Gens : h # g => pc'[h] = pc[h]
BY DEF TypeOK, Goes

\* A step that only moves one goroutine keeps what is said of the others.
LEMMA StepsTyped ==
  ASSUME TypeOK, NEW g \in Known, NEW to \in Steps \ {"none"}, Goes(g, to), nextGen' = nextGen
  PROVE  /\ pc' \in [Gens -> Steps] /\ pc'[g] = to
         /\ \A h \in Gens : h # g => pc'[h] = pc[h]
         /\ \A h \in Gens : pc'[h] = "none" <=> h > nextGen'
<1>1. g \in Gens /\ ~(g > nextGen)
  BY KnownGens DEF Known
<1>2. pc' \in [Gens -> Steps] /\ pc'[g] = to /\ \A h \in Gens : h # g => pc'[h] = pc[h]
  BY <1>1, GoesMoves
<1>3. QED
  BY <1>1, <1>2 DEF TypeOK

\* What keeps the listeners.
LEMMA ListeningKept ==
  ASSUME TypeOK, Listening, UNCHANGED <<proxies, ears>>,
         \A h \in Known : conn'[h] = conn[h] /\ (pc[h] \in Past => pc'[h] \in Past)
  PROVE  Listening'
<1>1. \A g \in Gens : ears[g] # "none" => g \in Known
  BY KnownGens DEF Listening, NoStrayListener
<1>2. NoStrayListener'
  BY <1>1 DEF Listening, NoStrayListener, Past
<1>3. QED
  BY <1>2 DEF Listening

---------------------------------------------------------------------------
(* The registry.                                                           *)

\* Unregistering a spot, or closing sessions, keeps every other address.
Leaves(s) ==
  /\ spots' \in [Spots -> 0 .. nextGen]
  /\ spots'[s] \in {0, spots[s]}
  /\ \A t \in Spots : t # s => spots'[t] = spots[t]
  /\ open' \subseteq open
  /\ usedIPs' \subseteq usedIPs
  /\ UNCHANGED <<local, port, nextGen>>
  /\ Reserved'

LEMMA DropsLeaves ==
  ASSUME TypeOK, Reserved, NEW s \in Spots, Drops(s), open' \subseteq open
  PROVE  Leaves(s) /\ spots'[s] = 0
<1>1. /\ spots' = [spots EXCEPT ![s] = 0] /\ UNCHANGED <<local, port, nextGen>>
      /\ usedIPs' = usedIPs \/ \E o \in OctetsOf(s) : usedIPs' = usedIPs \ {<<o, s>>}
  BY DEF Drops
<1>2. /\ spots' \in [Spots -> 0 .. nextGen] /\ spots'[s] = 0
      /\ \A t \in Spots : t # s => spots'[t] = spots[t]
  <2>1. 0 \in 0 .. nextGen
    BY KnownGens
  <2>2. QED
    BY <1>1, <2>1 DEF TypeOK, RegistryTypeOK
<1>3. usedIPs' \subseteq usedIPs /\ \A t \in Spots : \A o : t # s /\ <<o, t>> \in usedIPs => <<o, t>> \in usedIPs'
  BY <1>1
<1>4. Reserved'
  BY <1>1, <1>2, <1>3 DEF Reserved
<1>5. QED
  BY <1>1, <1>2, <1>3, <1>4 DEF Leaves

LEMMA RegistryLeaves ==
  ASSUME TypeOK, Reserved, NEW s \in Spots
  PROVE  /\ ReassertFails(s) => Leaves(s) /\ spots'[s] = 0
         /\ Removes(s) => Leaves(s) /\ spots'[s] = 0
         /\ \A g \in open : SessionCloses(g) => Leaves(s) /\ spots' = spots
         /\ UNCHANGED registryVars => Leaves(s) /\ spots' = spots
<1>1. ASSUME ReassertFails(s) PROVE Leaves(s) /\ spots'[s] = 0
  <2>1. spots' = [spots EXCEPT ![s] = 0] /\ UNCHANGED <<local, port, usedIPs, nextGen>>
        /\ open' \subseteq open
    BY <1>1 DEF ReassertFails
  <2>2. 0 \in 0 .. nextGen
    BY KnownGens
  <2>3. /\ spots' \in [Spots -> 0 .. nextGen] /\ spots'[s] = 0
        /\ \A t \in Spots : t # s => spots'[t] = spots[t]
    BY <2>1, <2>2 DEF TypeOK, RegistryTypeOK
  <2>4. Reserved'
    BY <2>1, <2>3 DEF Reserved
  <2>5. QED
    BY <2>1, <2>3, <2>4 DEF Leaves
<1>2. ASSUME Removes(s) PROVE Leaves(s) /\ spots'[s] = 0
  BY <1>2, DropsLeaves DEF Removes
<1>3. ASSUME UNCHANGED <<spots, local, port, usedIPs, nextGen>>, open' \subseteq open
      PROVE  Leaves(s) /\ spots' = spots
  BY <1>3 DEF Leaves, TypeOK, RegistryTypeOK, Reserved
<1>4. QED
  BY <1>1, <1>2, <1>3 DEF SessionCloses, registryVars

\* A registration gets the next generation and an address of its own.
LEMMA RegisterAdds ==
  ASSUME TypeOK, Reserved, NEW s \in Spots, Register(s)
  PROVE  /\ RegistryTypeOK' /\ Reserved'
         /\ nextGen' = nextGen + 1 /\ nextGen' \in Gens
         /\ spots'[s] = nextGen + 1
         /\ \A t \in Spots : t # s => spots'[t] = spots[t]
         /\ open' \subseteq open \cup {nextGen + 1}
<1> USE DEF TypeOK, RegistryTypeOK
<1>1. nextGen \in Nat /\ nextGen' = nextGen + 1 /\ nextGen' \in Gens /\ nextGen' \in 0 .. MaxGen
  BY RegistryAssumption, KnownGens DEF Register, Reconnects, Joins, NewGeneration, Gens
<1>2. /\ spots' = [spots EXCEPT ![s] = nextGen + 1]
      /\ open' \subseteq open \cup {nextGen + 1}
  BY DEF Register, Reconnects, Joins, NewGeneration
<1>3. /\ spots' \in [Spots -> 0 .. nextGen'] /\ spots'[s] = nextGen + 1
      /\ \A t \in Spots : t # s => spots'[t] = spots[t]
  <2>1. 0 .. nextGen \subseteq 0 .. nextGen' /\ nextGen + 1 \in 0 .. nextGen'
    BY <1>1
  <2>2. QED
    BY <1>2, <2>1
<1>4. open' \subseteq 1 .. nextGen'
  <2>1. 1 .. nextGen \subseteq 1 .. nextGen' /\ nextGen + 1 \in 1 .. nextGen'
    BY <1>1
  <2>2. QED
    BY <1>2, <2>1
<1>5. /\ local' \in [Spots -> Octets \cup {0}] /\ port' \in [Spots -> Octets \cup {0}]
      /\ usedIPs' \subseteq Octets \X Spots /\ Reserved'
  <2>1. CASE Reconnects(s)
    <3>1. PICK x \in OctetsOf(s) : NewGeneration(s, local[s], x)
      BY <2>1 DEF Reconnects
    <3>2. x \in Octets
      BY <3>1 DEF OctetsOf
    <3>3. local' = local /\ usedIPs' = usedIPs /\ port' = [port EXCEPT ![s] = x] /\ spots[s] # 0
      BY <2>1, <3>1 DEF Reconnects, NewGeneration
    <3>4. Reserved'
      BY <3>3, <1>3 DEF Reserved
    <3>5. QED
      BY <3>2, <3>3, <3>4
  <2>2. CASE Joins(s)
    <3>1. PICK i \in Tries : /\ FirstFree(s, i)
                             /\ NewGeneration(s, Probe(Preferred[s], i), Probe(Preferred[s], i))
                             /\ usedIPs' = usedIPs \cup {<<Probe(Preferred[s], i), s>>}
      BY <2>2 DEF Joins
    <3>2. PICK o \in Octets : o = Probe(Preferred[s], i)
      BY ProbeInRange, RegistryAssumption
    <3>3. /\ local' = [local EXCEPT ![s] = o] /\ port' = [port EXCEPT ![s] = o]
          /\ usedIPs' = usedIPs \cup {<<o, s>>}
      BY <3>1, <3>2, Zenon DEF NewGeneration
    <3>4. ~ Used(o)
      BY <3>1, <3>2, Zenon DEF FirstFree
    <3>5. \A u, v \in usedIPs' : u[1] = v[1] => u = v
      BY <3>3, <3>4 DEF Used, Reserved
    <3>6. ASSUME NEW t \in Spots, spots'[t] # 0 PROVE <<local'[t], t>> \in usedIPs'
      <4>1. CASE t = s
        BY <4>1, <3>3
      <4>2. CASE t # s
        BY <4>2, <3>3, <3>6, <1>3 DEF Reserved
      <4>3. QED
        BY <4>1, <4>2
    <3>7. Reserved'
      BY <3>5, <3>6 DEF Reserved
    <3>8. QED
      BY <3>3, <3>7
  <2>3. QED
    BY <2>1, <2>2 DEF Register
<1>6. QED
  BY <1>1, <1>3, <1>4, <1>5, <1>2

---------------------------------------------------------------------------
(* One lemma per group of actions.                                         *)

\* A spot that is unregistered, or a session that ends, takes nothing from a
\* tunnel that stays.
LEMMA LeaveStep ==
  ASSUME IInv, NEW s \in Spots, Leaves(s),
         pc' \in [Gens -> Steps], \A h \in Gens : pc'[h] = "none" <=> h > nextGen',
         \A h \in Gens : \/ pc'[h] = pc[h] \/ pc'[h] = "done"
                         \/ pc'[h] = "disconnect" /\ conn[h] = s /\ spots'[s] = 0,
         \A h \in Gens : pc'[h] = pc[h] \/ pc[h] \notin Past,
         UNCHANGED <<conn, got, proxies, ears, pool>>
  PROVE  IInv'
<1> USE DEF IInv
<1>1. /\ nextGen' = nextGen /\ Known' = Known /\ open' \subseteq open /\ Reserved'
      /\ \A t \in Spots : spots'[t] \in {0, spots[t]}
  BY DEF Leaves, Known
<1>2. TypeOK'
  BY <1>1 DEF Leaves, TypeOK, RegistryTypeOK
<1>3. Known \subseteq Gens /\ 0 \notin open
  BY KnownGens DEF Known
<1>4. Belongs'
  BY <1>1, <1>3 DEF Belongs
<1>5. Newest'
  BY <1>1 DEF Newest
<1>6. Kept'
  BY <1>1, <1>3, KnownGens DEF Kept, Past
<1>7. Settled'
  <2>1. SUFFICES ASSUME Prompt, NEW g \in Known, spots'[conn[g]] \notin {0, g}
                 PROVE  pc'[g] \in {"monitor", "unregister", "done"}
    BY <1>1 DEF Settled
  <2>2. spots[conn[g]] \notin {0, g}
    BY <2>1, <1>1 DEF Belongs
  <2>3. QED
    BY <2>1, <2>2, <1>3 DEF Settled
<1>8. Backed'
  BY <1>1, <1>3, KnownGens DEF Backed, LiveTunnelKeepsBackend
<1>9. Listening'
  BY <1>3, ListeningKept
<1>10. QED
  BY <1>1, <1>2, <1>4, <1>5, <1>6, <1>7, <1>8, <1>9

LEMMA RefusedStep ==
  ASSUME IInv, NEW s \in Spots, RefusedReconnect(s)
  PROVE  IInv'
<1>1. Leaves(s) /\ UNCHANGED <<conn, pc, got, proxies, ears, pool>> /\ nextGen' = nextGen
  BY RegistryLeaves DEF RefusedReconnect, IInv, serverVars, Leaves
<1>2. pc' \in [Gens -> Steps] /\ \A h \in Gens : pc'[h] = "none" <=> h > nextGen'
  BY <1>1 DEF IInv, TypeOK
<1>3. QED
  BY <1>1, <1>2, LeaveStep

LEMMA SessionEndsStep ==
  ASSUME IInv, NEW g \in Gens, SessionEnds(g)
  PROVE  IInv'
<1>1. g \in open /\ g \in Known /\ conn[g] \in Spots
  BY KnownGens DEF SessionEnds, SessionCloses, IInv, Belongs
<1>2. PICK s \in Spots : s = conn[g]
  BY <1>1
<1>3. Leaves(s) /\ UNCHANGED <<conn, pc, got, proxies, ears, pool>> /\ nextGen' = nextGen
  BY <1>1, RegistryLeaves DEF SessionEnds, IInv, serverVars, Leaves
<1>4. pc' \in [Gens -> Steps] /\ \A h \in Gens : pc'[h] = "none" <=> h > nextGen'
  BY <1>3 DEF IInv, TypeOK
<1>5. QED
  BY <1>3, <1>4, LeaveStep

LEMMA RespondFailsStep ==
  ASSUME IInv, NEW g \in Gens, RespondFails(g)
  PROVE  IInv'
<1> USE DEF IInv
<1>1. g \in Known /\ conn[g] \in Spots
  BY KnownGens DEF RespondFails, Belongs
<1>2. PICK s \in Spots : s = conn[g]
  BY <1>1
<1>3. /\ open' \subseteq open /\ Goes(g, "done") /\ UNCHANGED <<conn, got, proxies, ears, pool>>
      /\ UNCHANGED <<spots, local, port, usedIPs, nextGen>> \/ Drops(s)
  BY <1>2 DEF RespondFails
<1>4. Leaves(s)
  <2>1. CASE UNCHANGED <<spots, local, port, usedIPs, nextGen>>
    BY <1>3, <2>1 DEF Leaves, TypeOK, RegistryTypeOK, Reserved
  <2>2. CASE Drops(s)
    BY <1>3, <2>2, DropsLeaves
  <2>3. QED
    BY <1>3, <2>1, <2>2
<1>5. /\ pc' \in [Gens -> Steps] /\ pc'[g] = "done"
      /\ \A h \in Gens : h # g => pc'[h] = pc[h]
      /\ \A h \in Gens : pc'[h] = "none" <=> h > nextGen'
  BY <1>1, <1>3, <1>4, StepsTyped DEF Steps, Leaves
<1>6. pc[g] \notin Past
  BY DEF RespondFails, Past
<1>7. QED
  BY <1>3, <1>4, <1>5, <1>6, LeaveStep

LEMMA UnregisterStep ==
  ASSUME IInv, NEW g \in Gens, UnregisterIfCurrent(g)
  PROVE  IInv'
<1> USE DEF IInv
<1>1. g \in Known /\ conn[g] \in Spots
  BY KnownGens DEF UnregisterIfCurrent, Belongs
<1>2. PICK s \in Spots : s = conn[g]
  BY <1>1
<1>3. /\ UNCHANGED <<conn, got, proxies, ears, pool>>
      /\ \/ Removes(s) /\ Goes(g, "disconnect")
         \/ UNCHANGED registryVars /\ Goes(g, "done")
  BY <1>2 DEF UnregisterIfCurrent
<1>4. Leaves(s) /\ (Removes(s) => spots'[s] = 0)
  BY <1>3, RegistryLeaves
<1>5. PICK to \in {"disconnect", "done"} : Goes(g, to) /\ (to = "disconnect" => spots'[s] = 0)
  BY <1>3, <1>4
<1>6. /\ pc' \in [Gens -> Steps] /\ pc'[g] = to
      /\ \A h \in Gens : h # g => pc'[h] = pc[h]
      /\ \A h \in Gens : pc'[h] = "none" <=> h > nextGen'
  BY <1>1, <1>4, <1>5, StepsTyped DEF Steps, Leaves
<1>7. \A h \in Gens : \/ pc'[h] = pc[h] \/ pc'[h] = "done"
                      \/ pc'[h] = "disconnect" /\ conn[h] = s /\ spots'[s] = 0
  BY <1>2, <1>5, <1>6
<1>8. pc[g] \notin Past
  BY DEF UnregisterIfCurrent, Past
<1>9. QED
  BY <1>3, <1>4, <1>6, <1>7, <1>8, LeaveStep

\* A new registration starts at the handshake, when the earlier goroutines of
\* its spot are past theirs.
LEMMA AcceptStep ==
  ASSUME IInv, NEW s \in Spots, Accept(s)
  PROVE  IInv'
<1> USE DEF IInv
<1> DEFINE n == nextGen + 1
<1>1. /\ RegistryTypeOK' /\ Reserved' /\ nextGen' = n /\ n \in Gens
      /\ spots'[s] = n /\ \A t \in Spots : t # s => spots'[t] = spots[t]
      /\ open' \subseteq open \cup {n}
  BY RegisterAdds DEF Accept
<1>2. /\ conn' = [conn EXCEPT ![n] = s] /\ Goes(n, "respond") /\ UNCHANGED <<got, proxies, ears, pool>>
  BY <1>1 DEF Accept
<1>3. /\ nextGen \in Nat /\ Known \subseteq Gens /\ n \notin Known /\ n \notin open
      /\ Known' = Known \cup {n} /\ \A h \in Known : h < n
  BY <1>1, KnownGens DEF Known
<1>4. /\ conn' \in [Gens -> Spots \cup {"none"}] /\ conn'[n] = s
      /\ \A h \in Known : conn'[h] = conn[h]
  BY <1>1, <1>2, <1>3 DEF TypeOK
<1>5. /\ pc' \in [Gens -> Steps] /\ pc'[n] = "respond"
      /\ \A h \in Gens : h # n => pc'[h] = pc[h]
  BY <1>1, <1>2, GoesMoves DEF Steps, Handshake
<1> HIDE DEF n
<1>6. TypeOK'
  <2>1. \A h \in Gens : pc'[h] = "none" <=> h > nextGen'
    <3>1. n = nextGen + 1
      BY DEF n
    <3>2. QED
      BY <3>1, <1>1, <1>3, <1>5 DEF TypeOK, Gens
  <2>2. 0 .. nextGen \subseteq 0 .. nextGen'
    BY <1>1, <1>3 DEF n
  <2>3. proxies' \in [Spots -> 0 .. nextGen'] /\ pool' \in [Spots -> 0 .. nextGen']
    BY <1>2, <2>2 DEF TypeOK
  <2>4. QED
    BY <1>1, <1>2, <1>4, <1>5, <2>1, <2>3 DEF TypeOK
<1>7. Belongs'
  <2>1. nextGen' = nextGen + 1 /\ \A g \in Gens : got[g] \in Int
    BY <1>1 DEF TypeOK, n
  <2>2. \A g \in Gens : got[g] <= nextGen'
    BY <2>1, <1>3 DEF Belongs
  <2>3. QED
    BY <2>2, <1>2, <1>3, <1>4, <1>5 DEF Belongs
<1>8. Newest'
  <2>1. SUFFICES ASSUME NEW t \in Spots
                 PROVE  /\ spots'[t] # 0 => /\ conn'[spots'[t]] = t
                                            /\ \A h \in Known' : conn'[h] = t => h <= spots'[t]
                        /\ proxies'[t] # 0 => conn'[proxies'[t]] = t
    BY DEF Newest
  <2>2. proxies'[t] # 0 => conn'[proxies'[t]] = t
    BY <1>2, <1>4, KnownGens DEF Newest
  <2>3. CASE t = s
    <3>1. \A h \in Known' : h <= n
      BY <1>3 DEF n, Known
    <3>2. QED
      BY <2>2, <2>3, <3>1, <1>1, <1>4
  <2>4. CASE t # s
    BY <2>2, <2>4, <1>1, <1>3, <1>4, KnownGens DEF Newest
  <2>5. QED
    BY <2>3, <2>4
<1>9. \A t \in Spots : spots'[t] \in open' /\ pc'[spots'[t]] # "respond"
                        => t # s /\ spots'[t] = spots[t] /\ spots[t] \in open
  BY <1>1, <1>3, <1>5, KnownGens
<1>10. Kept'
  BY <1>1, <1>2, <1>3, <1>5, <1>9, KnownGens DEF Kept, Past
<1>11. Settled'
  <2>1. SUFFICES ASSUME Prompt, NEW g \in Known', spots'[conn'[g]] \notin {0, g}
                 PROVE  pc'[g] \in {"monitor", "unregister", "done"}
    BY DEF Settled
  <2>2. g \in Known /\ g # n /\ conn'[g] = conn[g] /\ pc'[g] = pc[g] /\ conn[g] \in Spots
    BY <2>1, <1>1, <1>3, <1>4, <1>5 DEF Belongs
  <2>3. CASE conn[g] = s
    <3>1. pc[g] \notin Handshake \cup {"disconnect"} /\ pc[g] # "none" /\ pc[g] \in Steps
      BY <2>1, <2>2, <2>3, <1>3, KnownGens DEF Accept, MayConnect, TypeOK
    <3>2. QED
      BY <2>2, <3>1 DEF Steps, Handshake
  <2>4. CASE conn[g] # s
    BY <2>1, <2>2, <2>4, <1>1 DEF Settled
  <2>5. QED
    BY <2>3, <2>4
<1>12. Backed'
  BY <1>1, <1>2, <1>3, <1>5, <1>9, KnownGens DEF Backed, LiveTunnelKeepsBackend
<1>13. Listening'
  BY <1>2, <1>3, <1>4, <1>5, ListeningKept
<1>14. QED
  BY <1>1, <1>6, <1>7, <1>8, <1>10, <1>11, <1>12, <1>13

\* What a step of handleConnection or monitorSession leaves alone when it does
\* not go to the registry.
LEMMA OffRegistry ==
  ASSUME IInv, NEW g \in Gens, NEW to \in Steps \ {"none"}, Goes(g, to), pc[g] # "none",
         UNCHANGED <<registryVars, conn>>
  PROVE  /\ g \in Known /\ conn[g] \in Spots /\ Known' = Known /\ Known \subseteq Gens
         /\ RegistryTypeOK' /\ Reserved'
         /\ UNCHANGED <<spots, open, nextGen>>
         /\ pc' \in [Gens -> Steps] /\ pc'[g] = to
         /\ \A h \in Gens : h # g => pc'[h] = pc[h]
         /\ \A h \in Gens : pc'[h] = "none" <=> h > nextGen'
<1> USE DEF IInv, registryVars
<1>1. g \in Known /\ Known \subseteq Gens /\ conn[g] \in Spots
  BY KnownGens DEF Belongs
<1>2. Known' = Known /\ UNCHANGED <<spots, open, nextGen>>
  BY DEF Known
<1>3. RegistryTypeOK' /\ Reserved'
  BY DEF TypeOK, RegistryTypeOK, Reserved
<1>4. /\ pc' \in [Gens -> Steps] /\ pc'[g] = to
      /\ \A h \in Gens : h # g => pc'[h] = pc[h]
      /\ \A h \in Gens : pc'[h] = "none" <=> h > nextGen'
  BY <1>1, <1>2, StepsTyped
<1>5. QED
  BY <1>1, <1>2, <1>3, <1>4

LEMMA RespondStep ==
  ASSUME IInv, NEW g \in Gens, Respond(g)
  PROVE  IInv'
<1> USE DEF IInv
<1>1. Goes(g, "proxies") /\ pc[g] = "respond" /\ UNCHANGED <<registryVars, conn, got, proxies, ears, pool>>
  BY DEF Respond
<1>2. /\ g \in Known /\ conn[g] \in Spots /\ Known' = Known /\ Known \subseteq Gens
      /\ RegistryTypeOK' /\ Reserved' /\ UNCHANGED <<spots, open, nextGen>>
      /\ pc' \in [Gens -> Steps] /\ pc'[g] = "proxies"
      /\ \A h \in Gens : h # g => pc'[h] = pc[h]
      /\ \A h \in Gens : pc'[h] = "none" <=> h > nextGen'
  BY <1>1, OffRegistry DEF Steps, Handshake
<1>3. TypeOK' /\ Belongs' /\ Newest'
  BY <1>1, <1>2 DEF TypeOK, Belongs, Newest
<1>4. Kept' /\ Backed'
  BY <1>1, <1>2, KnownGens DEF Kept, Past, Backed, LiveTunnelKeepsBackend
<1>5. Settled'
  BY <1>1, <1>2 DEF Settled
<1>6. Listening'
  BY <1>1, <1>2, ListeningKept DEF Past
<1>7. QED
  BY <1>2, <1>3, <1>4, <1>5, <1>6

Ears == {"none", "own", "localhost", "failed"}

LEMMA BindsTyped ==
  ASSUME NEW e
  PROVE  Binds(e) \subseteq Ears \ {"none"}
BY DEF Binds, Ears

\* Listeners are replaced by newer ones only.
LEMMA StartProxiesStep ==
  ASSUME IInv, NEW g \in Gens, StartProxies(g)
  PROVE  IInv'
<1> USE DEF IInv
<1>1. Goes(g, "get") /\ pc[g] = "proxies" /\ UNCHANGED <<registryVars, conn, got, pool>>
  BY DEF StartProxies
<1>2. /\ g \in Known /\ conn[g] \in Spots /\ Known' = Known /\ Known \subseteq Gens
      /\ RegistryTypeOK' /\ Reserved' /\ UNCHANGED <<spots, open, nextGen>>
      /\ pc' \in [Gens -> Steps] /\ pc'[g] = "get"
      /\ \A h \in Gens : h # g => pc'[h] = pc[h]
      /\ \A h \in Gens : pc'[h] = "none" <=> h > nextGen'
  BY <1>1, OffRegistry DEF Steps, Handshake
<1>3. PICK s \in Spots : s = conn[g]
  BY <1>2
<1>4. /\ proxies' = IF proxies[s] > g THEN proxies ELSE [proxies EXCEPT ![s] = g]
      /\ proxies[s] > g => ears' = ears
      /\ ~(proxies[s] > g) => \E at \in Binds(Closed(s)) : ears' = [Closed(s) EXCEPT ![g] = at]
  BY <1>3 DEF StartProxies
<1>5. g \in 0 .. nextGen /\ proxies[s] \in 0 .. nextGen /\ nextGen \in Nat
  BY <1>2, KnownGens DEF Known, TypeOK
<1>6. /\ proxies' \in [Spots -> 0 .. nextGen] /\ proxies'[s] \in {g, proxies[s]}
      /\ ~(proxies[s] > g) => proxies'[s] = g
      /\ \A t \in Spots : t # s => proxies'[t] = proxies[t]
  BY <1>4, <1>5 DEF TypeOK
<1>7. /\ ears' \in [Gens -> Ears]
      /\ proxies[s] > g => ears' = ears
      /\ ~(proxies[s] > g) => /\ ears'[g] # "none"
                              /\ \A h \in Gens : h # g => ears'[h] = IF h = proxies[s] THEN "none" ELSE ears[h]
  <2>1. ears \in [Gens -> Ears]
    BY DEF TypeOK, Ears
  <2>2. CASE proxies[s] > g
    BY <1>4, <2>1, <2>2
  <2>3. CASE ~(proxies[s] > g)
    <3>1. PICK at \in Binds(Closed(s)) : ears' = [Closed(s) EXCEPT ![g] = at]
      BY <1>4, <2>3
    <3>2. at \in Ears \ {"none"}
      BY <3>1, BindsTyped
    <3>3. Closed(s) \in [Gens -> Ears] /\ \A h \in Gens : Closed(s)[h] = IF h = proxies[s] THEN "none" ELSE ears[h]
      BY <2>1 DEF Closed, Ears
    <3>4. QED
      BY <2>3, <3>1, <3>2, <3>3
  <2>4. QED
    BY <2>2, <2>3
<1>8. TypeOK' /\ Belongs'
  BY <1>1, <1>2, <1>6, <1>7 DEF TypeOK, Belongs, Ears
<1>9. Newest'
  BY <1>1, <1>2, <1>3, <1>6 DEF Newest
<1>10. Listening'
  <2>1. CASE proxies[s] > g
    BY <1>1, <1>2, <1>4, <2>1, ListeningKept DEF Past
  <2>2. CASE ~(proxies[s] > g)
    <3>1. proxies'[s] = g /\ conn[g] = s
      BY <1>3, <1>6, <2>2
    <3>2. ASSUME NEW h \in Gens, ears'[h] # "none"
          PROVE  proxies'[conn'[h]] = h /\ pc'[h] \in Past
      <4>1. CASE h = g
        BY <1>1, <1>2, <3>1, <4>1 DEF Past
      <4>2. CASE h # g
        <5>1. h # proxies[s] /\ ears[h] # "none"
          BY <1>7, <2>2, <3>2, <4>2
        <5>2. proxies[conn[h]] = h /\ pc[h] \in Past
          BY <5>1 DEF Listening, NoStrayListener, Past
        <5>3. h \in Known /\ conn[h] \in Spots
          BY <5>2, KnownGens DEF Past, Belongs
        <5>4. conn[h] # s
          BY <5>1, <5>2
        <5>5. QED
          BY <1>1, <1>2, <1>6, <4>2, <5>2, <5>3, <5>4
      <4>3. QED
        BY <4>1, <4>2
    <3>3. ASSUME NEW r \in Spots, proxies'[r] # 0
          PROVE  ears'[proxies'[r]] # "none"
      <4>1. CASE r = s
        BY <1>7, <2>2, <3>1, <4>1
      <4>2. CASE r # s
        <5>1. proxies'[r] = proxies[r] /\ conn[proxies[r]] = r /\ proxies[r] \in Gens
          BY <1>6, <3>3, <4>2, KnownGens DEF Newest
        <5>2. proxies[r] # g /\ proxies[r] # proxies[s]
          BY <3>1, <3>3, <4>2, <5>1 DEF Newest
        <5>3. QED
          BY <1>7, <2>2, <3>3, <5>1, <5>2 DEF Listening
      <4>3. QED
        BY <4>1, <4>2
    <3>4. QED
      BY <3>2, <3>3 DEF Listening, NoStrayListener, Past
  <2>3. QED
    BY <2>1, <2>2
<1>11. Kept'
  <2>1. SUFFICES ASSUME NEW t \in Spots, spots[t] \in open,
                        pc'[spots[t]] \in Past
                 PROVE  proxies'[t] = spots[t]
    BY <1>2 DEF Kept
  <2>2. spots[t] \in Known /\ spots[t] # 0 /\ conn[spots[t]] = t
    BY <2>1, KnownGens DEF Newest, Known
  <2>3. CASE spots[t] = g
    <3>1. t = s /\ \A h \in Known : conn[h] = s => h <= g
      BY <2>2, <2>3, <1>3 DEF Newest
    <3>2. ~(proxies[s] > g)
      <4>1. proxies[s] # 0 => proxies[s] \in Known /\ conn[proxies[s]] = s
        BY <1>3, KnownGens DEF Newest
      <4>2. QED
        BY <3>1, <4>1, <1>5, <1>2 DEF Known
    <3>3. QED
      BY <2>3, <3>1, <3>2, <1>6
  <2>4. CASE spots[t] # g
    <3>1. proxies[t] = spots[t]
      BY <2>1, <2>2, <2>4, <1>2 DEF Kept, Past
    <3>2. CASE t = s
      <4>1. g <= spots[t] /\ g # spots[t]
        BY <2>2, <2>4, <3>2, <1>2, <1>3 DEF Newest
      <4>2. proxies[s] > g
        BY <3>1, <3>2, <4>1, <1>5
      <4>3. QED
        BY <3>1, <3>2, <4>2, <1>4
    <3>3. CASE t # s
      BY <3>1, <3>3, <1>6
    <3>4. QED
      BY <3>2, <3>3
  <2>5. QED
    BY <2>3, <2>4
<1>12. Settled'
  BY <1>1, <1>2 DEF Settled
<1>13. Backed'
  BY <1>1, <1>2, KnownGens DEF Backed, LiveTunnelKeepsBackend
<1>14. QED
  BY <1>2, <1>8, <1>9, <1>11, <1>12, <1>13, <1>10

\* registry.Get: a goroutine that finds no registration announces nothing; then
\* it is not the registered one.
LEMMA GetSpotStep ==
  ASSUME IInv, NEW g \in Gens, GetSpot(g)
  PROVE  IInv'
<1> USE DEF IInv
<1>0. PICK to \in {"monitor", "notify"} :
        Goes(g, to) /\ (to = "monitor" <=> spots[conn[g]] = 0)
  <2>1. CASE spots[conn[g]] = 0
    BY <2>1 DEF GetSpot
  <2>2. CASE spots[conn[g]] # 0
    BY <2>2 DEF GetSpot
  <2>3. QED
    BY <2>1, <2>2
<1>1. pc[g] = "get" /\ UNCHANGED <<registryVars, conn, proxies, ears, pool>>
      /\ got' = [got EXCEPT ![g] = spots[conn[g]]]
  BY DEF GetSpot
<1>2. /\ g \in Known /\ conn[g] \in Spots /\ Known' = Known /\ Known \subseteq Gens
      /\ RegistryTypeOK' /\ Reserved' /\ UNCHANGED <<spots, open, nextGen>>
      /\ pc' \in [Gens -> Steps] /\ pc'[g] = to
      /\ \A h \in Gens : h # g => pc'[h] = pc[h]
      /\ \A h \in Gens : pc'[h] = "none" <=> h > nextGen'
  BY <1>0, <1>1, OffRegistry DEF Steps, Handshake
<1>3. PICK s \in Spots : s = conn[g]
  BY <1>2
<1>4. spots[s] \in 0 .. nextGen /\ 0 .. nextGen \subseteq 0 .. MaxGen
  BY RegistryAssumption DEF TypeOK, RegistryTypeOK
<1>5. /\ got' \in [Gens -> 0 .. MaxGen] /\ got'[g] = spots[s]
      /\ \A h \in Gens : h # g => got'[h] = got[h]
  BY <1>1, <1>3, <1>4 DEF TypeOK
<1>6. TypeOK'
  BY <1>1, <1>2, <1>5 DEF TypeOK
<1>7. Belongs'
  <2>1. \A h \in Gens : got'[h] <= nextGen
    BY <1>4, <1>5 DEF Belongs
  <2>2. QED
    BY <2>1, <1>0, <1>1, <1>2, <1>3, <1>5 DEF Belongs
<1>8. Newest'
  BY <1>1, <1>2 DEF Newest
<1>9. Kept'
  BY <1>0, <1>1, <1>2, KnownGens DEF Kept, Past
<1>10. Settled'
  BY <1>0, <1>1, <1>2 DEF Settled
<1>11. Backed'
  <2>1. SUFFICES ASSUME Prompt, NEW t \in Spots, spots[t] \in open, pc'[spots[t]] = "monitor"
                 PROVE  pool[t] # 0
    BY <1>1, <1>2 DEF Backed, LiveTunnelKeepsBackend
  <2>2. spots[t] \in Known /\ spots[t] # 0 /\ conn[spots[t]] = t
    BY <2>1, KnownGens DEF Newest, Known
  <2>3. spots[t] # g
    BY <2>1, <2>2, <1>0, <1>2
  <2>4. QED
    BY <2>1, <2>2, <2>3, <1>2 DEF Backed, LiveTunnelKeepsBackend
<1>12. Listening'
  BY <1>0, <1>1, <1>2, ListeningKept DEF Past
<1>13. QED
  BY <1>2, <1>6, <1>7, <1>8, <1>9, <1>10, <1>11, <1>12

LEMMA OnConnectStep ==
  ASSUME IInv, NEW g \in Gens, OnConnect(g)
  PROVE  IInv'
<1> USE DEF IInv
<1>1. /\ Goes(g, "monitor") /\ pc[g] = "notify" /\ UNCHANGED <<registryVars, conn, got, proxies, ears>>
      /\ pool' = [pool EXCEPT ![conn[g]] = got[g]]
  BY DEF OnConnect
<1>2. /\ g \in Known /\ conn[g] \in Spots /\ Known' = Known /\ Known \subseteq Gens
      /\ RegistryTypeOK' /\ Reserved' /\ UNCHANGED <<spots, open, nextGen>>
      /\ pc' \in [Gens -> Steps] /\ pc'[g] = "monitor"
      /\ \A h \in Gens : h # g => pc'[h] = pc[h]
      /\ \A h \in Gens : pc'[h] = "none" <=> h > nextGen'
  BY <1>1, OffRegistry DEF Steps
<1>3. got[g] \in 0 .. nextGen /\ got[g] # 0
  BY <1>1, <1>2, KnownGens DEF Belongs, TypeOK
<1>4. /\ pool' \in [Spots -> 0 .. nextGen] /\ pool'[conn[g]] # 0
      /\ \A t \in Spots : t # conn[g] => pool'[t] = pool[t]
  BY <1>1, <1>2, <1>3 DEF TypeOK
<1>5. TypeOK' /\ Belongs' /\ Newest'
  BY <1>1, <1>2, <1>4 DEF TypeOK, Belongs, Newest
<1>6. Kept'
  BY <1>1, <1>2, KnownGens DEF Kept, Past
<1>7. Settled'
  BY <1>1, <1>2 DEF Settled
<1>8. Backed'
  <2>1. SUFFICES ASSUME Prompt, NEW t \in Spots, spots[t] \in open, pc'[spots[t]] = "monitor"
                 PROVE  pool'[t] # 0
    BY <1>1, <1>2 DEF Backed, LiveTunnelKeepsBackend
  <2>2. spots[t] \in Known /\ spots[t] # 0 /\ conn[spots[t]] = t
    BY <2>1, KnownGens DEF Newest, Known
  <2>3. QED
    BY <2>1, <2>2, <1>2, <1>4 DEF Backed, LiveTunnelKeepsBackend
<1>9. Listening'
  BY <1>1, <1>2, ListeningKept DEF Past
<1>10. QED
  BY <1>2, <1>5, <1>6, <1>7, <1>8, <1>9

\* Listeners that another generation installed are not closed, and a session
\* closes its own only once it has ended.
LEMMA CloseProxiesStep ==
  ASSUME IInv, NEW g \in Gens, CloseProxies(g)
  PROVE  IInv'
<1> USE DEF IInv
<1>0. PICK to \in {"unregister", "done"} : Goes(g, to)
  BY DEF CloseProxies
<1>1. /\ pc[g] = "monitor" /\ g \notin open /\ UNCHANGED <<registryVars, conn, got, pool>>
      /\ \/ proxies' = proxies /\ ears' = ears /\ proxies[conn[g]] \notin {0, g}
         \/ /\ proxies[conn[g]] \in {0, g} /\ proxies' = [proxies EXCEPT ![conn[g]] = 0]
            /\ ears' = Closed(conn[g])
  BY DEF CloseProxies
<1>2. /\ g \in Known /\ conn[g] \in Spots /\ Known' = Known /\ Known \subseteq Gens
      /\ RegistryTypeOK' /\ Reserved' /\ UNCHANGED <<spots, open, nextGen>>
      /\ pc' \in [Gens -> Steps] /\ pc'[g] = to
      /\ \A h \in Gens : h # g => pc'[h] = pc[h]
      /\ \A h \in Gens : pc'[h] = "none" <=> h > nextGen'
  BY <1>0, <1>1, OffRegistry DEF Steps
<1>3. /\ proxies' \in [Spots -> 0 .. nextGen]
      /\ \A t \in Spots : \/ proxies'[t] = proxies[t]
                          \/ t = conn[g] /\ proxies[t] \in {0, g} /\ proxies'[t] = 0
  <2>1. 0 \in 0 .. nextGen
    BY KnownGens
  <2>2. QED
    BY <2>1, <1>1, <1>2 DEF TypeOK
<1>4. /\ ears' \in [Gens -> Ears]
      /\ \A h \in Gens : ears'[h] = IF h = g THEN "none" ELSE ears[h]
  <2>1. ears \in [Gens -> Ears] /\ (proxies[conn[g]] # g => ears[g] = "none")
    BY DEF TypeOK, Ears, Listening, NoStrayListener
  <2>2. \A h \in Gens : h # 0
    BY DEF Gens
  <2>3. CASE ears' = ears /\ proxies[conn[g]] # g
    BY <2>1, <2>3
  <2>4. CASE ears' = Closed(conn[g]) /\ proxies[conn[g]] \in {0, g}
    BY <2>1, <2>2, <2>4 DEF Closed, Ears
  <2>5. QED
    BY <1>1, <2>3, <2>4
<1>5. TypeOK' /\ Belongs'
  BY <1>0, <1>1, <1>2, <1>3, <1>4 DEF TypeOK, Belongs, Ears
<1>6. Listening'
  <2>1. ASSUME NEW h \in Gens, ears'[h] # "none"
        PROVE  proxies'[conn'[h]] = h /\ pc'[h] \in Past
    <3>1. h # g /\ ears[h] # "none"
      BY <1>4, <2>1
    <3>2. proxies[conn[h]] = h /\ pc[h] \in Past /\ h # 0
      BY <3>1 DEF Listening, NoStrayListener, Past, Gens
    <3>3. conn[h] \in Spots
      BY <3>2, KnownGens DEF Past, Belongs
    <3>4. QED
      BY <1>1, <1>2, <1>3, <3>1, <3>2, <3>3
  <2>2. ASSUME NEW r \in Spots, proxies'[r] # 0
        PROVE  ears'[proxies'[r]] # "none"
    <3>1. proxies'[r] = proxies[r] /\ proxies[r] \in Gens /\ conn[proxies[r]] = r
      BY <1>3, <2>2, KnownGens DEF Newest
    <3>2. proxies[r] # g
      <4>1. CASE r = conn[g]
        BY <1>1, <1>2, <2>2, <3>1, <4>1 DEF TypeOK
      <4>2. CASE r # conn[g]
        BY <3>1, <4>2
      <4>3. QED
        BY <4>1, <4>2
    <3>3. QED
      BY <1>4, <2>2, <3>1, <3>2 DEF Listening
  <2>3. QED
    BY <2>1, <2>2 DEF Listening, NoStrayListener, Past
<1>7. Newest'
  BY <1>1, <1>2, <1>3 DEF Newest
<1>8. Kept'
  <2>1. SUFFICES ASSUME NEW t \in Spots, spots[t] \in open,
                        pc'[spots[t]] \in Past
                 PROVE  proxies'[t] = spots[t]
    BY <1>2 DEF Kept
  <2>2. spots[t] \in Known /\ spots[t] # 0 /\ spots[t] # g
    BY <2>1, <1>1, KnownGens DEF Known
  <2>3. proxies[t] = spots[t]
    BY <2>1, <2>2, <1>2 DEF Kept, Past
  <2>4. QED
    BY <2>2, <2>3, <1>3
<1>9. Settled'
  BY <1>0, <1>1, <1>2 DEF Settled
<1>10. Backed'
  BY <1>0, <1>1, <1>2, KnownGens DEF Backed, LiveTunnelKeepsBackend
<1>11. QED
  BY <1>2, <1>5, <1>7, <1>8, <1>9, <1>10, <1>6

\* A backend is removed only for a spot no newer session of which is registered.
LEMMA OnDisconnectStep ==
  ASSUME IInv, NEW g \in Gens, OnDisconnect(g)
  PROVE  IInv'
<1> USE DEF IInv
<1>1. /\ Goes(g, "done") /\ pc[g] = "disconnect" /\ UNCHANGED <<registryVars, conn, got, proxies, ears>>
      /\ pool' = [pool EXCEPT ![conn[g]] = 0]
  BY DEF OnDisconnect
<1>2. /\ g \in Known /\ conn[g] \in Spots /\ Known' = Known /\ Known \subseteq Gens
      /\ RegistryTypeOK' /\ Reserved' /\ UNCHANGED <<spots, open, nextGen>>
      /\ pc' \in [Gens -> Steps] /\ pc'[g] = "done"
      /\ \A h \in Gens : h # g => pc'[h] = pc[h]
      /\ \A h \in Gens : pc'[h] = "none" <=> h > nextGen'
  BY <1>1, OffRegistry DEF Steps
<1>3. /\ pool' \in [Spots -> 0 .. nextGen]
      /\ \A t \in Spots : t # conn[g] => pool'[t] = pool[t]
  <2>1. 0 \in 0 .. nextGen
    BY KnownGens
  <2>2. QED
    BY <2>1, <1>1, <1>2 DEF TypeOK
<1>4. TypeOK' /\ Belongs' /\ Newest'
  BY <1>1, <1>2, <1>3 DEF TypeOK, Belongs, Newest
<1>5. Kept'
  BY <1>1, <1>2, KnownGens DEF Kept, Past
<1>6. Settled'
  BY <1>1, <1>2 DEF Settled
<1>7. Backed'
  <2>1. SUFFICES ASSUME Prompt, NEW t \in Spots, spots[t] \in open, pc'[spots[t]] = "monitor"
                 PROVE  pool'[t] # 0
    BY <1>1, <1>2 DEF Backed, LiveTunnelKeepsBackend
  <2>2. spots[t] \in Known /\ spots[t] # 0 /\ spots[t] # g
    BY <2>1, <1>2, KnownGens DEF Known
  <2>3. t # conn[g]
    BY <2>1, <2>2, <1>1, <1>2 DEF Settled
  <2>4. QED
    BY <2>1, <2>2, <2>3, <1>2, <1>3 DEF Backed, LiveTunnelKeepsBackend
<1>8. Listening'
  BY <1>1, <1>2, ListeningKept DEF Past
<1>9. QED
  BY <1>2, <1>4, <1>5, <1>6, <1>7, <1>8

---------------------------------------------------------------------------
(* The theorems.                                                           *)

LEMMA IInvInit == Init => IInv
<1> SUFFICES ASSUME Init PROVE IInv
  OBVIOUS
<1> USE RegistryAssumption DEF Init, RegistryInit
<1>1. TypeOK
  BY DEF TypeOK, RegistryTypeOK, Steps, Gens
<1>2. Known = {}
  BY DEF Known
<1>3. Belongs /\ Reserved /\ Newest /\ Settled
  BY <1>2 DEF Belongs, Reserved, Newest, Settled
<1>4. Kept /\ Backed /\ Listening
  BY DEF Kept, Backed, LiveTunnelKeepsBackend, Listening, NoStrayListener
<1>5. QED
  BY <1>1, <1>3, <1>4 DEF IInv

LEMMA IInvNext == IInv /\ [Next]_vars => IInv'
<1> SUFFICES ASSUME IInv, [Next]_vars PROVE IInv'
  OBVIOUS
<1>1. ASSUME NEW s \in Spots, Accept(s) \/ RefusedReconnect(s) PROVE IInv'
  BY <1>1, AcceptStep, RefusedStep
<1>2. ASSUME NEW g \in Gens, Handler(g) PROVE IInv'
  BY <1>2, RespondStep, StartProxiesStep, GetSpotStep, OnConnectStep, CloseProxiesStep,
     UnregisterStep, OnDisconnectStep DEF Handler
<1>3. ASSUME NEW g \in Gens, RespondFails(g) \/ SessionEnds(g) PROVE IInv'
  BY <1>3, RespondFailsStep, SessionEndsStep
<1>4. CASE UNCHANGED vars
  <2>1. UNCHANGED <<spots, local, port, usedIPs, nextGen, open, conn, pc, got, proxies, ears, pool>>
    BY <1>4 DEF vars, registryVars, serverVars
  <2>2. TypeOK' /\ Belongs' /\ Reserved' /\ Newest'
    BY <2>1 DEF IInv, TypeOK, RegistryTypeOK, Belongs, Reserved, Newest, Known
  <2>3. Kept' /\ Settled' /\ Backed'
    BY <2>1 DEF IInv, Kept, Settled, Backed, LiveTunnelKeepsBackend, Known
  <2>4. Listening'
    BY <2>1, ListeningKept DEF IInv
  <2>5. QED
    BY <2>2, <2>3, <2>4 DEF IInv
<1>5. QED
  BY <1>1, <1>2, <1>3, <1>4 DEF Next

LEMMA IInvAlways == Spec => []IInv
BY IInvInit, IInvNext, PTL DEF Spec

\* Types hold: in particular every address handed out is 127.0.0.2 .. 127.0.0.254.
THEOREM TunnelTypeCorrect == Spec => []TypeOK
<1>1. IInv => TypeOK
  BY DEF IInv
<1>2. QED
  BY <1>1, IInvAlways, PTL

\* tunnel_registry.go: no two registered spots share a loopback address, and
\* a registered spot's address is reserved for it alone.
THEOREM AddressesAreDistinct == Spec => []DistinctAddresses
<1>1. IInv => DistinctAddresses
  BY DEF IInv, Reserved, DistinctAddresses
<1>2. QED
  BY <1>1, IInvAlways, PTL

\* #769: the goroutines of earlier sessions never take the listeners of a live
\* tunnel, whatever their order.
THEOREM ListenersAreKept == Spec => []LiveTunnelServes
<1>1. IInv => LiveTunnelServes
  <2>1. SUFFICES ASSUME IInv, NEW s \in Spots, spots[s] \in open, pc[spots[s]] \in Past
                 PROVE  proxies[s] = spots[s] /\ ears[spots[s]] # "none"
    BY DEF LiveTunnelServes, Past
  <2>2. proxies[s] = spots[s]
    BY <2>1 DEF IInv, Kept
  <2>3. spots[s] # 0
    BY <2>1, KnownGens DEF IInv, Known
  <2>4. QED
    BY <2>1, <2>2, <2>3 DEF IInv, Listening
<1>2. QED
  BY <1>1, IInvAlways, PTL

\* tunnel_server.go: startProxies closes the set it replaces and monitorSession
\* the one that is left: no listener stays open without a goroutine to close it.
THEOREM ListenersAreClosed == Spec => []NoStrayListener
<1>1. IInv => NoStrayListener
  BY DEF IInv, Listening
<1>2. QED
  BY <1>1, IInvAlways, PTL

\* #769 for the routing: as long as a spot does not connect again while its last
\* connection is in the handshake or a callback, a live tunnel keeps its backend.
THEOREM BackendsAreKept ==
  ASSUME Prompt
  PROVE  Spec => []LiveTunnelKeepsBackend
<1>1. IInv => LiveTunnelKeepsBackend
  BY DEF IInv, Backed
<1>2. QED
  BY <1>1, IInvAlways, PTL
=============================================================================
