------------------------- MODULE SandboxPoolProofs -------------------------
(***************************************************************************)
(* Warm sandboxes, for any number of ids, tenants and addresses.  Whatever *)
(* fails and whenever the daemon restarts, the ring keeps to its floor and *)
(* a sandbox serves one tenant.  As long as Incus deletes what it is asked *)
(* to, claims are faster than the TTL and the daemon keeps running, every  *)
(* address is held by exactly one member and every instance is in          *)
(* somebody's hands.                                                       *)
(***************************************************************************)
EXTENDS SandboxPool, FiniteSetTheorems, TLAPS

WarmIds  == {w.id : w \in warms}
SpawnIds == {s.id : s \in spawns}
DelIds   == {d.id : d \in dels}
ClaimPcs == {"tenant", "ttl", "labels", "track"}

---------------------------------------------------------------------------
(* The inductive invariant that holds whatever fails.                      *)

\* There are as many warming members counted as warmOne calls, or more.
Floor ==
  /\ IsFiniteSet(warms) /\ Cardinality(warms) <= warming
  /\ WithinFloor

\* An id is drawn, warmed, ready and claimed in turn, once.
Apart ==
  /\ \A k, l \in 1..Len(ready) : ready[k] = ready[l] => k = l
  /\ \A v, w \in warms : v.id = w.id => v = w
  /\ \A r, s \in spawns : r.id = s.id => r = s
  /\ \A i \in WarmIds : i \notin fresh \cup ReadySet \cup SpawnIds
  /\ \A i \in ReadySet : i \notin fresh \cup SpawnIds
  /\ \A i \in SpawnIds : i \notin fresh

\* Only what a spawn has taken is ever tracked, swept or deleted.
Later == \A i \in claimed \cup expired \cup DelIds : i \notin fresh \cup WarmIds \cup ReadySet

\* Nobody's instance: no tenant, no label, no TTL.
Blank(i) == inst[i].tenant = NoTenant /\ ~inst[i].label /\ inst[i].ttl = NoTtl /\ granted[i] = {}

Unowned ==
  /\ \A i \in fresh : Blank(i) /\ ~Exists(i)
  /\ \A w \in warms : Blank(w.id) /\ (w.pc = "create" => ~Exists(w.id))
  /\ \A i \in ReadySet : Blank(i) /\ inst[i].up = "running"

\* A spawn owns an instance that it has stamped, and answers once.
Proceeds(s) ==
  /\ granted[s.id] = {}
  /\ Exists(s.id) =>
       /\ s.pc \in {"ttl", "labels", "track", "cold_start", "cold_network"} => inst[s.id].tenant = s.who
       /\ s.pc \in {"track", "cold_start", "cold_network"} => inst[s.id].label
Spawning == \A s \in spawns : Proceeds(s)

OwnedBy(i) ==
  /\ \A t, u \in granted[i] : t = u
  /\ Exists(i) => \A t \in granted[i] : inst[i].tenant = t /\ inst[i].label
Owned == \A i \in Ids : OwnedBy(i)

IInv == TypeOK /\ Floor /\ Apart /\ Later /\ Unowned /\ Spawning /\ Owned

---------------------------------------------------------------------------
(* What holds besides while nothing goes wrong with Incus or the daemon.   *)

Healthy == ~DeleteFails /\ ~SlowClaims /\ MaxRestarts = 0

\* The members being claimed, the cold spawns, and the members being deleted.
ClaimIds == {s.id : s \in {x \in spawns : x.pc \in ClaimPcs}}
ColdIds  == SpawnIds \ ClaimIds
FreeIds  == {d.id : d \in {x \in dels : x.member}}

\* Who uses an address, whatever the host says, and who answers for instance i.
Users   == WarmIds \cup ReadySet \cup claimed \cup ClaimIds \cup FreeIds
Mine(i) == \/ inst[i].label /\ inst[i].ttl # NoTtl
           \/ i \in ReadySet \cup WarmIds \cup SpawnIds \cup DelIds

\* A spawn's instance is neither tracked nor swept nor deleted, and a tracked
\* one is not being deleted; one call at most frees a member's address.
Exclusive ==
  /\ \A i \in SpawnIds : i \notin claimed \cup expired \cup DelIds
  /\ \A i \in claimed : i \notin DelIds
  /\ \A d, e \in dels : d.member /\ e.member /\ d.id = e.id => d = e

\* A cold sandbox has no address of the pool.
Addressed == \A i \in fresh \cup ColdIds : ip[i] = NoAddr

\* What is stamped on an instance while a spawn has it, and after.
StampedBy(s) ==
  /\ Exists(s.id) <=> s.pc # "cold_create"
  /\ s.pc \in {"tenant", "ttl", "labels"} => ~inst[s.id].label
  /\ s.pc \in {"labels", "track", "cold_start", "cold_network", "cold_unwind"} => inst[s.id].ttl = Ttl
Stamped ==
  /\ \A i \in claimed : Exists(i)
  /\ \A d \in dels : d.pc = "free" => d.member /\ ~Exists(d.id)
  /\ \A s \in spawns : StampedBy(s)

\* An instance with an address is that of a holder.
Held == \A i \in Ids : Exists(i) /\ ip[i] # NoAddr => i \in Holders

HInv == /\ restarts = 0
        /\ Exclusive /\ Addressed /\ Stamped /\ Held /\ AddressesAccounted /\ NoOrphans

---------------------------------------------------------------------------
(* Writes to an instance, the ring and the goroutines.                     *)

Instance == [up : {"none", "stopped", "running"}, tenant : Tenants \cup {NoTenant},
             label : BOOLEAN, ttl : {NoTtl} \cup 0..Ttl]

\* Only instance i is written.
Writes(i) == inst' \in [Ids -> Instance] /\ \A j \in Ids : j # i => inst'[j] = inst[j]

LEMMA InstTyped ==
  ASSUME TypeOK
  PROVE  inst \in [Ids -> Instance]
BY DEF TypeOK, Instance

LEMMA AbsentTyped ==
  /\ Absent \in Instance /\ Absent.up = "none" /\ Absent.tenant = NoTenant
  /\ Absent.label = FALSE /\ Absent.ttl = NoTtl
BY DEF Absent, Instance, NoTtl

LEMMA WriteAbsent ==
  ASSUME TypeOK, NEW i \in Ids, inst' = [inst EXCEPT ![i] = Absent]
  PROVE  Writes(i) /\ inst'[i] = Absent /\ ~Exists(i)'
BY InstTyped, AbsentTyped DEF Writes, Exists

LEMMA WriteUp ==
  ASSUME TypeOK, NEW i \in Ids, NEW u \in {"stopped", "running"}, inst' = [inst EXCEPT ![i].up = u]
  PROVE  /\ Writes(i) /\ inst'[i].up = u /\ Exists(i)'
         /\ inst'[i].tenant = inst[i].tenant /\ inst'[i].label = inst[i].label
         /\ inst'[i].ttl = inst[i].ttl
BY InstTyped DEF Writes, Exists, Instance

LEMMA WriteTenant ==
  ASSUME TypeOK, NEW i \in Ids, NEW t \in Tenants, inst' = [inst EXCEPT ![i].tenant = t]
  PROVE  /\ Writes(i) /\ inst'[i].tenant = t /\ inst'[i].up = inst[i].up
         /\ inst'[i].label = inst[i].label /\ inst'[i].ttl = inst[i].ttl
BY InstTyped DEF Writes, Instance

LEMMA WriteTtl ==
  ASSUME TypeOK, NEW i \in Ids, inst' = [inst EXCEPT ![i].ttl = Ttl]
  PROVE  /\ Writes(i) /\ inst'[i].ttl = Ttl /\ inst'[i].up = inst[i].up
         /\ inst'[i].label = inst[i].label /\ inst'[i].tenant = inst[i].tenant
BY PoolAssumption, InstTyped DEF Writes, Instance

LEMMA WriteLabel ==
  ASSUME TypeOK, NEW i \in Ids, inst' = [inst EXCEPT ![i].label = TRUE]
  PROVE  /\ Writes(i) /\ inst'[i].label /\ inst'[i].up = inst[i].up
         /\ inst'[i].tenant = inst[i].tenant /\ inst'[i].ttl = inst[i].ttl
BY InstTyped DEF Writes, Instance

LEMMA WriteCold ==
  ASSUME TypeOK, NEW i \in Ids, NEW t \in Tenants,
         inst' = [inst EXCEPT ![i] = [up |-> "stopped", tenant |-> t, label |-> TRUE, ttl |-> Ttl]]
  PROVE  /\ Writes(i) /\ inst'[i].up = "stopped" /\ inst'[i].tenant = t /\ inst'[i].label
         /\ inst'[i].ttl = Ttl
BY PoolAssumption, InstTyped DEF Writes, Instance

\* Incus deletes an instance, or leaves it.
LEMMA DeleteEffect ==
  ASSUME TypeOK, NEW i \in Ids, IncusDelete(i)
  PROVE  /\ Writes(i) /\ faults' \in 0..MaxFaults
         /\ inst'[i] = Absent \/ inst'[i] = inst[i]
         /\ ~DeleteFails => inst'[i] = Absent
<1>1. CASE inst' = [inst EXCEPT ![i] = Absent] /\ UNCHANGED faults
  BY <1>1, WriteAbsent DEF TypeOK
<1>2. CASE DeleteFails /\ Fault /\ UNCHANGED inst
  BY <1>2, InstTyped, PoolAssumption DEF Writes, Fault, TypeOK
<1>3. QED
  BY <1>1, <1>2 DEF IncusDelete

LEMMA FaultTyped ==
  ASSUME TypeOK, NEW i, Fault \/ Fails(i) \/ UNCHANGED faults
  PROVE  faults' \in 0..MaxFaults
BY PoolAssumption DEF TypeOK, Fault, Fails

\* The ring: a claim takes the head away, a warm adds a member at the end.
LEMMA RingTail ==
  ASSUME TypeOK, ready # <<>>, ready' = Tail(ready)
  PROVE  /\ Head(ready) \in ReadySet /\ Head(ready) \in Ids
         /\ ready' \in Seq(Ids) /\ Len(ready') = Len(ready) - 1
         /\ \A k \in 1..Len(ready') : ready'[k] = ready[k + 1] /\ k + 1 \in 1..Len(ready)
         /\ ReadySet' \subseteq ReadySet /\ ReadySet \subseteq ReadySet' \cup {Head(ready)}
<1>1. ready \in Seq(Ids) /\ Len(ready) \in Nat \ {0}
  BY DEF TypeOK
<1>2. Head(ready) = ready[1] /\ 1 \in 1..Len(ready)
  BY <1>1
<1>3. Head(ready) \in ReadySet /\ Head(ready) \in Ids
  BY <1>1, <1>2 DEF ReadySet
<1>4. ready' \in Seq(Ids) /\ Len(ready') = Len(ready) - 1
  BY <1>1
<1>5. \A k \in 1..Len(ready') : ready'[k] = ready[k + 1] /\ k + 1 \in 1..Len(ready)
  BY <1>1, <1>4
<1>6. ReadySet' \subseteq ReadySet
  BY <1>5 DEF ReadySet
<1>7. ASSUME NEW k \in 1..Len(ready), k # 1 PROVE ready[k] \in ReadySet'
  <2>1. k - 1 \in 1..Len(ready') /\ (k - 1) + 1 = k
    BY <1>1, <1>4, <1>7
  <2>2. QED
    BY <2>1, <1>5 DEF ReadySet
<1>8. QED
  BY <1>2, <1>3, <1>4, <1>5, <1>6, <1>7 DEF ReadySet

LEMMA RingAppend ==
  ASSUME TypeOK, NEW i \in Ids, ready' = ready \o <<i>>
  PROVE  /\ ready' \in Seq(Ids) /\ Len(ready') = Len(ready) + 1
         /\ \A k \in 1..Len(ready) : ready'[k] = ready[k]
         /\ ready'[Len(ready) + 1] = i
         /\ ReadySet' = ReadySet \cup {i}
<1>1. ready \in Seq(Ids) /\ Len(ready) \in Nat
  BY DEF TypeOK
<1>2. /\ ready' \in Seq(Ids) /\ Len(ready') = Len(ready) + 1
      /\ \A k \in 1..Len(ready) : ready'[k] = ready[k]
      /\ ready'[Len(ready) + 1] = i
  BY <1>1
<1>3. 1..Len(ready') = 1..Len(ready) \cup {Len(ready) + 1}
  BY <1>1, <1>2
<1>4. ReadySet' = ReadySet \cup {i}
  BY <1>2, <1>3 DEF ReadySet
<1>5. QED
  BY <1>2, <1>4

LEMMA RingSame ==
  ASSUME TypeOK, ready' = ready \o <<>>
  PROVE  ready' = ready
BY DEF TypeOK

LEMMA ReadyIds ==
  ASSUME TypeOK
  PROVE  /\ ReadySet \subseteq Ids /\ WarmIds \subseteq Ids /\ SpawnIds \subseteq Ids /\ DelIds \subseteq Ids
         /\ \A w \in warms : w.id \in Ids
         /\ \A s \in spawns : s.id \in Ids /\ s.who \in Tenants
         /\ \A d \in dels : d.id \in Ids
<1>1. ReadySet \subseteq Ids
  BY DEF TypeOK, ReadySet
<1>2. \A w \in warms : w.id \in Ids
  BY DEF TypeOK, Warm
<1>3. \A s \in spawns : s.id \in Ids /\ s.who \in Tenants
  BY DEF TypeOK, Spawn
<1>4. \A d \in dels : d.id \in Ids
  BY DEF TypeOK, Del
<1>5. QED
  BY <1>1, <1>2, <1>3, <1>4 DEF WarmIds, SpawnIds, DelIds

\* A warmOne moves on, or ends.
LEMMA WarmMoves ==
  ASSUME TypeOK, Floor, Apart, NEW w \in warms, NEW p \in {"start", "unwind"},
         warms' = (warms \ {w}) \cup {[w EXCEPT !.pc = p]}
  PROVE  /\ \E v \in Warm : v.id = w.id /\ v.pc = p /\ warms' = (warms \ {w}) \cup {v}
         /\ warms' \subseteq Warm /\ WarmIds' = WarmIds
         /\ \A u, v \in warms' : u.id = v.id => u = v
         /\ IsFiniteSet(warms') /\ Cardinality(warms') = Cardinality(warms)
<1>1. PICK v : v = [w EXCEPT !.pc = p]
  OBVIOUS
<1>2. v \in Warm /\ v.id = w.id /\ v.pc = p
  <2>1. w \in Warm
    BY DEF TypeOK
  <2>2. v = [id |-> w.id, pc |-> p] /\ w.id \in Ids
    BY <1>1, <2>1 DEF Warm
  <2>3. QED
    BY <2>2 DEF Warm
<1>3. warms' = (warms \ {w}) \cup {v}
  BY <1>1
<1>4. warms' \subseteq Warm /\ WarmIds' = WarmIds
  <2>1. warms' \subseteq Warm
    BY <1>2, <1>3 DEF TypeOK
  <2>2. \A u \in warms' : \E x \in warms : u.id = x.id
    BY <1>2, <1>3
  <2>3. \A x \in warms : \E u \in warms' : u.id = x.id
    BY <1>2, <1>3
  <2>4. QED
    BY <2>1, <2>2, <2>3 DEF WarmIds
<1>5. \A u, x \in warms' : u.id = x.id => u = x
  BY <1>2, <1>3 DEF Apart
<1>6. v \notin warms \ {w}
  BY <1>2 DEF Apart
<1>7. IsFiniteSet(warms \ {w}) /\ Cardinality(warms \ {w}) = Cardinality(warms) - 1
  BY FS_RemoveElement DEF Floor
<1>8. IsFiniteSet(warms') /\ Cardinality(warms') = (Cardinality(warms) - 1) + 1
  BY <1>3, <1>6, <1>7, FS_AddElement
<1>9. Cardinality(warms) \in Nat
  BY FS_CardinalityType DEF Floor
<1>10. QED
  BY <1>2, <1>3, <1>4, <1>5, <1>8, <1>9

LEMMA WarmGone ==
  ASSUME TypeOK, Floor, Apart, NEW w \in warms, warms' = warms \ {w}
  PROVE  /\ warms' \subseteq Warm /\ WarmIds' = WarmIds \ {w.id}
         /\ \A u, v \in warms' : u.id = v.id => u = v
         /\ IsFiniteSet(warms') /\ Cardinality(warms') = Cardinality(warms) - 1
         /\ Cardinality(warms) \in Nat \ {0}
<1>1. warms' \subseteq Warm /\ WarmIds' = WarmIds \ {w.id}
  BY DEF TypeOK, WarmIds, Apart
<1>2. \A u, v \in warms' : u.id = v.id => u = v
  BY DEF Apart
<1>3. IsFiniteSet(warms') /\ Cardinality(warms') = Cardinality(warms) - 1
  BY FS_RemoveElement DEF Floor
<1>4. Cardinality(warms) \in Nat /\ Cardinality(warms') \in Nat
  BY <1>3, FS_CardinalityType DEF Floor
<1>5. QED
  BY <1>1, <1>2, <1>3, <1>4

\* A SpawnSandbox moves on, or ends.
LEMMA SpawnMoves ==
  ASSUME TypeOK, Apart, NEW s \in spawns,
         NEW p \in {"ttl", "labels", "track", "cold_start", "cold_unwind", "cold_network"}, GoesTo(s, p)
  PROVE  /\ \E v \in Spawn : /\ v.id = s.id /\ v.who = s.who /\ v.pc = p
                             /\ spawns' = (spawns \ {s}) \cup {v}
         /\ spawns' \subseteq Spawn /\ SpawnIds' = SpawnIds
         /\ \A q, r \in spawns' : q.id = r.id => q = r
<1>1. PICK v : v = [s EXCEPT !.pc = p]
  OBVIOUS
<1>2. v \in Spawn /\ v.id = s.id /\ v.who = s.who /\ v.pc = p
  BY <1>1 DEF TypeOK, Spawn
<1>3. spawns' = (spawns \ {s}) \cup {v}
  BY <1>1 DEF GoesTo
<1>4. spawns' \subseteq Spawn /\ SpawnIds' = SpawnIds
  BY <1>2, <1>3 DEF TypeOK, SpawnIds
<1>5. \A q, r \in spawns' : q.id = r.id => q = r
  BY <1>2, <1>3 DEF Apart
<1>6. QED
  BY <1>2, <1>3, <1>4, <1>5

LEMMA SpawnGone ==
  ASSUME TypeOK, Apart, NEW s \in spawns, spawns' = spawns \ {s}
  PROVE  /\ spawns' \subseteq Spawn /\ SpawnIds' = SpawnIds \ {s.id}
         /\ \A q, r \in spawns' : q.id = r.id => q = r
BY DEF TypeOK, Apart, SpawnIds

\* The allocator, and what becomes of a released address.
LEMMA AllocateEffect ==
  ASSUME TypeOK, NEW a \in Addrs, Allocate(a)
  PROVE  /\ a \notin held /\ held' = held \cup {a}
         /\ held' \subseteq Addrs /\ resting' \in [Addrs -> 0..Quarantine] /\ cursor' \in 0..Size
<1>1. a \notin held /\ held' = held \cup {a} /\ cursor' = a + 1 /\ resting' = [resting EXCEPT ![a] = 0]
  BY DEF Allocate, Allocates, IsFree
<1>2. 0 \in 0..Quarantine /\ a + 1 \in 0..Size
  BY PoolAssumption DEF Addrs
<1>3. held \subseteq Addrs /\ resting \in [Addrs -> 0..Quarantine]
  BY DEF TypeOK
<1>4. QED
  BY <1>1, <1>2, <1>3

LEMMA ReleaseEffect ==
  ASSUME TypeOK, NEW a, ReleaseAddr(a)
  PROVE  /\ held' = held \ {a}
         /\ held' \subseteq Addrs /\ resting' \in [Addrs -> 0..Quarantine] /\ cursor' \in 0..Size
<1>1. CASE a \in held
  <2>1. held' = held \ {a} /\ resting' = [resting EXCEPT ![a] = Quarantine] /\ UNCHANGED cursor
    BY <1>1 DEF ReleaseAddr
  <2>2. Quarantine \in 0..Quarantine /\ held \subseteq Addrs /\ cursor \in 0..Size
        /\ resting \in [Addrs -> 0..Quarantine]
    BY PoolAssumption DEF TypeOK
  <2>3. QED
    BY <2>1, <2>2
<1>2. CASE a \notin held
  BY <1>2 DEF ReleaseAddr, ipamVars, TypeOK
<1>3. QED
  BY <1>1, <1>2

---------------------------------------------------------------------------
(* A step that leaves the ring, its warms and the supply of ids alone.     *)

Young == fresh \cup WarmIds \cup ReadySet     \* not yet taken by a spawn

LEMMA YoungIsBlank ==
  ASSUME IInv
  PROVE  /\ Young \subseteq Ids
         /\ \A i \in Young : Blank(i)
         /\ \A i \in SpawnIds : i \notin Young
         /\ \A i \in claimed \cup expired \cup DelIds : i \notin Young
<1> USE DEF IInv
<1>1. Young \subseteq Ids
  BY ReadyIds DEF Young, TypeOK
<1>2. \A i \in Young : Blank(i)
  BY DEF Young, Unowned, WarmIds
<1>3. QED
  BY <1>1, <1>2 DEF Young, Apart, Later

Steady ==
  /\ UNCHANGED <<fresh, ready, warms>>
  /\ \A i \in Young : inst'[i] = inst[i] /\ granted'[i] = granted[i]
  /\ \A i \in claimed' \cup expired' \cup DelIds' : i \in claimed \cup expired \cup DelIds \/ i \notin Young
  /\ SpawnIds' \subseteq SpawnIds
  /\ \A q, r \in spawns' : q.id = r.id => q = r

LEMMA SteadyKeeps ==
  ASSUME IInv, Steady
  PROVE  Apart' /\ Later' /\ Unowned' /\ Young' = Young
<1> USE DEF IInv
<1>1. WarmIds' = WarmIds /\ ReadySet' = ReadySet /\ fresh' = fresh /\ ready' = ready /\ warms' = warms
  BY DEF Steady, WarmIds, ReadySet
<1>2. Apart'
  BY <1>1 DEF Apart, Steady
<1>3. Young' = Young
  BY <1>1 DEF Young
<1>4. Later'
  BY <1>1, <1>3, YoungIsBlank DEF Later, Steady, Young
<1>5. Unowned'
  <2>1. \A i \in Young : Blank(i)' /\ (Exists(i)' <=> Exists(i)) /\ inst'[i].up = inst[i].up
    BY YoungIsBlank DEF Steady, Blank, Exists
  <2>2. \A w \in warms : w.id \in Young
    BY DEF Young, WarmIds
  <2>3. QED
    BY <2>1, <2>2, <1>1 DEF Unowned, Young
<1>6. QED
  BY <1>2, <1>3, <1>4, <1>5

LEMMA FloorKept ==
  ASSUME IInv, UNCHANGED <<ready, warms, warming>>
  PROVE  Floor'
BY DEF IInv, Floor, WithinFloor

\* Deletes and sweeps reach only what a spawn has taken and answered for.
LEMMA LabelledIsOld ==
  ASSUME IInv, NEW i \in Ids, inst[i].label \/ granted[i] # {}
  PROVE  i \notin Young
BY YoungIsBlank DEF Blank

\* Steps that write neither the instances nor the answers.
LEMMA HostKept ==
  ASSUME IInv, UNCHANGED <<inst, granted, spawns>>
  PROVE  Spawning' /\ Owned'
BY DEF IInv, Spawning, Proceeds, Owned, OwnedBy, Exists

---------------------------------------------------------------------------
(* One lemma per action or group of actions.                               *)

LEMMA PoolBookkeeping ==
  ASSUME IInv, Reconcile \/ WarmExhausted
  PROVE  IInv'
<1> USE DEF IInv
<1>1. UNCHANGED <<hostVars, ipamVars, ready, claimed, warms, spawns, dels, granted, expired, faults, restarts>>
  BY DEF Reconcile, WarmExhausted
<1>2. Len(ready) \in Nat /\ Cardinality(warms) \in Nat /\ warming \in 0..MinWarm
  BY FS_CardinalityType DEF Floor, TypeOK
<1>3. warming' \in 0..MinWarm /\ Cardinality(warms) <= warming' /\ Len(ready) + warming' <= MinWarm
  <2>1. CASE Reconcile
    <3>1. warming' = MinWarm - Len(ready) /\ warms = {} /\ Len(ready) < MinWarm
      BY <2>1, <1>2, PoolAssumption DEF Reconcile
    <3>2. Cardinality(warms) = 0
      BY <3>1, FS_EmptySet
    <3>3. QED
      BY <3>1, <3>2, <1>2, PoolAssumption
  <2>2. CASE WarmExhausted
    BY <2>2, <1>2, PoolAssumption DEF WarmExhausted, Floor, WithinFloor
  <2>3. QED
    BY <2>1, <2>2
<1>4. TypeOK'
  BY <1>1, <1>3 DEF TypeOK, hostVars, ipamVars
<1>5. Floor'
  BY <1>1, <1>3 DEF Floor, WithinFloor
<1>6. Steady
  BY <1>1 DEF Steady, hostVars, DelIds, SpawnIds, Apart
<1>7. Spawning' /\ Owned'
  BY <1>1, HostKept DEF hostVars
<1>8. QED
  BY <1>4, <1>5, <1>6, <1>7, SteadyKeeps

LEMMA StartDeleteEffect ==
  ASSUME TypeOK, NEW i \in Ids, NEW who \in {"user", "sweeper"}, StartDelete(i, who)
  PROVE  /\ claimed' = claimed \ {i} /\ dels' \subseteq Del /\ DelIds' = DelIds \cup {i}
         /\ \E d \in Del : /\ d.id = i /\ d.by = who /\ d.member = (i \in claimed) /\ d.pc = "delete"
                           /\ dels' = dels \cup {d}
<1>1. PICK d : d = [id |-> i, by |-> who, member |-> i \in claimed, pc |-> "delete"]
  OBVIOUS
<1>2. d \in Del /\ d.id = i /\ d.by = who /\ d.member = (i \in claimed) /\ d.pc = "delete"
  BY <1>1 DEF Del
<1>3. claimed' = claimed \ {i} /\ dels' = dels \cup {d}
  BY <1>1 DEF StartDelete
<1>4. dels' \subseteq Del /\ DelIds' = DelIds \cup {i}
  BY <1>2, <1>3 DEF TypeOK, DelIds
<1>5. QED
  BY <1>2, <1>3, <1>4

LEMMA DeleteStarts ==
  ASSUME IInv,
         \/ \E t \in Tenants, i \in Ids : DeleteSandbox(t, i)
         \/ SweepList
         \/ \E i \in Ids : SweepDelete(i)
  PROVE  IInv'
<1> USE DEF IInv
<1>1. UNCHANGED <<hostVars, ipamVars, poolVars, warms, spawns, granted, faults, restarts>>
  BY DEF DeleteSandbox, SweepList, SweepDelete
<1>2. /\ claimed' \subseteq Ids /\ dels' \subseteq Del /\ expired' \subseteq Ids
      /\ \A i \in claimed' \cup expired' \cup DelIds' : i \in claimed \cup expired \cup DelIds \/ i \notin Young
  <2>1. ASSUME NEW t \in Tenants, NEW i \in Ids, DeleteSandbox(t, i)
        PROVE  /\ claimed' \subseteq Ids /\ dels' \subseteq Del /\ expired' \subseteq Ids
               /\ \A j \in claimed' \cup expired' \cup DelIds' : j \in claimed \cup expired \cup DelIds \/ j \notin Young
    <3>1. StartDelete(i, "user") /\ expired' = expired /\ i \notin Young
      BY <2>1, LabelledIsOld DEF DeleteSandbox
    <3>2. QED
      BY <3>1, StartDeleteEffect DEF TypeOK
  <2>2. CASE SweepList
    <3>1. expired' = {i \in Ids : Expired(i)} /\ claimed' = claimed /\ dels' = dels /\ DelIds' = DelIds
      BY <2>2 DEF SweepList, DelIds
    <3>2. \A i \in expired' : i \notin Young
      BY <3>1, LabelledIsOld DEF Expired
    <3>3. QED
      BY <3>1, <3>2 DEF TypeOK
  <2>3. ASSUME NEW i \in Ids, SweepDelete(i)
        PROVE  /\ claimed' \subseteq Ids /\ dels' \subseteq Del /\ expired' \subseteq Ids
               /\ \A j \in claimed' \cup expired' \cup DelIds' : j \in claimed \cup expired \cup DelIds \/ j \notin Young
    <3>1. StartDelete(i, "sweeper") /\ i \in expired /\ expired' = expired \ {i}
      BY <2>3 DEF SweepDelete
    <3>2. QED
      BY <3>1, StartDeleteEffect DEF TypeOK
  <2>4. QED
    BY <2>1, <2>2, <2>3
<1>3. TypeOK'
  BY <1>1, <1>2 DEF TypeOK, hostVars, ipamVars, poolVars
<1>4. Floor'
  BY <1>1, FloorKept DEF poolVars
<1>5. Steady
  BY <1>1, <1>2 DEF Steady, hostVars, poolVars, SpawnIds, Apart
<1>6. Spawning' /\ Owned'
  BY <1>1, HostKept DEF hostVars
<1>7. QED
  BY <1>3, <1>4, <1>5, <1>6, SteadyKeeps

LEMMA DelStepKeeps ==
  ASSUME IInv, NEW d \in dels, DelStep(d)
  PROVE  IInv'
<1> USE DEF IInv
<1>1. d \in Del /\ d.id \in Ids /\ d.id \in DelIds
  BY ReadyIds DEF TypeOK, DelIds
<1>2. CASE DestroyInstance(d)
  <2>1. UNCHANGED <<fresh, ip, ipamVars, poolVars, claimed, warms, spawns, granted, expired, restarts>>
    BY <1>2 DEF DestroyInstance
  <2>2. /\ Writes(d.id) /\ faults' \in 0..MaxFaults
        /\ \/ inst'[d.id] = Absent \/ inst'[d.id] = inst[d.id]
           \/ /\ Exists(d.id) /\ inst'[d.id].tenant = inst[d.id].tenant
              /\ inst'[d.id].label = inst[d.id].label
    <3>1. CASE IncusDelete(d.id)
      BY <3>1, <1>1, DeleteEffect
    <3>2. CASE inst[d.id].up = "running" /\ Fault /\ inst' = [inst EXCEPT ![d.id].up = "stopped"]
      BY <3>2, <1>1, WriteUp, FaultTyped DEF Exists
    <3>3. QED
      BY <1>2, <3>1, <3>2 DEF DestroyInstance
  <2>3. dels' \subseteq Del /\ DelIds' \subseteq DelIds
    <3>1. PICK e : e = [d EXCEPT !.pc = "free"]
      OBVIOUS
    <3>2. e \in Del /\ e.id = d.id
      BY <3>1, <1>1 DEF Del
    <3>3. \A x \in dels' : x \in dels \/ x = e
      BY <1>2, <3>1 DEF DestroyInstance
    <3>4. QED
      BY <3>2, <3>3 DEF TypeOK, DelIds
  <2>4. TypeOK'
    BY <2>1, <2>2, <2>3 DEF TypeOK, Writes, Instance, ipamVars, poolVars
  <2>5. Floor'
    BY <2>1, FloorKept DEF poolVars
  <2>6. Steady
    BY <2>1, <2>2, <2>3, <1>1, YoungIsBlank DEF Steady, Writes, poolVars, SpawnIds, Apart
  <2>7. Spawning' /\ Owned'
    BY <2>1, <2>2, ReadyIds, AbsentTyped DEF Spawning, Proceeds, Owned, OwnedBy, Writes, Exists
  <2>8. QED
    BY <2>4, <2>5, <2>6, <2>7, SteadyKeeps
<1>3. CASE FreeAddress(d)
  <2>1. UNCHANGED <<hostVars, poolVars, claimed, warms, spawns, granted, expired, faults, restarts>>
        /\ dels' = dels \ {d} /\ ReleaseAddr(ip[d.id])
    BY <1>3 DEF FreeAddress
  <2>2. TypeOK'
    BY <2>1, ReleaseEffect DEF TypeOK, hostVars, poolVars
  <2>3. Floor'
    BY <2>1, FloorKept DEF poolVars
  <2>4. Steady
    BY <2>1 DEF Steady, hostVars, poolVars, SpawnIds, DelIds, Apart
  <2>5. Spawning' /\ Owned'
    BY <2>1, HostKept DEF hostVars
  <2>6. QED
    BY <2>2, <2>3, <2>4, <2>5, SteadyKeeps
<1>4. QED
  BY <1>2, <1>3 DEF DelStep

\* What every step of SpawnSandbox has in common.
LEMMA SpawnFrame ==
  ASSUME IInv, NEW s \in spawns, Writes(s.id),
         UNCHANGED <<fresh, ip, ipamVars, poolVars, warms, expired, restarts>>,
         claimed' \subseteq claimed \cup {s.id},
         dels' \subseteq Del, DelIds' \subseteq DelIds \cup {s.id},
         spawns' \subseteq Spawn, SpawnIds' \subseteq SpawnIds,
         \A q, r \in spawns' : q.id = r.id => q = r,
         \A r \in spawns' : r \in spawns \/ (r.id = s.id /\ Proceeds(r)'),
         s.id \in SpawnIds' => s \notin spawns',
         granted' \in [Ids -> SUBSET Tenants],
         \A i \in Ids : i # s.id => granted'[i] = granted[i],
         OwnedBy(s.id)', faults' \in 0..MaxFaults
  PROVE  IInv'
<1> USE DEF IInv
<1>1. s.id \in Ids /\ s.id \in SpawnIds /\ s.id \notin Young
  BY ReadyIds, YoungIsBlank DEF SpawnIds
<1>2. TypeOK'
  BY <1>1 DEF TypeOK, Writes, Instance, ipamVars, poolVars
<1>3. Floor'
  BY FloorKept DEF poolVars
<1>4. Steady
  BY <1>1, YoungIsBlank DEF Steady, Writes, poolVars
<1>5. Spawning'
  <2>1. SUFFICES ASSUME NEW r \in spawns', r \in spawns PROVE Proceeds(r)'
    BY DEF Spawning
  <2>2. r.id # s.id
    BY <2>1 DEF Apart, SpawnIds
  <2>3. r.id \in Ids
    BY <2>1, ReadyIds
  <2>4. inst'[r.id] = inst[r.id] /\ granted'[r.id] = granted[r.id]
    BY <2>2, <2>3 DEF Writes
  <2>5. QED
    BY <2>1, <2>4 DEF Spawning, Proceeds, Exists
<1>6. Owned'
  <2>1. SUFFICES ASSUME NEW i \in Ids, i # s.id PROVE OwnedBy(i)'
    BY DEF Owned
  <2>2. inst'[i] = inst[i] /\ granted'[i] = granted[i]
    BY <2>1 DEF Writes
  <2>3. QED
    BY <2>1, <2>2 DEF Owned, OwnedBy, Exists
<1>7. QED
  BY <1>2, <1>3, <1>4, <1>5, <1>6, SteadyKeeps

LEMMA NothingWritten ==
  ASSUME TypeOK, NEW i, inst' = inst
  PROVE  Writes(i)
BY InstTyped DEF Writes

\* A spawn that gives up leaves its instance to a delete, or nowhere.
LEMMA SpawnGivesUp ==
  ASSUME IInv, NEW s \in spawns, Writes(s.id), spawns' = spawns \ {s},
         UNCHANGED <<fresh, ip, ipamVars, poolVars, claimed, warms, granted, expired, restarts>>,
         dels' \subseteq Del, DelIds' \subseteq DelIds \cup {s.id}, faults' \in 0..MaxFaults
  PROVE  IInv'
<1> USE DEF IInv
<1>1. /\ spawns' \subseteq Spawn /\ SpawnIds' = SpawnIds \ {s.id}
      /\ \A q, r \in spawns' : q.id = r.id => q = r
  BY SpawnGone
<1>2. granted[s.id] = {}
  BY DEF Spawning, Proceeds
<1>3. OwnedBy(s.id)' /\ granted' \in [Ids -> SUBSET Tenants]
  BY <1>2 DEF OwnedBy, TypeOK
<1>4. QED
  BY <1>1, <1>3, SpawnFrame

LEMMA NewDel ==
  ASSUME TypeOK, NEW s \in spawns, NEW m \in BOOLEAN, NEW who \in {"claim", "spawn"},
         dels' = dels \cup {[id |-> s.id, by |-> who, member |-> m, pc |-> "delete"]}
  PROVE  /\ dels' \subseteq Del /\ DelIds' = DelIds \cup {s.id}
         /\ \E d \in Del : /\ d.id = s.id /\ d.by = who /\ d.member = m /\ d.pc = "delete"
                           /\ dels' = dels \cup {d}
<1>1. PICK d : d = [id |-> s.id, by |-> who, member |-> m, pc |-> "delete"]
  OBVIOUS
<1>2. d \in Del /\ d.id = s.id /\ d.by = who /\ d.member = m /\ d.pc = "delete"
  BY <1>1, ReadyIds DEF Del
<1>3. dels' = dels \cup {d}
  BY <1>1
<1>4. QED
  BY <1>2, <1>3 DEF TypeOK, DelIds

\* A spawn that goes on has stamped what it was to stamp.
LEMMA SpawnGoesOn ==
  ASSUME IInv, NEW s \in spawns, Writes(s.id),
         NEW p \in {"ttl", "labels", "track", "cold_start", "cold_unwind", "cold_network"}, GoesTo(s, p),
         UNCHANGED <<fresh, ip, ipamVars, poolVars, claimed, warms, dels, granted, expired, restarts>>,
         Exists(s.id)' =>
           /\ p \in {"ttl", "labels", "track", "cold_start", "cold_network"} => inst'[s.id].tenant = s.who
           /\ p \in {"track", "cold_start", "cold_network"} => inst'[s.id].label,
         p # s.pc, faults' \in 0..MaxFaults
  PROVE  IInv'
<1> USE DEF IInv
<1>1. PICK v \in Spawn : v.id = s.id /\ v.who = s.who /\ v.pc = p /\ spawns' = (spawns \ {s}) \cup {v}
  BY SpawnMoves
<1>2. /\ spawns' \subseteq Spawn /\ SpawnIds' = SpawnIds
      /\ \A q, r \in spawns' : q.id = r.id => q = r
  BY SpawnMoves
<1>3. granted[s.id] = {} /\ granted' = granted
  BY DEF Spawning, Proceeds
<1>4. OwnedBy(s.id)' /\ granted' \in [Ids -> SUBSET Tenants]
  BY <1>3 DEF OwnedBy, TypeOK
<1>5. Proceeds(v)'
  BY <1>1, <1>3 DEF Proceeds, Exists
<1>6. s \notin spawns'
  BY <1>1
<1>7. dels' \subseteq Del /\ DelIds' = DelIds
  BY DEF TypeOK, DelIds
<1>8. QED
  BY <1>1, <1>2, <1>3, <1>4, <1>5, <1>6, <1>7, SpawnFrame

LEMMA AnsweredEffect ==
  ASSUME TypeOK, NEW s \in spawns, Answered(s), granted[s.id] = {}
  PROVE  /\ spawns' = spawns \ {s}
         /\ granted' \in [Ids -> SUBSET Tenants] /\ granted'[s.id] = {s.who}
         /\ \A i \in Ids : i # s.id => granted'[i] = granted[i]
<1>1. s.id \in Ids /\ s.who \in Tenants
  BY ReadyIds
<1>2. QED
  BY <1>1 DEF Answered, TypeOK

LEMMA SpawnAnswers ==
  ASSUME IInv, NEW s \in spawns, s.pc \in {"track", "cold_network"}, Answered(s),
         UNCHANGED <<inst, fresh, ip, ipamVars, poolVars, warms, dels, expired, restarts>>,
         claimed' \subseteq claimed \cup {s.id}, faults' \in 0..MaxFaults
  PROVE  IInv'
<1> USE DEF IInv
<1>1. granted[s.id] = {} /\ Proceeds(s)
  BY DEF Spawning, Proceeds
<1>2. /\ spawns' = spawns \ {s}
      /\ granted' \in [Ids -> SUBSET Tenants] /\ granted'[s.id] = {s.who}
      /\ \A i \in Ids : i # s.id => granted'[i] = granted[i]
  BY <1>1, AnsweredEffect
<1>3. /\ spawns' \subseteq Spawn /\ SpawnIds' = SpawnIds \ {s.id}
      /\ \A q, r \in spawns' : q.id = r.id => q = r
  BY <1>2, SpawnGone
<1>4. OwnedBy(s.id)'
  BY <1>1, <1>2 DEF OwnedBy, Proceeds, Exists
<1>5. dels' \subseteq Del /\ DelIds' = DelIds /\ Writes(s.id)
  BY NothingWritten DEF TypeOK, DelIds
<1>6. QED
  BY <1>2, <1>3, <1>4, <1>5, SpawnFrame

LEMMA FailedClaimStep ==
  ASSUME IInv, NEW s \in spawns, FailedClaim(s),
         UNCHANGED <<inst, fresh, ip, ipamVars, poolVars, claimed, warms, granted, expired, restarts>>
  PROVE  IInv'
<1> USE DEF IInv
<1>1. /\ spawns' = spawns \ {s} /\ Fails(s.id)
      /\ dels' = dels \cup {[id |-> s.id, by |-> "claim", member |-> TRUE, pc |-> "delete"]}
  BY DEF FailedClaim
<1>2. dels' \subseteq Del /\ DelIds' = DelIds \cup {s.id}
  BY <1>1, NewDel
<1>3. faults' \in 0..MaxFaults /\ Writes(s.id)
  BY <1>1, FaultTyped, NothingWritten
<1>4. QED
  BY <1>1, <1>2, <1>3, SpawnGivesUp

LEMMA ClaimSteps ==
  ASSUME IInv, NEW s \in spawns, ClaimTenant(s) \/ ClaimTtl(s) \/ ClaimLabels(s)
  PROVE  IInv'
<1> USE DEF IInv
<1>1. s.id \in Ids /\ s.who \in Tenants /\ Proceeds(s)
  BY ReadyIds DEF Spawning
<1>2. UNCHANGED <<fresh, ip, ipamVars, poolVars, claimed, warms, granted, expired, restarts>>
  BY DEF ClaimTenant, ClaimTtl, ClaimLabels, Stamp
<1>3. CASE FailedClaim(s) /\ UNCHANGED inst
  BY <1>2, <1>3, FailedClaimStep
<1>4. ASSUME s.pc = "tenant", Exists(s.id), inst' = [inst EXCEPT ![s.id].tenant = s.who],
             GoesTo(s, "ttl"), UNCHANGED <<dels, faults>>
      PROVE  IInv'
  <2>1. Writes(s.id) /\ inst'[s.id].tenant = s.who
    BY <1>1, <1>4, WriteTenant
  <2>2. faults' \in 0..MaxFaults
    BY <1>4 DEF TypeOK
  <2>3. QED
    BY <1>1, <1>2, <1>4, <2>1, <2>2, SpawnGoesOn
<1>5. ASSUME s.pc = "ttl", Exists(s.id), inst' = [inst EXCEPT ![s.id].ttl = Ttl],
             GoesTo(s, "labels"), UNCHANGED <<dels, faults>>
      PROVE  IInv'
  <2>1. Writes(s.id) /\ inst'[s.id].tenant = s.who
    BY <1>1, <1>5, WriteTtl DEF Proceeds
  <2>2. faults' \in 0..MaxFaults
    BY <1>5 DEF TypeOK
  <2>3. QED
    BY <1>1, <1>2, <1>5, <2>1, <2>2, SpawnGoesOn
<1>6. ASSUME s.pc = "labels", Exists(s.id), inst' = [inst EXCEPT ![s.id].label = TRUE],
             GoesTo(s, "track"), UNCHANGED <<dels, faults>>
      PROVE  IInv'
  <2>1. Writes(s.id) /\ inst'[s.id].tenant = s.who /\ inst'[s.id].label
    BY <1>1, <1>6, WriteLabel DEF Proceeds
  <2>2. faults' \in 0..MaxFaults
    BY <1>6 DEF TypeOK
  <2>3. QED
    BY <1>1, <1>2, <1>6, <2>1, <2>2, SpawnGoesOn
<1>7. QED
  BY <1>3, <1>4, <1>5, <1>6 DEF ClaimTenant, ClaimTtl, ClaimLabels, Stamp

LEMMA ColdSteps ==
  ASSUME IInv, NEW s \in spawns, ColdCreate(s) \/ ColdStart(s) \/ ColdUnwind(s)
  PROVE  IInv'
<1> USE DEF IInv
<1>1. s.id \in Ids /\ s.who \in Tenants /\ Proceeds(s)
  BY ReadyIds DEF Spawning
<1>2. /\ UNCHANGED <<fresh, ip, ipamVars, poolVars, claimed, warms, dels, granted, expired, restarts>>
      /\ dels' \subseteq Del /\ DelIds' = DelIds
  BY DEF ColdCreate, ColdStart, ColdUnwind, TypeOK, DelIds
<1>3. CASE ColdCreate(s)
  <2>1. CASE /\ inst' = [inst EXCEPT ![s.id] = [up |-> "stopped", tenant |-> s.who, label |-> TRUE, ttl |-> Ttl]]
             /\ GoesTo(s, "cold_start") /\ UNCHANGED faults
    <3>1. Writes(s.id) /\ inst'[s.id].tenant = s.who /\ inst'[s.id].label
      BY <1>1, <2>1, WriteCold
    <3>2. faults' \in 0..MaxFaults /\ s.pc # "cold_start"
      BY <1>3, <2>1 DEF TypeOK, ColdCreate
    <3>3. QED
      BY <1>2, <2>1, <3>1, <3>2, SpawnGoesOn
  <2>2. CASE Fault /\ spawns' = spawns \ {s} /\ UNCHANGED inst
    <3>1. Writes(s.id) /\ faults' \in 0..MaxFaults
      BY <2>2, NothingWritten, FaultTyped
    <3>2. QED
      BY <1>2, <2>2, <3>1, SpawnGivesUp
  <2>3. QED
    BY <1>3, <2>1, <2>2 DEF ColdCreate
<1>4. CASE ColdStart(s)
  <2>1. CASE Exists(s.id) /\ inst' = [inst EXCEPT ![s.id].up = "running"] /\ GoesTo(s, "cold_network") /\ UNCHANGED faults
    <3>1. s.pc = "cold_start" /\ faults' \in 0..MaxFaults
      BY <1>4, <2>1 DEF ColdStart, TypeOK
    <3>2. Writes(s.id) /\ inst'[s.id].tenant = s.who /\ inst'[s.id].label
      BY <1>1, <2>1, <3>1, WriteUp DEF Proceeds
    <3>3. QED
      BY <1>2, <2>1, <3>1, <3>2, SpawnGoesOn
  <2>2. CASE Fails(s.id) /\ GoesTo(s, "cold_unwind") /\ UNCHANGED inst
    <3>1. Writes(s.id) /\ faults' \in 0..MaxFaults /\ s.pc = "cold_start"
      BY <1>4, <2>2, NothingWritten, FaultTyped DEF ColdStart
    <3>2. QED
      BY <1>2, <2>2, <3>1, SpawnGoesOn
  <2>3. QED
    BY <1>4, <2>1, <2>2 DEF ColdStart
<1>5. CASE ColdUnwind(s)
  <2>1. Writes(s.id) /\ faults' \in 0..MaxFaults /\ spawns' = spawns \ {s}
    BY <1>1, <1>5, DeleteEffect DEF ColdUnwind
  <2>2. QED
    BY <1>2, <2>1, SpawnGivesUp
<1>6. QED
  BY <1>3, <1>4, <1>5

LEMMA LastSteps ==
  ASSUME IInv, NEW s \in spawns, TrackClaimed(s) \/ ColdNetwork(s)
  PROVE  IInv'
<1> USE DEF IInv
<1>1. CASE TrackClaimed(s)
  <2>1. /\ s.pc = "track" /\ Answered(s) /\ claimed' = claimed \cup {s.id}
        /\ UNCHANGED <<inst, fresh, ip, ipamVars, poolVars, warms, dels, expired, faults, restarts>>
    BY <1>1 DEF TrackClaimed, hostVars
  <2>2. faults' \in 0..MaxFaults
    BY <2>1 DEF TypeOK
  <2>3. QED
    BY <2>1, <2>2, SpawnAnswers
<1>2. CASE ColdNetwork(s)
  <2>1. s.pc = "cold_network" /\ UNCHANGED <<inst, fresh, ip, ipamVars, poolVars, claimed, warms, expired, restarts>>
    BY <1>2 DEF ColdNetwork, hostVars
  <2>2. CASE Answered(s) /\ UNCHANGED <<dels, faults>>
    <3>1. faults' \in 0..MaxFaults
      BY <2>2 DEF TypeOK
    <3>2. QED
      BY <2>1, <2>2, <3>1, SpawnAnswers
  <2>3. CASE /\ Fails(s.id) /\ spawns' = spawns \ {s} /\ UNCHANGED granted
             /\ dels' = dels \cup {[id |-> s.id, by |-> "spawn", member |-> FALSE, pc |-> "delete"]}
    <3>1. dels' \subseteq Del /\ DelIds' = DelIds \cup {s.id}
      BY <2>3, NewDel
    <3>2. Writes(s.id) /\ faults' \in 0..MaxFaults
      BY <2>1, <2>3, NothingWritten, FaultTyped
    <3>3. QED
      BY <2>1, <2>3, <3>1, <3>2, SpawnGivesUp
  <2>4. QED
    BY <1>2, <2>2, <2>3 DEF ColdNetwork
<1>3. QED
  BY <1>1, <1>2

\* What every step of warmOne has in common.
LEMMA WarmFrame ==
  ASSUME IInv, NEW w \in warms, Writes(w.id),
         UNCHANGED <<fresh, ip, claimed, spawns, dels, granted, expired, restarts>>,
         inst'[w.id].tenant = NoTenant, ~inst'[w.id].label, inst'[w.id].ttl = NoTtl
  PROVE  /\ w.id \in Ids /\ w.id \in WarmIds
         /\ Blank(w.id)'
         /\ \A i \in fresh : Blank(i)' /\ ~Exists(i)'
         /\ \A v \in warms : v # w => Blank(v.id)' /\ (v.pc = "create" => ~Exists(v.id)')
         /\ \A i \in ReadySet : Blank(i)' /\ inst'[i].up = "running"
         /\ Spawning' /\ Owned'
         /\ inst' \in [Ids -> Instance] /\ DelIds' = DelIds /\ SpawnIds' = SpawnIds
<1> USE DEF IInv
<1>1. w.id \in Ids /\ w.id \in WarmIds /\ granted[w.id] = {}
  BY ReadyIds DEF WarmIds, Unowned, Blank
<1>2. Blank(w.id)'
  BY <1>1 DEF Blank
<1>3. \A i \in fresh : i \in Ids /\ i # w.id
  BY <1>1 DEF Apart, TypeOK
<1>4. \A v \in warms : v # w => v.id \in Ids /\ v.id # w.id
  BY ReadyIds DEF Apart
<1>5. \A i \in ReadySet : i \in Ids /\ i # w.id
  BY <1>1, ReadyIds DEF Apart
<1>6. \A s \in spawns : s.id \in Ids /\ s.id # w.id
  BY <1>1, ReadyIds DEF Apart, SpawnIds
<1>7. \A i \in fresh : Blank(i)' /\ ~Exists(i)'
  BY <1>3 DEF Unowned, Blank, Exists, Writes
<1>8. \A v \in warms : v # w => Blank(v.id)' /\ (v.pc = "create" => ~Exists(v.id)')
  BY <1>4 DEF Unowned, Blank, Exists, Writes
<1>9. \A i \in ReadySet : Blank(i)' /\ inst'[i].up = "running"
  BY <1>5 DEF Unowned, Blank, Exists, Writes
<1>10. Spawning'
  BY <1>6 DEF Spawning, Proceeds, Exists, Writes
<1>11. Owned'
  <2>1. SUFFICES ASSUME NEW i \in Ids PROVE OwnedBy(i)'
    BY DEF Owned
  <2>2. CASE i = w.id
    BY <2>2, <1>1 DEF OwnedBy
  <2>3. CASE i # w.id
    BY <2>3 DEF Owned, OwnedBy, Exists, Writes
  <2>4. QED
    BY <2>2, <2>3
<1>12. QED
  BY <1>1, <1>2, <1>7, <1>8, <1>9, <1>10, <1>11 DEF Writes, DelIds, SpawnIds

\* A warm goes on to its start or to its rollback.
LEMMA WarmGoesOn ==
  ASSUME IInv, NEW w \in warms, Writes(w.id), NEW p \in {"start", "unwind"},
         warms' = (warms \ {w}) \cup {[w EXCEPT !.pc = p]},
         UNCHANGED <<fresh, ip, claimed, spawns, dels, granted, expired, restarts>>,
         UNCHANGED <<ipamVars, poolVars>>, faults' \in 0..MaxFaults,
         inst'[w.id].tenant = NoTenant, ~inst'[w.id].label, inst'[w.id].ttl = NoTtl
  PROVE  IInv'
<1> USE DEF IInv
<1>1. PICK v \in Warm : v.id = w.id /\ v.pc = p /\ warms' = (warms \ {w}) \cup {v}
  BY WarmMoves
<1>2. /\ warms' \subseteq Warm /\ WarmIds' = WarmIds
      /\ \A u, x \in warms' : u.id = x.id => u = x
      /\ IsFiniteSet(warms') /\ Cardinality(warms') = Cardinality(warms)
  BY WarmMoves
<1>3. /\ w.id \in Ids /\ Blank(w.id)'
      /\ \A i \in fresh : Blank(i)' /\ ~Exists(i)'
      /\ \A u \in warms : u # w => Blank(u.id)' /\ (u.pc = "create" => ~Exists(u.id)')
      /\ \A i \in ReadySet : Blank(i)' /\ inst'[i].up = "running"
      /\ Spawning' /\ Owned'
      /\ inst' \in [Ids -> Instance] /\ DelIds' = DelIds /\ SpawnIds' = SpawnIds
  BY WarmFrame
<1>4. ReadySet' = ReadySet /\ ready' = ready /\ warming' = warming
  BY DEF ReadySet, poolVars
<1>5. TypeOK'
  BY <1>2, <1>3 DEF TypeOK, Instance, ipamVars, poolVars
<1>6. Floor'
  BY <1>2, <1>4 DEF Floor, WithinFloor
<1>7. Apart'
  BY <1>2, <1>3, <1>4 DEF Apart
<1>8. Later'
  BY <1>2, <1>3, <1>4 DEF Later
<1>9. Unowned'
  BY <1>1, <1>3, <1>4 DEF Unowned
<1>10. QED
  BY <1>3, <1>5, <1>6, <1>7, <1>8, <1>9

\* A warm ends without a member, or with one that is running.
LEMMA WarmStops ==
  ASSUME IInv, NEW w \in warms, Writes(w.id),
         WarmEnds(w, <<>>) \/ (WarmEnds(w, <<w.id>>) /\ inst'[w.id].up = "running"),
         UNCHANGED <<fresh, ip, claimed, spawns, dels, granted, expired, restarts>>,
         held' \subseteq Addrs, resting' \in [Addrs -> 0..Quarantine], cursor' \in 0..Size,
         faults' \in 0..MaxFaults,
         inst'[w.id].tenant = NoTenant, ~inst'[w.id].label, inst'[w.id].ttl = NoTtl
  PROVE  IInv'
<1> USE DEF IInv
<1>1. /\ warms' \subseteq Warm /\ WarmIds' = WarmIds \ {w.id}
      /\ \A u, v \in warms' : u.id = v.id => u = v
      /\ IsFiniteSet(warms') /\ Cardinality(warms') = Cardinality(warms) - 1
      /\ Cardinality(warms) \in Nat \ {0} /\ warms' = warms \ {w} /\ warming' = warming - 1
  BY WarmGone DEF WarmEnds
<1>2. /\ w.id \in Ids /\ w.id \in WarmIds /\ Blank(w.id)'
      /\ \A i \in fresh : Blank(i)' /\ ~Exists(i)'
      /\ \A u \in warms : u # w => Blank(u.id)' /\ (u.pc = "create" => ~Exists(u.id)')
      /\ \A i \in ReadySet : Blank(i)' /\ inst'[i].up = "running"
      /\ Spawning' /\ Owned'
      /\ inst' \in [Ids -> Instance] /\ DelIds' = DelIds /\ SpawnIds' = SpawnIds
  BY WarmFrame
<1>3. warming \in 0..MinWarm /\ Cardinality(warms) <= warming /\ Len(ready) \in Nat /\ MinWarm \in Nat
  BY PoolAssumption DEF TypeOK, Floor
<1>4. warming' \in 0..MinWarm /\ Cardinality(warms') <= warming'
  BY <1>1, <1>3
<1>5. /\ ready' \in Seq(Ids) /\ Len(ready') + warming' <= MinWarm
      /\ \A k, l \in 1..Len(ready') : ready'[k] = ready'[l] => k = l
      /\ ReadySet' \subseteq ReadySet \cup {w.id}
      /\ w.id \in ReadySet' => inst'[w.id].up = "running"
  <2>1. CASE WarmEnds(w, <<>>)
    <3>1. ready' = ready /\ ReadySet' = ReadySet
      BY <2>1, RingSame DEF WarmEnds, ReadySet
    <3>2. w.id \notin ReadySet
      BY <1>2 DEF Apart
    <3>3. ready \in Seq(Ids) /\ Len(ready) + warming <= MinWarm
      BY DEF TypeOK, Floor, WithinFloor
    <3>4. QED
      BY <3>1, <3>2, <3>3, <1>1, <1>3 DEF Apart
  <2>2. CASE WarmEnds(w, <<w.id>>) /\ inst'[w.id].up = "running"
    <3>1. /\ ready' \in Seq(Ids) /\ Len(ready') = Len(ready) + 1
          /\ \A k \in 1..Len(ready) : ready'[k] = ready[k]
          /\ ready'[Len(ready) + 1] = w.id
          /\ ReadySet' = ReadySet \cup {w.id}
      BY <2>2, <1>2, RingAppend DEF WarmEnds
    <3>2. Len(ready) + warming <= MinWarm
      BY DEF Floor, WithinFloor
    <3>3. \A k \in 1..Len(ready) : ready[k] # w.id
      BY <1>2 DEF Apart, ReadySet
    <3>4. 1..Len(ready') = 1..Len(ready) \cup {Len(ready) + 1}
      BY <3>1, <1>3
    <3>5. \A k, l \in 1..Len(ready') : ready'[k] = ready'[l] => k = l
      BY <3>1, <3>3, <3>4 DEF Apart
    <3>6. QED
      BY <2>2, <3>1, <3>2, <3>5, <1>1, <1>3
  <2>3. QED
    BY <2>1, <2>2
<1>6. TypeOK'
  BY <1>1, <1>2, <1>4, <1>5 DEF TypeOK, Instance
<1>7. Floor'
  BY <1>1, <1>4, <1>5 DEF Floor, WithinFloor
<1>8. w.id \notin fresh \cup SpawnIds /\ w.id \notin claimed \cup expired \cup DelIds
  BY <1>2 DEF Apart, Later
<1>9. Apart'
  BY <1>1, <1>2, <1>5, <1>8 DEF Apart
<1>10. Later'
  BY <1>1, <1>2, <1>5, <1>8 DEF Later
<1>11. Unowned'
  BY <1>1, <1>2, <1>5 DEF Unowned
<1>12. QED
  BY <1>2, <1>6, <1>7, <1>9, <1>10, <1>11

LEMMA WarmStepKeeps ==
  ASSUME IInv, NEW w \in warms, WarmStep(w)
  PROVE  IInv'
<1> USE DEF IInv
<1>1. w.id \in Ids /\ Blank(w.id)
  BY ReadyIds DEF Unowned
<1>2. UNCHANGED <<fresh, ip, claimed, spawns, dels, granted, expired, restarts>>
  BY DEF WarmStep, WarmCreate, WarmStart, WarmUnwind
<1>3. faults \in 0..MaxFaults /\ held \subseteq Addrs /\ resting \in [Addrs -> 0..Quarantine] /\ cursor \in 0..Size
  BY DEF TypeOK
<1>4. CASE WarmCreate(w)
  <2>1. CASE /\ inst' = [inst EXCEPT ![w.id].up = "stopped"]
             /\ warms' = (warms \ {w}) \cup {[w EXCEPT !.pc = "start"]}
             /\ UNCHANGED <<ipamVars, poolVars, faults>>
    <3>1. Writes(w.id) /\ inst'[w.id].tenant = NoTenant /\ ~inst'[w.id].label /\ inst'[w.id].ttl = NoTtl
      BY <1>1, <2>1, WriteUp DEF Blank
    <3>2. QED
      BY <1>2, <1>3, <2>1, <3>1, WarmGoesOn
  <2>2. CASE Fault /\ ReleaseAddr(ip[w.id]) /\ WarmEnds(w, <<>>) /\ UNCHANGED inst
    <3>1. Writes(w.id) /\ inst'[w.id].tenant = NoTenant /\ ~inst'[w.id].label /\ inst'[w.id].ttl = NoTtl
      BY <1>1, <2>2, NothingWritten DEF Blank
    <3>2. /\ held' \subseteq Addrs /\ resting' \in [Addrs -> 0..Quarantine] /\ cursor' \in 0..Size
          /\ faults' \in 0..MaxFaults
      BY <2>2, ReleaseEffect, FaultTyped
    <3>3. QED
      BY <1>2, <2>2, <3>1, <3>2, WarmStops
  <2>3. QED
    BY <1>4, <2>1, <2>2 DEF WarmCreate
<1>5. CASE WarmStart(w)
  <2>1. CASE inst' = [inst EXCEPT ![w.id].up = "running"] /\ WarmEnds(w, <<w.id>>) /\ UNCHANGED faults
    <3>1. /\ Writes(w.id) /\ inst'[w.id].tenant = NoTenant /\ ~inst'[w.id].label /\ inst'[w.id].ttl = NoTtl
          /\ inst'[w.id].up = "running"
      BY <1>1, <2>1, WriteUp DEF Blank
    <3>2. UNCHANGED ipamVars
      BY <1>5 DEF WarmStart
    <3>3. QED
      BY <1>2, <1>3, <2>1, <3>1, <3>2, WarmStops DEF ipamVars
  <2>2. CASE /\ Fault /\ warms' = (warms \ {w}) \cup {[w EXCEPT !.pc = "unwind"]}
             /\ UNCHANGED <<inst, poolVars>>
    <3>1. /\ Writes(w.id) /\ inst'[w.id].tenant = NoTenant /\ ~inst'[w.id].label /\ inst'[w.id].ttl = NoTtl
          /\ faults' \in 0..MaxFaults
      BY <1>1, <2>2, NothingWritten, FaultTyped DEF Blank
    <3>2. UNCHANGED ipamVars
      BY <1>5 DEF WarmStart
    <3>3. QED
      BY <1>2, <2>2, <3>1, <3>2, WarmGoesOn
  <2>3. QED
    BY <1>5, <2>1, <2>2 DEF WarmStart
<1>6. CASE WarmUnwind(w)
  <2>1. IncusDelete(w.id) /\ ReleaseAddr(ip[w.id]) /\ WarmEnds(w, <<>>)
    BY <1>6 DEF WarmUnwind
  <2>2. Writes(w.id) /\ faults' \in 0..MaxFaults /\ (inst'[w.id] = Absent \/ inst'[w.id] = inst[w.id])
    BY <1>1, <2>1, DeleteEffect
  <2>3. inst'[w.id].tenant = NoTenant /\ ~inst'[w.id].label /\ inst'[w.id].ttl = NoTtl
    BY <1>1, <2>2, AbsentTyped DEF Blank
  <2>4. held' \subseteq Addrs /\ resting' \in [Addrs -> 0..Quarantine] /\ cursor' \in 0..Size
    BY <2>1, ReleaseEffect
  <2>5. QED
    BY <1>2, <2>1, <2>2, <2>3, <2>4, WarmStops
<1>7. QED
  BY <1>4, <1>5, <1>6 DEF WarmStep

\* A new id enters as a warm.
LEMMA WarmAllocateStep ==
  ASSUME IInv, WarmAllocate
  PROVE  IInv'
<1> USE DEF IInv
<1>1. UNCHANGED <<inst, poolVars, claimed, spawns, dels, granted, expired, faults, restarts>>
  BY DEF WarmAllocate
<1>2. PICK i \in fresh, a \in Addrs :
        /\ Allocate(a) /\ fresh' = fresh \ {i} /\ ip' = [ip EXCEPT ![i] = a]
        /\ warms' = warms \cup {[id |-> i, pc |-> "create"]}
  BY DEF WarmAllocate
<1>3. PICK v : v = [id |-> i, pc |-> "create"]
  OBVIOUS
<1>4. i \in Ids /\ v \in Warm /\ v.id = i /\ v.pc = "create" /\ warms' = warms \cup {v}
  BY <1>2, <1>3 DEF TypeOK, Warm
<1>5. /\ held' \subseteq Addrs /\ resting' \in [Addrs -> 0..Quarantine] /\ cursor' \in 0..Size
      /\ ip' \in [Ids -> Addrs \cup {NoAddr}]
  BY <1>2, AllocateEffect DEF TypeOK
<1>6. /\ WarmIds' = WarmIds \cup {i} /\ ReadySet' = ReadySet /\ SpawnIds' = SpawnIds /\ DelIds' = DelIds
      /\ ready' = ready /\ warming' = warming
  BY <1>1, <1>4 DEF WarmIds, ReadySet, SpawnIds, DelIds, poolVars
<1>7. TypeOK'
  BY <1>1, <1>2, <1>4, <1>5 DEF TypeOK, poolVars
<1>8. i \notin WarmIds /\ i \notin ReadySet /\ i \notin SpawnIds
  BY DEF Apart
<1>9. Floor'
  <2>1. Cardinality(warms) < warming
    BY DEF WarmAllocate
  <2>2. v \notin warms
    BY <1>4, <1>8 DEF WarmIds
  <2>3. IsFiniteSet(warms') /\ Cardinality(warms') = Cardinality(warms) + 1
    BY <1>4, <2>2, FS_AddElement DEF Floor
  <2>4. Cardinality(warms) \in Nat /\ warming \in Nat
    BY FS_CardinalityType DEF Floor, TypeOK
  <2>5. QED
    BY <2>1, <2>3, <2>4, <1>6 DEF Floor, WithinFloor
<1>10. Apart'
  <2>1. \A u, x \in warms' : u.id = x.id => u = x
    BY <1>4, <1>8 DEF Apart, WarmIds
  <2>2. QED
    BY <2>1, <1>1, <1>2, <1>6, <1>8 DEF Apart
<1>11. Later'
  BY <1>1, <1>2, <1>6 DEF Later
<1>12. Unowned'
  BY <1>1, <1>2, <1>4, <1>6 DEF Unowned, Blank, Exists
<1>13. Spawning' /\ Owned'
  BY <1>1, HostKept
<1>14. QED
  BY <1>7, <1>9, <1>10, <1>11, <1>12, <1>13

LEMMA NewSpawn ==
  ASSUME TypeOK, Apart, NEW t \in Tenants, NEW i \in Ids, i \notin SpawnIds,
         NEW p \in {"tenant", "cold_create"},
         spawns' = spawns \cup {[who |-> t, id |-> i, pc |-> p]}
  PROVE  /\ \E v \in Spawn : v.id = i /\ v.who = t /\ v.pc = p /\ spawns' = spawns \cup {v}
         /\ spawns' \subseteq Spawn /\ SpawnIds' = SpawnIds \cup {i}
         /\ \A q, r \in spawns' : q.id = r.id => q = r
<1>1. PICK v : v = [who |-> t, id |-> i, pc |-> p]
  OBVIOUS
<1>2. v \in Spawn /\ v.id = i /\ v.who = t /\ v.pc = p
  BY <1>1 DEF Spawn
<1>3. spawns' = spawns \cup {v}
  BY <1>1
<1>4. spawns' \subseteq Spawn /\ SpawnIds' = SpawnIds \cup {i}
  BY <1>2, <1>3 DEF TypeOK, SpawnIds
<1>5. \A q, r \in spawns' : q.id = r.id => q = r
  BY <1>2, <1>3 DEF Apart, SpawnIds
<1>6. QED
  BY <1>2, <1>3, <1>4, <1>5

\* A claim takes the oldest ready member.
LEMMA ClaimStep ==
  ASSUME IInv, NEW t \in Tenants, Claim(t)
  PROVE  IInv'
<1> USE DEF IInv
<1>1. /\ UNCHANGED <<hostVars, ipamVars, warming, claimed, warms, dels, granted, expired, faults, restarts>>
      /\ ready # <<>> /\ ready' = Tail(ready)
      /\ spawns' = spawns \cup {[who |-> t, id |-> Head(ready), pc |-> "tenant"]}
  BY DEF Claim
<1>2. /\ Head(ready) \in ReadySet /\ Head(ready) \in Ids
      /\ ready' \in Seq(Ids) /\ Len(ready') = Len(ready) - 1
      /\ \A k \in 1..Len(ready') : ready'[k] = ready[k + 1] /\ k + 1 \in 1..Len(ready)
      /\ ReadySet' \subseteq ReadySet
  BY <1>1, RingTail
<1>3. PICK i \in ReadySet : i = Head(ready)
  BY <1>2
<1>4. i \in Ids /\ i \notin SpawnIds /\ i \notin fresh \cup WarmIds
  BY <1>2, <1>3 DEF Apart
<1>5. PICK v \in Spawn : v.id = i /\ v.who = t /\ v.pc = "tenant" /\ spawns' = spawns \cup {v}
  BY <1>1, <1>3, <1>4, NewSpawn
<1>6. /\ spawns' \subseteq Spawn /\ SpawnIds' = SpawnIds \cup {i}
      /\ \A q, r \in spawns' : q.id = r.id => q = r
  BY <1>1, <1>3, <1>4, NewSpawn
<1>7. i \notin ReadySet'
  <2>1. ready \in Seq(Ids) /\ Len(ready) \in Nat \ {0} /\ i = ready[1] /\ 1 \in 1..Len(ready)
    BY <1>1, <1>3 DEF TypeOK
  <2>2. \A k \in 1..Len(ready') : ready'[k] # i
    BY <2>1, <1>2 DEF Apart
  <2>3. QED
    BY <2>2 DEF ReadySet
<1>8. WarmIds' = WarmIds /\ DelIds' = DelIds /\ fresh' = fresh /\ warms' = warms /\ inst' = inst
  BY <1>1 DEF WarmIds, DelIds, hostVars
<1>9. TypeOK'
  BY <1>1, <1>2, <1>6 DEF TypeOK, hostVars, ipamVars
<1>10. Floor'
  <2>1. Len(ready) \in Nat /\ warming \in Nat /\ Len(ready) + warming <= MinWarm /\ MinWarm \in Nat
    BY PoolAssumption DEF Floor, WithinFloor, TypeOK
  <2>2. Len(ready') + warming' <= MinWarm
    BY <2>1, <1>1, <1>2
  <2>3. QED
    BY <2>2, <1>1 DEF Floor, WithinFloor
<1>11. Apart'
  <2>1. \A k, l \in 1..Len(ready') : ready'[k] = ready'[l] => k = l
    <3>1. SUFFICES ASSUME NEW k \in 1..Len(ready'), NEW l \in 1..Len(ready'), ready'[k] = ready'[l]
                   PROVE  k = l
      OBVIOUS
    <3>2. k + 1 = l + 1
      BY <3>1, <1>2 DEF Apart
    <3>3. QED
      BY <3>2
  <2>2. QED
    BY <2>1, <1>2, <1>4, <1>6, <1>7, <1>8 DEF Apart
<1>12. Later'
  BY <1>1, <1>2, <1>8 DEF Later
<1>13. Unowned'
  BY <1>1, <1>2, <1>8 DEF Unowned, Blank, Exists
<1>14. Spawning'
  BY <1>1, <1>5, <1>8 DEF Spawning, Proceeds, Exists, Unowned, Blank
<1>15. Owned'
  BY <1>1, <1>8 DEF Owned, OwnedBy, Exists
<1>16. QED
  BY <1>9, <1>10, <1>11, <1>12, <1>13, <1>14, <1>15

LEMMA ColdSpawnStep ==
  ASSUME IInv, NEW t \in Tenants, ColdSpawn(t)
  PROVE  IInv'
<1> USE DEF IInv
<1>1. UNCHANGED <<inst, ip, ipamVars, poolVars, claimed, warms, dels, granted, expired, faults, restarts>>
  BY DEF ColdSpawn
<1>2. PICK i \in fresh : /\ fresh' = fresh \ {i}
                         /\ spawns' = spawns \cup {[who |-> t, id |-> i, pc |-> "cold_create"]}
  BY DEF ColdSpawn
<1>3. i \in Ids /\ i \notin SpawnIds /\ i \notin WarmIds \cup ReadySet
  BY DEF Apart, TypeOK
<1>4. PICK v \in Spawn : v.id = i /\ v.who = t /\ v.pc = "cold_create" /\ spawns' = spawns \cup {v}
  BY <1>2, <1>3, NewSpawn
<1>5. /\ spawns' \subseteq Spawn /\ SpawnIds' = SpawnIds \cup {i}
      /\ \A q, r \in spawns' : q.id = r.id => q = r
  BY <1>2, <1>3, NewSpawn
<1>6. WarmIds' = WarmIds /\ DelIds' = DelIds /\ ReadySet' = ReadySet /\ ready' = ready /\ warms' = warms
  BY <1>1 DEF WarmIds, DelIds, ReadySet, poolVars
<1>7. TypeOK'
  BY <1>1, <1>2, <1>5 DEF TypeOK, ipamVars, poolVars
<1>8. Floor'
  BY <1>1, FloorKept DEF poolVars
<1>9. Apart'
  BY <1>2, <1>3, <1>5, <1>6 DEF Apart
<1>10. Later'
  BY <1>1, <1>2, <1>6 DEF Later
<1>11. Unowned'
  BY <1>1, <1>2, <1>6 DEF Unowned, Blank, Exists
<1>12. Spawning'
  BY <1>1, <1>4 DEF Spawning, Proceeds, Exists, Unowned, Blank
<1>13. Owned'
  BY <1>1 DEF Owned, OwnedBy, Exists
<1>14. QED
  BY <1>7, <1>8, <1>9, <1>10, <1>11, <1>12, <1>13

\* Time passes; the daemon starts again with nothing in memory.
LEMMA ClockEffect ==
  ASSUME TypeOK, Clock
  PROVE  /\ inst' \in [Ids -> Instance] /\ resting' \in [Addrs -> 0..Quarantine]
         /\ \A i \in Ids : /\ inst'[i].up = inst[i].up /\ inst'[i].tenant = inst[i].tenant
                           /\ inst'[i].label = inst[i].label
                           /\ inst[i].ttl = NoTtl <=> inst'[i].ttl = NoTtl
<1>1. /\ inst' = [i \in Ids |-> [inst[i] EXCEPT !.ttl = IF @ > 0 THEN @ - 1 ELSE @]]
      /\ resting' = [a \in Addrs |-> IF resting[a] > 0 THEN resting[a] - 1 ELSE 0]
  BY DEF Clock
<1>2. resting' \in [Addrs -> 0..Quarantine]
  BY <1>1, PoolAssumption DEF TypeOK
<1>3. ASSUME NEW i \in Ids
      PROVE  /\ inst'[i] \in Instance /\ inst'[i].up = inst[i].up /\ inst'[i].tenant = inst[i].tenant
             /\ inst'[i].label = inst[i].label /\ (inst[i].ttl = NoTtl <=> inst'[i].ttl = NoTtl)
  <2>1. inst[i] \in Instance /\ inst'[i] = [inst[i] EXCEPT !.ttl = IF @ > 0 THEN @ - 1 ELSE @]
    BY <1>1, InstTyped
  <2>2. inst[i].ttl \in {-1} \cup 0..Ttl
    BY <2>1 DEF Instance, NoTtl
  <2>3. PICK n : n = IF inst[i].ttl > 0 THEN inst[i].ttl - 1 ELSE inst[i].ttl
    OBVIOUS
  <2>4. n \in {-1} \cup 0..Ttl /\ (n = -1 <=> inst[i].ttl = -1)
    BY <2>2, <2>3, PoolAssumption
  <2>5. inst'[i] = [inst[i] EXCEPT !.ttl = n]
    BY <2>1, <2>3
  <2>6. QED
    BY <2>1, <2>4, <2>5 DEF Instance, NoTtl
<1>4. inst' \in [Ids -> Instance]
  BY <1>1, <1>3
<1>5. QED
  BY <1>2, <1>3, <1>4

LEMMA ClockStep ==
  ASSUME IInv, Clock
  PROVE  IInv'
<1> USE DEF IInv
<1>1. UNCHANGED <<fresh, ip, held, cursor, poolVars, claimed, warms, spawns, dels, granted, expired, faults, restarts>>
  BY DEF Clock
<1>2. /\ inst' \in [Ids -> Instance] /\ resting' \in [Addrs -> 0..Quarantine]
      /\ \A i \in Ids : /\ inst'[i].up = inst[i].up /\ inst'[i].tenant = inst[i].tenant
                        /\ inst'[i].label = inst[i].label
                        /\ inst[i].ttl = NoTtl <=> inst'[i].ttl = NoTtl
  BY ClockEffect
<1>3. TypeOK'
  BY <1>1, <1>2 DEF TypeOK, Instance, poolVars
<1>4. Floor'
  BY <1>1, FloorKept DEF poolVars
<1>5. /\ WarmIds' = WarmIds /\ ReadySet' = ReadySet /\ SpawnIds' = SpawnIds /\ DelIds' = DelIds
      /\ ready' = ready
  BY <1>1 DEF WarmIds, ReadySet, SpawnIds, DelIds, poolVars
<1>6. Apart' /\ Later'
  BY <1>1, <1>5 DEF Apart, Later
<1>7. \A i \in Ids : (Exists(i)' <=> Exists(i)) /\ (Blank(i) => Blank(i)')
  BY <1>1, <1>2 DEF Exists, Blank
<1>8. Unowned'
  BY <1>1, <1>2, <1>5, <1>7, ReadyIds DEF Unowned, TypeOK
<1>9. Spawning'
  BY <1>1, <1>2, <1>7, ReadyIds DEF Spawning, Proceeds
<1>10. Owned'
  BY <1>1, <1>2, <1>7 DEF Owned, OwnedBy
<1>11. QED
  BY <1>3, <1>4, <1>6, <1>8, <1>9, <1>10

LEMMA RestartStep ==
  ASSUME IInv, Restart
  PROVE  IInv'
<1> USE DEF IInv
<1>1. /\ held' = {} /\ resting' = [a \in Addrs |-> 0] /\ cursor' = 0 /\ ready' = <<>> /\ warming' = 0
      /\ claimed' = {} /\ warms' = {} /\ spawns' = {} /\ dels' = {} /\ expired' = {}
      /\ UNCHANGED <<inst, fresh, ip, granted, faults>>
  BY DEF Restart, hostVars
<1>2. restarts' \in 0..MaxRestarts /\ 0 \in 0..MinWarm /\ 0 \in 0..Size /\ 0 \in 0..Quarantine
  BY PoolAssumption DEF Restart, TypeOK
<1>3. TypeOK'
  BY <1>1, <1>2 DEF TypeOK
<1>4. Len(ready') = 0 /\ ReadySet' = {} /\ WarmIds' = {} /\ SpawnIds' = {} /\ DelIds' = {}
  BY <1>1 DEF ReadySet, WarmIds, SpawnIds, DelIds
<1>5. Floor'
  <2>1. IsFiniteSet(warms') /\ Cardinality(warms') = 0
    BY <1>1, FS_EmptySet
  <2>2. QED
    BY <2>1, <1>1, <1>4, PoolAssumption DEF Floor, WithinFloor
<1>6. Apart' /\ Later'
  BY <1>1, <1>4 DEF Apart, Later
<1>7. Unowned' /\ Spawning' /\ Owned'
  BY <1>1, <1>4 DEF Unowned, Blank, Spawning, Owned, OwnedBy, Exists
<1>8. QED
  BY <1>3, <1>5, <1>6, <1>7

LEMMA IInvInit == Init => IInv
<1> SUFFICES ASSUME Init PROVE IInv
  OBVIOUS
<1> USE DEF Init
<1>1. inst \in [Ids -> Instance]
  BY AbsentTyped
<1>2. 0 \in 0..MinWarm /\ 0 \in 0..Size /\ 0 \in 0..Quarantine /\ 0 \in 0..MaxFaults /\ 0 \in 0..MaxRestarts
  BY PoolAssumption
<1>3. TypeOK
  BY <1>1, <1>2 DEF TypeOK, Instance
<1>4. Len(ready) = 0 /\ ReadySet = {} /\ WarmIds = {} /\ SpawnIds = {} /\ DelIds = {}
  BY DEF ReadySet, WarmIds, SpawnIds, DelIds
<1>5. Floor
  <2>1. IsFiniteSet(warms) /\ Cardinality(warms) = 0
    BY FS_EmptySet
  <2>2. QED
    BY <2>1, <1>4, PoolAssumption DEF Floor, WithinFloor
<1>6. Apart /\ Later
  BY <1>4 DEF Apart, Later
<1>7. Unowned /\ Spawning /\ Owned
  BY <1>4, AbsentTyped DEF Unowned, Blank, Spawning, Owned, OwnedBy, Exists
<1>8. QED
  BY <1>3, <1>5, <1>6, <1>7 DEF IInv

LEMMA IInvNext == IInv /\ [Next]_vars => IInv'
<1> SUFFICES ASSUME IInv, [Next]_vars PROVE IInv'
  OBVIOUS
<1>1. CASE Reconcile \/ WarmExhausted
  BY <1>1, PoolBookkeeping
<1>2. CASE WarmAllocate
  BY <1>2, WarmAllocateStep
<1>3. ASSUME NEW w \in warms, WarmStep(w) PROVE IInv'
  BY <1>3, WarmStepKeeps
<1>4. ASSUME NEW t \in Tenants, Claim(t) \/ ColdSpawn(t) PROVE IInv'
  BY <1>4, ClaimStep, ColdSpawnStep
<1>5. ASSUME NEW s \in spawns, SpawnStep(s) PROVE IInv'
  BY <1>5, ClaimSteps, ColdSteps, LastSteps DEF SpawnStep
<1>6. ASSUME \/ \E t \in Tenants, i \in Ids : DeleteSandbox(t, i)
             \/ SweepList
             \/ \E i \in Ids : SweepDelete(i)
      PROVE  IInv'
  BY <1>6, DeleteStarts
<1>7. ASSUME NEW d \in dels, DelStep(d) PROVE IInv'
  BY <1>7, DelStepKeeps
<1>8. CASE Clock \/ Restart
  BY <1>8, ClockStep, RestartStep
<1>9. CASE UNCHANGED vars
  <2>1. UNCHANGED <<hostVars, ipamVars, poolVars, claimed, warms, spawns, dels, granted, expired, faults, restarts>>
    BY <1>9 DEF vars
  <2>2. TypeOK'
    BY <2>1 DEF IInv, TypeOK, hostVars, ipamVars, poolVars
  <2>3. Floor' /\ Steady /\ Spawning' /\ Owned'
    BY <2>1, FloorKept, HostKept DEF IInv, Steady, hostVars, poolVars, DelIds, SpawnIds, Apart
  <2>4. QED
    BY <2>2, <2>3, SteadyKeeps DEF IInv
<1>10. QED
  BY <1>1, <1>2, <1>3, <1>4, <1>5, <1>6, <1>7, <1>8, <1>9 DEF Next

LEMMA IInvAlways == Spec => []IInv
BY IInvInit, IInvNext, PTL DEF Spec

---------------------------------------------------------------------------
(* Theorems that hold whatever fails.                                      *)

\* Addresses lie in the range, TTLs and counters within their bounds, and
\* every warmOne, SpawnSandbox and destroy call is at one of its steps.
THEOREM PoolTypeCorrect == Spec => []TypeOK
<1>1. IInv => TypeOK
  BY DEF IInv
<1>2. QED
  BY <1>1, IInvAlways, PTL

\* The ring and the warms under way never exceed the floor, whatever fails:
\* planLocked counts both, and warmOne exchanges its count for its member in
\* one critical section.
THEOREM FloorIsACeiling == Spec => []WithinFloor
<1>1. IInv => WithinFloor
  BY DEF IInv, Floor
<1>2. QED
  BY <1>1, IInvAlways, PTL

\* A sandbox is returned to one tenant at most, and is that tenant's, labelled,
\* as long as it exists; a ready member is running and nobody's (Claim,
\* claimFromPool, SpawnSandbox).  Also when deletes fail, when a claim outlasts
\* the TTL and across restarts.
THEOREM OneTaskPerMember == Spec => []OneTask
<1>1. IInv => OneTask
  <2> SUFFICES ASSUME IInv PROVE OneTask
    OBVIOUS
  <2> USE DEF IInv
  <2>1. ASSUME NEW i \in Ids PROVE Cardinality(granted[i]) <= 1
    <3>1. granted[i] = {} \/ \E t \in granted[i] : granted[i] = {t}
      BY DEF Owned, OwnedBy
    <3>2. CASE granted[i] = {}
      <4>1. Cardinality(granted[i]) = 0
        BY <3>2, FS_EmptySet
      <4>2. QED
        BY <4>1
    <3>3. ASSUME NEW t \in granted[i], granted[i] = {t} PROVE Cardinality(granted[i]) <= 1
      <4>1. Cardinality(granted[i]) = 1
        BY <3>3, FS_Singleton, Zenon
      <4>2. QED
        BY <4>1
    <3>4. QED
      BY <3>1, <3>2, <3>3
  <2>2. ASSUME NEW i \in ReadySet PROVE inst[i] = [Absent EXCEPT !.up = "running"] /\ granted[i] = {}
    <3>1. i \in Ids /\ inst[i] \in Instance /\ Blank(i) /\ inst[i].up = "running"
      BY ReadyIds, InstTyped DEF Unowned
    <3>2. inst[i] = [up |-> "running", tenant |-> NoTenant, label |-> FALSE, ttl |-> NoTtl]
      BY <3>1 DEF Instance, Blank
    <3>3. [Absent EXCEPT !.up = "running"]
            = [up |-> "running", tenant |-> NoTenant, label |-> FALSE, ttl |-> NoTtl]
      <4>1. PICK x : x = [Absent EXCEPT !.up = "running"]
        OBVIOUS
      <4>2. x = [up |-> "running", tenant |-> NoTenant, label |-> FALSE, ttl |-> NoTtl]
        BY <4>1, AbsentTyped DEF Instance
      <4>3. QED
        BY <4>1, <4>2, Zenon
    <3>4. granted[i] = {}
      BY <3>1 DEF Blank
    <3>5. QED
      BY <3>2, <3>3, <3>4, Zenon
  <2>3. Cardinality(ReadySet) = Len(ready)
    <3>1. ready \in [1..Len(ready) -> ReadySet] /\ Len(ready) \in Nat
      BY DEF TypeOK, ReadySet
    <3>2. ready \in Bijection(1..Len(ready), ReadySet)
      BY <3>1 DEF Bijection, Injection, Surjection, IsInjective, Apart, ReadySet
    <3>3. ExistsBijection(1..Len(ready), ReadySet)
      BY <3>2 DEF ExistsBijection
    <3>4. QED
      BY <3>1, <3>3, FS_CountingElements
  <2>4. QED
    BY <2>1, <2>2, <2>3 DEF OneTask, Owned, OwnedBy
<1>2. QED
  BY <1>1, IInvAlways, PTL

---------------------------------------------------------------------------
(* Healthy steps: what the addresses and the orphans depend on.            *)

\* With every tracked member on the host, who holds an address is a matter
\* of the daemon's own records.
LEMMA Named ==
  ASSUME Stamped
  PROVE  Holders = Users /\ (NoOrphans <=> \A i \in Ids : Exists(i) => Mine(i))
<1>1. Holders = Users
  BY DEF Holders, Users, Stamped, WarmIds, ClaimIds, ClaimPcs, FreeIds
<1>2. NoOrphans <=> \A i \in Ids : Exists(i) => Mine(i)
  BY DEF NoOrphans, Mine, WarmIds, SpawnIds, DelIds
<1>3. QED
  BY <1>1, <1>2

LEMMA NamedNext ==
  ASSUME Stamped'
  PROVE  Holders' = Users' /\ (NoOrphans' <=> \A i \in Ids : Exists(i)' => Mine(i)')
<1>1. Holders' = Users'
  BY DEF Holders, Users, Stamped, WarmIds, ClaimIds, ClaimPcs, FreeIds
<1>2. NoOrphans' <=> \A i \in Ids : Exists(i)' => Mine(i)'
  BY DEF NoOrphans, Mine, WarmIds, SpawnIds, DelIds
<1>3. QED
  BY <1>1, <1>2

\* The addresses in use: the same, one more, or one less.
AccountsFor(users, addr, taken) ==
  /\ taken = {addr[i] : i \in users}
  /\ \A i, j \in users : addr[i] = addr[j] => i = j

LEMMA OneMore ==
  ASSUME NEW users \in SUBSET Ids, NEW addr \in [Ids -> Int], NEW taken, AccountsFor(users, addr, taken),
         NEW i \in Ids, i \notin users, NEW a \in Int, a \notin taken, NEW addr2, addr2 = [addr EXCEPT ![i] = a]
  PROVE  AccountsFor(users \cup {i}, addr2, taken \cup {a})
<1>1. addr2[i] = a /\ \A j \in users : addr2[j] = addr[j]
  OBVIOUS
<1>2. QED
  BY <1>1 DEF AccountsFor

LEMMA OneLess ==
  ASSUME NEW users, NEW addr, NEW taken, AccountsFor(users, addr, taken), NEW i \in users
  PROVE  AccountsFor(users \ {i}, addr, taken \ {addr[i]})
BY DEF AccountsFor

\* What an action has to leave in order.
LEMMA Closing ==
  ASSUME IInv, HInv, restarts' = restarts, Exclusive', Addressed', Stamped',
         AccountsFor(Users', ip', held'),
         \A i \in Ids : Exists(i)' => ip'[i] = NoAddr \/ i \in Users',
         \A i \in Ids : Exists(i)' => Mine(i)'
  PROVE  HInv'
<1>1. Holders' = Users' /\ NoOrphans'
  BY NamedNext
<1>2. AddressesAccounted'
  BY <1>1 DEF AddressesAccounted, AccountsFor
<1>3. Held'
  BY <1>1 DEF Held
<1>4. QED
  BY <1>1, <1>2, <1>3 DEF HInv

\* What is known before.
LEMMA Opening ==
  ASSUME IInv, HInv
  PROVE  /\ AccountsFor(Users, ip, held) /\ Users \subseteq Ids
         /\ \A i \in Ids : Exists(i) => ip[i] = NoAddr \/ i \in Users
         /\ \A i \in Ids : Exists(i) => Mine(i)
         /\ ip \in [Ids -> Int]
<1> USE DEF IInv, HInv
<1>1. Holders = Users /\ \A i \in Ids : Exists(i) => Mine(i)
  BY Named
<1>2. AccountsFor(Users, ip, held)
  BY <1>1 DEF AddressesAccounted, AccountsFor
<1>3. Users \subseteq Ids
  BY ReadyIds DEF Users, ClaimIds, FreeIds, TypeOK
<1>4. ip \in [Ids -> Int]
  BY PoolAssumption DEF TypeOK, Addrs, NoAddr
<1>5. QED
  BY <1>1, <1>2, <1>3, <1>4 DEF Held

\* Steps that only move the counters.
LEMMA HealthyBookkeeping ==
  ASSUME IInv, HInv,
         UNCHANGED <<inst, fresh, ip, held, ready, claimed, warms, spawns, dels, expired, restarts>>
  PROVE  HInv'
BY DEF HInv, Exclusive, Addressed, Stamped, StampedBy, Held, AddressesAccounted, NoOrphans, Holders,
       Exists, ReadySet, SpawnIds, DelIds, ColdIds, ClaimIds

---------------------------------------------------------------------------
(* Healthy spawns.                                                         *)

\* The spawn of an instance is the only call that has it.
LEMMA SpawnAlone ==
  ASSUME IInv, HInv, NEW s \in spawns
  PROVE  /\ s.id \in Ids /\ s.who \in Tenants /\ s.id \in SpawnIds
         /\ s.id \notin claimed \cup expired \cup DelIds \cup FreeIds \cup WarmIds \cup ReadySet \cup fresh
         /\ \A r \in spawns : r # s => r.id # s.id
         /\ s.id \in ClaimIds <=> s.pc \in ClaimPcs
         /\ StampedBy(s)
<1> USE DEF IInv, HInv
<1>1. s.id \in Ids /\ s.who \in Tenants /\ s.id \in SpawnIds
  BY ReadyIds DEF SpawnIds
<1>2. s.id \notin claimed \cup expired \cup DelIds \cup WarmIds \cup ReadySet \cup fresh
  BY <1>1 DEF Exclusive, Apart
<1>3. s.id \notin FreeIds
  BY <1>2 DEF FreeIds, DelIds
<1>4. \A r \in spawns : r # s => r.id # s.id
  BY DEF Apart
<1>5. s.id \in ClaimIds <=> s.pc \in ClaimPcs
  BY <1>4 DEF ClaimIds
<1>6. QED
  BY <1>1, <1>2, <1>3, <1>4, <1>5 DEF Stamped

LEMMA HealthyGoesOn ==
  ASSUME IInv, HInv, NEW s \in spawns, Writes(s.id),
         NEW p \in {"ttl", "labels", "track", "cold_start", "cold_unwind", "cold_network"}, GoesTo(s, p),
         UNCHANGED <<fresh, ip, held, ready, claimed, warms, dels, expired, restarts>>,
         p \in ClaimPcs <=> s.pc \in ClaimPcs,
         Exists(s.id)',
         p \in {"tenant", "ttl", "labels"} => ~inst'[s.id].label,
         p \in {"labels", "track", "cold_start", "cold_network", "cold_unwind"} => inst'[s.id].ttl = Ttl
  PROVE  HInv'
<1> USE DEF IInv, HInv
<1>1. PICK v \in Spawn : v.id = s.id /\ v.who = s.who /\ v.pc = p /\ spawns' = (spawns \ {s}) \cup {v}
  BY SpawnMoves
<1>2. SpawnIds' = SpawnIds
  BY SpawnMoves
<1>3. ClaimIds' = ClaimIds
  BY <1>1 DEF ClaimIds
<1>4. /\ WarmIds' = WarmIds /\ ReadySet' = ReadySet /\ DelIds' = DelIds /\ FreeIds' = FreeIds
      /\ claimed' = claimed /\ dels' = dels /\ Users' = Users
  BY <1>3 DEF WarmIds, ReadySet, DelIds, FreeIds, Users
<1>5. Exclusive' /\ Addressed'
  BY <1>2, <1>3, <1>4 DEF Exclusive, Addressed, ColdIds
<1>6. \A i \in Ids : i # s.id => (Exists(i)' <=> Exists(i)) /\ inst'[i] = inst[i]
  BY DEF Writes, Exists
<1>7. Stamped'
  <2>1. \A r \in spawns : r # s => StampedBy(r)'
    BY <1>6, SpawnAlone, ReadyIds DEF Stamped, StampedBy
  <2>2. StampedBy(v)'
    <3>1. v.pc # "cold_create" /\ Exists(v.id)'
      BY <1>1 DEF Exists
    <3>2. QED
      BY <3>1, <1>1 DEF StampedBy
  <2>3. \A i \in claimed' : Exists(i)'
    BY <1>4, <1>6, SpawnAlone DEF Stamped, TypeOK
  <2>4. \A d \in dels' : d.pc = "free" => d.member /\ ~Exists(d.id)'
    BY <1>4, <1>6, SpawnAlone, ReadyIds DEF Stamped, DelIds
  <2>5. QED
    BY <1>1, <2>1, <2>2, <2>3, <2>4 DEF Stamped
<1>8. AccountsFor(Users', ip', held')
  BY <1>4, Opening
<1>9. ASSUME NEW i \in Ids, Exists(i)' PROVE (ip'[i] = NoAddr \/ i \in Users') /\ Mine(i)'
  <2>1. CASE i = s.id
    <3>1. i \in Users \/ i \in ColdIds
      BY <2>1, SpawnAlone DEF Users, ColdIds
    <3>2. QED
      BY <2>1, <3>1, <1>2, <1>4, SpawnAlone DEF Addressed, Mine
  <2>2. CASE i # s.id
    BY <1>2, <1>4, <1>6, <1>9, <2>2, Opening DEF Mine
  <2>3. QED
    BY <2>1, <2>2
<1>10. QED
  BY <1>5, <1>7, <1>8, <1>9, Closing

\* A spawn ends without an answer: a member goes to Release.
LEMMA HealthyFailure ==
  ASSUME IInv, HInv, NEW s \in spawns, spawns' = spawns \ {s}, NEW m \in BOOLEAN, m <=> s.pc \in ClaimPcs,
         NEW who \in {"claim", "spawn"},
         dels' = dels \cup {[id |-> s.id, by |-> who, member |-> m, pc |-> "delete"]},
         UNCHANGED <<inst, fresh, ip, held, ready, claimed, warms, expired, restarts>>
  PROVE  HInv'
<1> USE DEF IInv, HInv
<1>1. PICK d \in Del : d.id = s.id /\ d.by = who /\ d.member = m /\ d.pc = "delete" /\ dels' = dels \cup {d}
  BY NewDel
<1>2. DelIds' = DelIds \cup {s.id} /\ SpawnIds' = SpawnIds \ {s.id}
  BY NewDel, SpawnGone
<1>3. ClaimIds' = ClaimIds \ {s.id}
  BY SpawnAlone DEF ClaimIds
<1>4. FreeIds' = IF m THEN FreeIds \cup {s.id} ELSE FreeIds
  BY <1>1 DEF FreeIds
<1>5. WarmIds' = WarmIds /\ ReadySet' = ReadySet /\ claimed' = claimed
  BY DEF WarmIds, ReadySet
<1>6. Users' = Users
  BY <1>3, <1>4, <1>5, SpawnAlone DEF Users
<1>7. Exclusive'
  <2>1. \A i \in SpawnIds' : i \notin claimed' \cup expired' \cup DelIds'
    BY <1>2 DEF Exclusive
  <2>2. \A i \in claimed' : i \notin DelIds'
    BY <1>2, SpawnAlone DEF Exclusive
  <2>3. \A e \in dels : e.id # d.id
    BY <1>1, SpawnAlone DEF DelIds
  <2>4. QED
    BY <1>1, <2>1, <2>2, <2>3 DEF Exclusive
<1>8. Addressed'
  BY <1>2, <1>3 DEF Addressed, ColdIds
<1>9. Stamped'
  BY <1>1 DEF Stamped, StampedBy, Exists
<1>10. AccountsFor(Users', ip', held')
  BY <1>6, Opening
<1>11. ASSUME NEW i \in Ids, Exists(i)' PROVE (ip'[i] = NoAddr \/ i \in Users') /\ Mine(i)'
  BY <1>2, <1>5, <1>6, <1>11, Opening DEF Exists, Mine
<1>12. QED
  BY <1>7, <1>8, <1>9, <1>10, <1>11, Closing

\* A cold spawn ends and nothing is left of it.
LEMMA HealthyGivesUp ==
  ASSUME IInv, HInv, NEW s \in spawns, spawns' = spawns \ {s}, s.pc \notin ClaimPcs,
         Writes(s.id), ~Exists(s.id)',
         UNCHANGED <<fresh, ip, held, ready, claimed, warms, dels, expired, restarts>>
  PROVE  HInv'
<1> USE DEF IInv, HInv
<1>1. SpawnIds' = SpawnIds \ {s.id}
  BY SpawnGone
<1>2. ClaimIds' = ClaimIds
  BY SpawnAlone DEF ClaimIds
<1>3. /\ WarmIds' = WarmIds /\ ReadySet' = ReadySet /\ DelIds' = DelIds /\ FreeIds' = FreeIds
      /\ claimed' = claimed /\ dels' = dels /\ Users' = Users
  BY <1>2 DEF WarmIds, ReadySet, DelIds, FreeIds, Users
<1>4. Exclusive' /\ Addressed'
  BY <1>1, <1>2, <1>3 DEF Exclusive, Addressed, ColdIds
<1>5. \A i \in Ids : i # s.id => (Exists(i)' <=> Exists(i)) /\ inst'[i] = inst[i]
  BY DEF Writes, Exists
<1>6. Stamped'
  <2>1. \A r \in spawns' : StampedBy(r)'
    BY <1>5, SpawnAlone, ReadyIds DEF Stamped, StampedBy
  <2>2. \A i \in claimed' : Exists(i)'
    BY <1>3, <1>5, SpawnAlone DEF Stamped, TypeOK
  <2>3. \A d \in dels' : d.pc = "free" => d.member /\ ~Exists(d.id)'
    BY <1>3, <1>5, SpawnAlone, ReadyIds DEF Stamped, DelIds
  <2>4. QED
    BY <2>1, <2>2, <2>3 DEF Stamped
<1>7. AccountsFor(Users', ip', held')
  BY <1>3, Opening
<1>8. ASSUME NEW i \in Ids, Exists(i)' PROVE (ip'[i] = NoAddr \/ i \in Users') /\ Mine(i)'
  BY <1>1, <1>3, <1>5, <1>8, Opening DEF Mine
<1>9. QED
  BY <1>4, <1>6, <1>7, <1>8, Closing

\* A spawn answers: the instance is the tenant's until its TTL runs out.
LEMMA HealthyAnswers ==
  ASSUME IInv, HInv, NEW s \in spawns, s.pc \in {"track", "cold_network"}, spawns' = spawns \ {s},
         claimed' = (IF s.pc = "track" THEN claimed \cup {s.id} ELSE claimed),
         UNCHANGED <<inst, fresh, ip, held, ready, warms, dels, expired, restarts>>
  PROVE  HInv'
<1> USE DEF IInv, HInv
<1>1. SpawnIds' = SpawnIds \ {s.id} /\ ClaimIds' = ClaimIds \ {s.id}
  BY SpawnGone, SpawnAlone DEF ClaimIds
<1>2. /\ WarmIds' = WarmIds /\ ReadySet' = ReadySet /\ DelIds' = DelIds /\ FreeIds' = FreeIds
      /\ dels' = dels
  BY DEF WarmIds, ReadySet, DelIds, FreeIds
<1>3. s.pc = "track" <=> s.pc \in ClaimPcs
  BY DEF ClaimPcs
<1>4. Users' = Users
  BY <1>1, <1>2, <1>3, SpawnAlone DEF Users
<1>5. Exclusive' /\ Addressed'
  BY <1>1, <1>2, SpawnAlone DEF Exclusive, Addressed, ColdIds
<1>6. Exists(s.id) /\ inst[s.id].ttl = Ttl /\ inst[s.id].label
  BY SpawnAlone DEF StampedBy, Spawning, Proceeds
<1>7. Stamped'
  BY <1>6 DEF Stamped, StampedBy, Exists
<1>8. AccountsFor(Users', ip', held')
  BY <1>4, Opening
<1>9. ASSUME NEW i \in Ids, Exists(i)' PROVE (ip'[i] = NoAddr \/ i \in Users') /\ Mine(i)'
  <2>1. Exists(i) /\ inst'[i] = inst[i]
    BY <1>9 DEF Exists
  <2>2. ip'[i] = NoAddr \/ i \in Users'
    BY <1>4, <2>1, Opening
  <2>3. Ttl # NoTtl
    BY PoolAssumption DEF NoTtl
  <2>4. Mine(i)'
    BY <1>1, <1>2, <1>6, <2>1, <2>3, Opening DEF Mine
  <2>5. QED
    BY <2>2, <2>4
<1>10. QED
  BY <1>5, <1>7, <1>8, <1>9, Closing

LEMMA HealthySpawnSteps ==
  ASSUME Healthy, IInv, HInv, NEW s \in spawns, SpawnStep(s)
  PROVE  HInv'
<1> USE DEF IInv, HInv
<1>1. s.id \in Ids /\ s.who \in Tenants /\ StampedBy(s)
  BY SpawnAlone
<1>2. CASE ClaimTenant(s)
  <2>1. s.pc = "tenant" /\ UNCHANGED <<fresh, ip, ipamVars, poolVars, claimed, warms, granted, expired, restarts>>
    BY <1>2 DEF ClaimTenant, Stamp
  <2>2. CASE FailedClaim(s) /\ UNCHANGED inst
    BY <2>1, <2>2, HealthyFailure DEF FailedClaim, ClaimPcs, ipamVars, poolVars
  <2>3. CASE Exists(s.id) /\ inst' = [inst EXCEPT ![s.id].tenant = s.who] /\ GoesTo(s, "ttl") /\ UNCHANGED <<dels, faults>>
    <3>1. Writes(s.id) /\ Exists(s.id)' /\ ~inst'[s.id].label
      BY <1>1, <2>1, <2>3, WriteTenant DEF StampedBy, Exists
    <3>2. QED
      BY <2>1, <2>3, <3>1, HealthyGoesOn DEF ClaimPcs, ipamVars, poolVars
  <2>4. QED
    BY <1>2, <2>2, <2>3 DEF ClaimTenant, Stamp
<1>3. CASE ClaimTtl(s)
  <2>1. s.pc = "ttl" /\ UNCHANGED <<fresh, ip, ipamVars, poolVars, claimed, warms, granted, expired, restarts>>
    BY <1>3 DEF ClaimTtl, Stamp
  <2>2. CASE FailedClaim(s) /\ UNCHANGED inst
    BY <2>1, <2>2, HealthyFailure DEF FailedClaim, ClaimPcs, ipamVars, poolVars
  <2>3. CASE Exists(s.id) /\ inst' = [inst EXCEPT ![s.id].ttl = Ttl] /\ GoesTo(s, "labels") /\ UNCHANGED <<dels, faults>>
    <3>1. Writes(s.id) /\ Exists(s.id)' /\ ~inst'[s.id].label /\ inst'[s.id].ttl = Ttl
      BY <1>1, <2>1, <2>3, WriteTtl DEF StampedBy, Exists
    <3>2. QED
      BY <2>1, <2>3, <3>1, HealthyGoesOn DEF ClaimPcs, ipamVars, poolVars
  <2>4. QED
    BY <1>3, <2>2, <2>3 DEF ClaimTtl, Stamp
<1>4. CASE ClaimLabels(s)
  <2>1. s.pc = "labels" /\ UNCHANGED <<fresh, ip, ipamVars, poolVars, claimed, warms, granted, expired, restarts>>
    BY <1>4 DEF ClaimLabels, Stamp
  <2>2. CASE FailedClaim(s) /\ UNCHANGED inst
    BY <2>1, <2>2, HealthyFailure DEF FailedClaim, ClaimPcs, ipamVars, poolVars
  <2>3. CASE Exists(s.id) /\ inst' = [inst EXCEPT ![s.id].label = TRUE] /\ GoesTo(s, "track") /\ UNCHANGED <<dels, faults>>
    <3>1. Writes(s.id) /\ Exists(s.id)' /\ inst'[s.id].ttl = Ttl
      BY <1>1, <2>1, <2>3, WriteLabel DEF StampedBy, Exists
    <3>2. QED
      BY <2>1, <2>3, <3>1, HealthyGoesOn DEF ClaimPcs, ipamVars, poolVars
  <2>4. QED
    BY <1>4, <2>2, <2>3 DEF ClaimLabels, Stamp
<1>5. CASE TrackClaimed(s)
  BY <1>5, HealthyAnswers DEF TrackClaimed, Answered, hostVars, ipamVars, poolVars
<1>6. CASE ColdCreate(s)
  <2>1. s.pc = "cold_create" /\ UNCHANGED <<fresh, ip, ipamVars, poolVars, claimed, warms, dels, granted, expired, restarts>>
    BY <1>6 DEF ColdCreate
  <2>2. CASE /\ inst' = [inst EXCEPT ![s.id] = [up |-> "stopped", tenant |-> s.who, label |-> TRUE, ttl |-> Ttl]]
             /\ GoesTo(s, "cold_start")
    <3>1. Writes(s.id) /\ Exists(s.id)' /\ inst'[s.id].ttl = Ttl
      BY <1>1, <2>2, WriteCold DEF Exists
    <3>2. QED
      BY <2>1, <2>2, <3>1, HealthyGoesOn DEF ClaimPcs, ipamVars, poolVars
  <2>3. CASE spawns' = spawns \ {s} /\ UNCHANGED inst
    <3>1. Writes(s.id) /\ ~Exists(s.id)'
      BY <1>1, <2>1, <2>3, NothingWritten DEF StampedBy, Exists
    <3>2. QED
      BY <2>1, <2>3, <3>1, HealthyGivesUp DEF ClaimPcs, ipamVars, poolVars
  <2>4. QED
    BY <1>6, <2>2, <2>3 DEF ColdCreate
<1>7. CASE ColdStart(s)
  <2>1. s.pc = "cold_start" /\ UNCHANGED <<fresh, ip, ipamVars, poolVars, claimed, warms, dels, granted, expired, restarts>>
    BY <1>7 DEF ColdStart
  <2>2. CASE inst' = [inst EXCEPT ![s.id].up = "running"] /\ GoesTo(s, "cold_network")
    <3>1. Writes(s.id) /\ Exists(s.id)' /\ inst'[s.id].ttl = Ttl
      BY <1>1, <2>1, <2>2, WriteUp DEF StampedBy
    <3>2. QED
      BY <2>1, <2>2, <3>1, HealthyGoesOn DEF ClaimPcs, ipamVars, poolVars
  <2>3. CASE GoesTo(s, "cold_unwind") /\ UNCHANGED inst
    <3>1. Writes(s.id) /\ Exists(s.id)' /\ inst'[s.id].ttl = Ttl
      BY <1>1, <2>1, <2>3, NothingWritten DEF StampedBy, Exists
    <3>2. QED
      BY <2>1, <2>3, <3>1, HealthyGoesOn DEF ClaimPcs, ipamVars, poolVars
  <2>4. QED
    BY <1>7, <2>2, <2>3 DEF ColdStart
<1>8. CASE ColdUnwind(s)
  <2>1. /\ s.pc = "cold_unwind" /\ IncusDelete(s.id) /\ spawns' = spawns \ {s}
        /\ UNCHANGED <<fresh, ip, ipamVars, poolVars, claimed, warms, dels, granted, expired, restarts>>
    BY <1>8 DEF ColdUnwind
  <2>2. Writes(s.id) /\ ~Exists(s.id)'
    BY <1>1, <2>1, DeleteEffect, AbsentTyped DEF Healthy, Exists
  <2>3. QED
    BY <2>1, <2>2, HealthyGivesUp DEF ClaimPcs, ipamVars, poolVars
<1>9. CASE ColdNetwork(s)
  <2>1. s.pc = "cold_network" /\ UNCHANGED <<hostVars, ipamVars, poolVars, claimed, warms, expired, restarts>>
    BY <1>9 DEF ColdNetwork
  <2>2. CASE Answered(s) /\ UNCHANGED <<dels, faults>>
    BY <2>1, <2>2, HealthyAnswers DEF Answered, hostVars, ipamVars, poolVars
  <2>3. CASE /\ spawns' = spawns \ {s}
             /\ dels' = dels \cup {[id |-> s.id, by |-> "spawn", member |-> FALSE, pc |-> "delete"]}
    BY <2>1, <2>3, HealthyFailure DEF ClaimPcs, hostVars, ipamVars, poolVars
  <2>4. QED
    BY <1>9, <2>2, <2>3 DEF ColdNetwork
<1>10. QED
  BY <1>2, <1>3, <1>4, <1>5, <1>6, <1>7, <1>8, <1>9 DEF SpawnStep

---------------------------------------------------------------------------
(* Healthy deletes.                                                        *)

LEMMA HealthyDeleteStarts ==
  ASSUME IInv, HInv, NEW i \in Ids, NEW who \in {"user", "sweeper"}, StartDelete(i, who),
         i \notin SpawnIds, expired' \subseteq expired,
         UNCHANGED <<inst, fresh, ip, held, ready, warms, spawns, restarts>>
  PROVE  HInv'
<1> USE DEF IInv, HInv
<1>1. PICK d \in Del : /\ d.id = i /\ d.by = who /\ d.member = (i \in claimed) /\ d.pc = "delete"
                       /\ dels' = dels \cup {d}
  BY StartDeleteEffect
<1>2. claimed' = claimed \ {i} /\ DelIds' = DelIds \cup {i}
  BY StartDeleteEffect
<1>3. WarmIds' = WarmIds /\ ReadySet' = ReadySet /\ SpawnIds' = SpawnIds /\ ClaimIds' = ClaimIds
  BY DEF WarmIds, ReadySet, SpawnIds, ClaimIds
<1>4. FreeIds' = IF i \in claimed THEN FreeIds \cup {i} ELSE FreeIds
  BY <1>1 DEF FreeIds
<1>5. Users' = Users
  BY <1>2, <1>3, <1>4 DEF Users
<1>6. Exclusive'
  <2>1. \A j \in SpawnIds' : j \notin claimed' \cup expired' \cup DelIds'
    BY <1>2, <1>3 DEF Exclusive
  <2>2. \A j \in claimed' : j \notin DelIds'
    BY <1>2 DEF Exclusive
  <2>3. d.member => \A e \in dels : e.id # d.id
    BY <1>1 DEF Exclusive, DelIds
  <2>4. QED
    BY <1>1, <2>1, <2>2, <2>3 DEF Exclusive
<1>7. Addressed'
  BY <1>3 DEF Addressed, ColdIds
<1>8. Stamped'
  BY <1>1, <1>2 DEF Stamped, StampedBy, Exists
<1>9. AccountsFor(Users', ip', held')
  BY <1>5, Opening
<1>10. ASSUME NEW j \in Ids, Exists(j)' PROVE (ip'[j] = NoAddr \/ j \in Users') /\ Mine(j)'
  BY <1>2, <1>3, <1>5, <1>10, Opening DEF Exists, Mine
<1>11. QED
  BY <1>6, <1>7, <1>8, <1>9, <1>10, Closing

\* Nothing expires under a spawn: it is not labelled yet, or its TTL is whole.
LEMMA HealthySweepList ==
  ASSUME IInv, HInv, SweepList
  PROVE  HInv'
<1> USE DEF IInv, HInv
<1>1. /\ expired' = {i \in Ids : Expired(i)}
      /\ UNCHANGED <<inst, fresh, ip, held, ready, claimed, warms, spawns, dels, restarts>>
  BY DEF SweepList, hostVars, ipamVars, poolVars
<1>2. ASSUME NEW s \in spawns PROVE ~Expired(s.id)
  <2>1. s.pc \in {"tenant", "ttl", "labels", "track", "cold_create", "cold_start", "cold_unwind", "cold_network"}
    BY DEF TypeOK, Spawn
  <2>2. QED
    BY <2>1, SpawnAlone, PoolAssumption DEF Expired, StampedBy
<1>3. \A i \in SpawnIds : ~Expired(i)
  BY <1>2 DEF SpawnIds
<1>4. /\ WarmIds' = WarmIds /\ ReadySet' = ReadySet /\ SpawnIds' = SpawnIds /\ ClaimIds' = ClaimIds
      /\ DelIds' = DelIds /\ FreeIds' = FreeIds /\ Users' = Users
  BY <1>1 DEF WarmIds, ReadySet, SpawnIds, ClaimIds, DelIds, FreeIds, Users
<1>5. Exclusive'
  BY <1>1, <1>3, <1>4 DEF Exclusive
<1>6. Addressed' /\ Stamped'
  BY <1>1, <1>4 DEF Addressed, ColdIds, Stamped, StampedBy, Exists
<1>7. AccountsFor(Users', ip', held')
  BY <1>1, <1>4, Opening
<1>8. ASSUME NEW j \in Ids, Exists(j)' PROVE (ip'[j] = NoAddr \/ j \in Users') /\ Mine(j)'
  BY <1>1, <1>4, <1>8, Opening DEF Exists, Mine
<1>9. QED
  BY <1>1, <1>5, <1>6, <1>7, <1>8, Closing

LEMMA HealthyDestroy ==
  ASSUME Healthy, IInv, HInv, NEW d \in dels, DestroyInstance(d)
  PROVE  HInv'
<1> USE DEF IInv, HInv
<1>1. /\ d.pc = "delete" /\ d.id \in Ids /\ d.id \in DelIds /\ IncusDelete(d.id)
      /\ dels' = (dels \ {d}) \cup (IF d.member THEN {[d EXCEPT !.pc = "free"]} ELSE {})
      /\ UNCHANGED <<fresh, ip, held, ready, claimed, warms, spawns, expired, restarts>>
  BY ReadyIds DEF DestroyInstance, Healthy, DelIds, ipamVars, poolVars
<1>2. Writes(d.id) /\ ~Exists(d.id)'
  BY <1>1, DeleteEffect, AbsentTyped DEF Healthy, Exists
<1>3. \A i \in Ids : i # d.id => (Exists(i)' <=> Exists(i)) /\ inst'[i] = inst[i]
  BY <1>2 DEF Writes, Exists
<1>4. PICK e : e = [d EXCEPT !.pc = "free"]
  OBVIOUS
<1>5. e \in Del /\ e.id = d.id /\ e.member = d.member /\ e.pc = "free"
  BY <1>4 DEF TypeOK, Del
<1>6. dels' = (dels \ {d}) \cup (IF d.member THEN {e} ELSE {})
  BY <1>1, <1>4
<1>7. FreeIds' = FreeIds
  BY <1>5, <1>6 DEF FreeIds
<1>8. DelIds' \subseteq DelIds /\ DelIds \subseteq DelIds' \cup {d.id}
  BY <1>1, <1>5, <1>6 DEF DelIds
<1>9. /\ WarmIds' = WarmIds /\ ReadySet' = ReadySet /\ SpawnIds' = SpawnIds /\ ClaimIds' = ClaimIds
      /\ claimed' = claimed /\ Users' = Users
  BY <1>1, <1>7 DEF WarmIds, ReadySet, SpawnIds, ClaimIds, Users
<1>10. Exclusive'
  <2>1. \A x, y \in dels' : x.member /\ y.member /\ x.id = y.id => x = y
    BY <1>5, <1>6 DEF Exclusive
  <2>2. QED
    BY <1>1, <1>8, <1>9, <2>1 DEF Exclusive
<1>11. Addressed'
  BY <1>1, <1>9 DEF Addressed, ColdIds
<1>12. Stamped'
  <2>1. d.id \notin SpawnIds /\ d.id \notin claimed
    BY <1>1 DEF Exclusive
  <2>2. \A i \in claimed' : Exists(i)'
    BY <1>3, <1>9, <2>1 DEF Stamped, TypeOK
  <2>3. \A x \in dels' : x.pc = "free" => x.member /\ ~Exists(x.id)'
    BY <1>2, <1>3, <1>5, <1>6, ReadyIds DEF Stamped
  <2>4. \A s \in spawns : s.id # d.id /\ s.id \in Ids
    BY <2>1, ReadyIds DEF SpawnIds
  <2>5. \A s \in spawns' : StampedBy(s)'
    BY <1>1, <1>3, <2>4 DEF Stamped, StampedBy
  <2>6. QED
    BY <2>2, <2>3, <2>5 DEF Stamped
<1>13. AccountsFor(Users', ip', held')
  BY <1>1, <1>9, Opening
<1>14. ASSUME NEW j \in Ids, Exists(j)' PROVE (ip'[j] = NoAddr \/ j \in Users') /\ Mine(j)'
  BY <1>1, <1>2, <1>3, <1>8, <1>9, <1>14, Opening DEF Mine
<1>15. QED
  BY <1>1, <1>10, <1>11, <1>12, <1>13, <1>14, Closing

\* The one call that frees the address of a member.
LEMMA HealthyFree ==
  ASSUME IInv, HInv, NEW d \in dels, FreeAddress(d)
  PROVE  HInv'
<1> USE DEF IInv, HInv
<1>1. /\ d.pc = "free" /\ d.id \in Ids /\ dels' = dels \ {d} /\ ReleaseAddr(ip[d.id])
      /\ UNCHANGED <<inst, fresh, ip, ready, claimed, warms, spawns, expired, restarts>>
  BY ReadyIds DEF FreeAddress, hostVars, poolVars
<1>2. held' = held \ {ip[d.id]}
  BY <1>1, ReleaseEffect
<1>3. d.member /\ ~Exists(d.id) /\ d.id \in DelIds /\ d.id \in FreeIds
  BY <1>1 DEF Stamped, DelIds, FreeIds
<1>4. FreeIds' = FreeIds \ {d.id} /\ DelIds' \subseteq DelIds /\ DelIds \subseteq DelIds' \cup {d.id}
  BY <1>1, <1>3 DEF FreeIds, DelIds, Exclusive
<1>5. WarmIds' = WarmIds /\ ReadySet' = ReadySet /\ SpawnIds' = SpawnIds /\ ClaimIds' = ClaimIds /\ claimed' = claimed
  BY <1>1 DEF WarmIds, ReadySet, SpawnIds, ClaimIds
<1>6. d.id \notin WarmIds \cup ReadySet \cup claimed \cup SpawnIds
  BY <1>3 DEF Exclusive, Later
<1>7. ClaimIds \subseteq SpawnIds
  BY DEF ClaimIds, SpawnIds
<1>8. Users' = Users \ {d.id} /\ d.id \in Users
  BY <1>3, <1>4, <1>5, <1>6, <1>7 DEF Users
<1>9. Exclusive' /\ Addressed' /\ Stamped'
  <2>1. Exclusive'
    BY <1>1, <1>4, <1>5 DEF Exclusive
  <2>2. Addressed'
    BY <1>1, <1>5 DEF Addressed, ColdIds
  <2>3. Stamped'
    BY <1>1 DEF Stamped, StampedBy, Exists
  <2>4. QED
    BY <2>1, <2>2, <2>3
<1>10. AccountsFor(Users', ip', held')
  BY <1>1, <1>2, <1>8, Opening, OneLess
<1>11. ASSUME NEW j \in Ids, Exists(j)' PROVE (ip'[j] = NoAddr \/ j \in Users') /\ Mine(j)'
  BY <1>1, <1>3, <1>4, <1>5, <1>8, <1>11, Opening DEF Exists, Mine
<1>12. QED
  BY <1>1, <1>9, <1>10, <1>11, Closing

---------------------------------------------------------------------------
(* Healthy warms, claims and ticks.                                        *)

\* A write to an instance that is still the pool's.
LEMMA PoolWrites ==
  ASSUME IInv, HInv, NEW i \in Young, Writes(i), UNCHANGED <<claimed, spawns, dels>>
  PROVE  /\ Stamped'
         /\ \A j \in Ids : j # i => (Exists(j)' <=> Exists(j)) /\ inst'[j] = inst[j]
<1> USE DEF IInv, HInv
<1>1. \A j \in Ids : j # i => (Exists(j)' <=> Exists(j)) /\ inst'[j] = inst[j]
  BY DEF Writes, Exists
<1>2. i \notin claimed \cup DelIds \cup SpawnIds
  BY YoungIsBlank
<1>3. \A s \in spawns : s.id # i /\ s.id \in Ids
  BY <1>2, ReadyIds DEF SpawnIds
<1>4. \A d \in dels : d.id # i /\ d.id \in Ids
  BY <1>2, ReadyIds DEF DelIds
<1>5. Stamped'
  BY <1>1, <1>2, <1>3, <1>4 DEF Stamped, StampedBy, TypeOK
<1>6. QED
  BY <1>1, <1>5

LEMMA OutsidePool ==
  ASSUME UNCHANGED <<claimed, spawns, dels>>
  PROVE  /\ SpawnIds' = SpawnIds /\ ClaimIds' = ClaimIds /\ ColdIds' = ColdIds
         /\ DelIds' = DelIds /\ FreeIds' = FreeIds
BY DEF SpawnIds, ClaimIds, ColdIds, DelIds, FreeIds

LEMMA HealthyWarmAllocate ==
  ASSUME IInv, HInv, WarmAllocate
  PROVE  HInv'
<1> USE DEF IInv, HInv
<1>1. UNCHANGED <<inst, ready, claimed, spawns, dels, expired, restarts>>
  BY DEF WarmAllocate, poolVars
<1>2. PICK i \in fresh, a \in Addrs :
        /\ Allocate(a) /\ fresh' = fresh \ {i} /\ ip' = [ip EXCEPT ![i] = a]
        /\ warms' = warms \cup {[id |-> i, pc |-> "create"]}
  BY DEF WarmAllocate
<1>3. PICK v : v = [id |-> i, pc |-> "create"]
  OBVIOUS
<1>4. v.id = i /\ warms' = warms \cup {v} /\ i \in Ids /\ i \in Young /\ a \in Int
  BY <1>2, <1>3 DEF TypeOK, Young, Addrs
<1>5. a \notin held /\ held' = held \cup {a}
  BY <1>2, AllocateEffect
<1>6. WarmIds' = WarmIds \cup {i} /\ ReadySet' = ReadySet /\ claimed' = claimed
  BY <1>1, <1>4 DEF WarmIds, ReadySet
<1>7. SpawnIds' = SpawnIds /\ ClaimIds' = ClaimIds /\ ColdIds' = ColdIds /\ DelIds' = DelIds /\ FreeIds' = FreeIds
  BY <1>1, OutsidePool
<1>8. ClaimIds \subseteq SpawnIds /\ FreeIds \subseteq DelIds
  BY DEF ClaimIds, SpawnIds, FreeIds, DelIds
<1>9. i \notin claimed \cup DelIds \cup SpawnIds \cup WarmIds \cup ReadySet
  BY <1>2 DEF Apart, Later
<1>10. Users' = Users \cup {i} /\ i \notin Users
  BY <1>6, <1>7, <1>8, <1>9 DEF Users
<1>11. ip \in [Ids -> Int] /\ Users \in SUBSET Ids /\ AccountsFor(Users, ip, held)
  BY Opening
<1>12. AccountsFor(Users', ip', held')
  <2>1. AccountsFor(Users \cup {i}, ip', held \cup {a})
    BY <1>2, <1>4, <1>5, <1>10, <1>11, OneMore
  <2>2. QED
    BY <2>1, <1>5, <1>10
<1>13. ip'[i] = a /\ \A j \in Ids : j # i => ip'[j] = ip[j]
  BY <1>2, <1>4, <1>11
<1>14. Exclusive' /\ Stamped'
  BY <1>1, <1>7 DEF Exclusive, Stamped, StampedBy, Exists
<1>15. Addressed'
  <2>1. ColdIds \subseteq SpawnIds /\ SpawnIds \subseteq Ids /\ fresh \subseteq Ids
    BY ReadyIds DEF ColdIds, TypeOK
  <2>2. QED
    BY <2>1, <1>2, <1>7, <1>9, <1>13 DEF Addressed
<1>16. ASSUME NEW j \in Ids, Exists(j)' PROVE (ip'[j] = NoAddr \/ j \in Users') /\ Mine(j)'
  <2>1. Exists(j) /\ inst'[j] = inst[j]
    BY <1>1, <1>16 DEF Exists
  <2>2. QED
    BY <2>1, <1>6, <1>7, <1>10, <1>13, Opening DEF Mine
<1>17. QED
  BY <1>1, <1>12, <1>14, <1>15, <1>16, Closing

\* A warmOne goes on.
LEMMA HealthyWarmMoves ==
  ASSUME IInv, HInv, NEW w \in warms, NEW p \in {"start", "unwind"},
         warms' = (warms \ {w}) \cup {[w EXCEPT !.pc = p]}, Writes(w.id),
         UNCHANGED <<fresh, ip, held, ready, claimed, spawns, dels, expired, restarts>>
  PROVE  HInv'
<1> USE DEF IInv, HInv
<1>1. w.id \in Ids /\ w.id \in WarmIds /\ w.id \in Young
  BY ReadyIds DEF WarmIds, Young
<1>2. WarmIds' = WarmIds
  BY WarmMoves
<1>3. SpawnIds' = SpawnIds /\ ClaimIds' = ClaimIds /\ ColdIds' = ColdIds /\ DelIds' = DelIds /\ FreeIds' = FreeIds
  BY OutsidePool
<1>4. ReadySet' = ReadySet /\ claimed' = claimed /\ Users' = Users
  BY <1>2, <1>3 DEF ReadySet, Users
<1>5. Stamped' /\ \A j \in Ids : j # w.id => (Exists(j)' <=> Exists(j)) /\ inst'[j] = inst[j]
  BY <1>1, PoolWrites
<1>6. Exclusive' /\ Addressed'
  BY <1>3, <1>4 DEF Exclusive, Addressed
<1>7. AccountsFor(Users', ip', held')
  BY <1>4, Opening
<1>8. ASSUME NEW j \in Ids, Exists(j)' PROVE (ip'[j] = NoAddr \/ j \in Users') /\ Mine(j)'
  <2>1. CASE j = w.id
    BY <2>1, <1>1, <1>2, <1>4 DEF Users, Mine
  <2>2. CASE j # w.id
    BY <2>2, <1>2, <1>3, <1>4, <1>5, <1>8, Opening DEF Mine
  <2>3. QED
    BY <2>1, <2>2
<1>9. QED
  BY <1>5, <1>6, <1>7, <1>8, Closing

\* A warmOne gives up, with nothing left on the host, and frees the address.
LEMMA HealthyWarmFails ==
  ASSUME IInv, HInv, NEW w \in warms, warms' = warms \ {w}, ReleaseAddr(ip[w.id]),
         Writes(w.id), ~Exists(w.id)',
         UNCHANGED <<fresh, ip, ready, claimed, spawns, dels, expired, restarts>>
  PROVE  HInv'
<1> USE DEF IInv, HInv
<1>1. w.id \in Ids /\ w.id \in WarmIds /\ w.id \in Young
  BY ReadyIds DEF WarmIds, Young
<1>2. WarmIds' = WarmIds \ {w.id}
  BY WarmGone
<1>3. SpawnIds' = SpawnIds /\ ClaimIds' = ClaimIds /\ ColdIds' = ColdIds /\ DelIds' = DelIds /\ FreeIds' = FreeIds
  BY OutsidePool
<1>4. ReadySet' = ReadySet /\ claimed' = claimed
  BY DEF ReadySet
<1>5. ClaimIds \subseteq SpawnIds /\ FreeIds \subseteq DelIds
  BY DEF ClaimIds, SpawnIds, FreeIds, DelIds
<1>6. w.id \notin claimed \cup DelIds \cup SpawnIds \cup ReadySet
  BY <1>1 DEF Apart, Later
<1>7. Users' = Users \ {w.id} /\ w.id \in Users
  BY <1>1, <1>2, <1>3, <1>4, <1>5, <1>6 DEF Users
<1>8. Stamped' /\ \A j \in Ids : j # w.id => (Exists(j)' <=> Exists(j)) /\ inst'[j] = inst[j]
  BY <1>1, PoolWrites
<1>9. Exclusive' /\ Addressed'
  BY <1>3, <1>4 DEF Exclusive, Addressed
<1>10. AccountsFor(Users', ip', held')
  <2>1. held' = held \ {ip[w.id]}
    BY ReleaseEffect
  <2>2. QED
    BY <2>1, <1>7, Opening, OneLess
<1>11. ASSUME NEW j \in Ids, Exists(j)' PROVE (ip'[j] = NoAddr \/ j \in Users') /\ Mine(j)'
  BY <1>2, <1>3, <1>4, <1>7, <1>8, <1>11, Opening DEF Mine
<1>12. QED
  BY <1>8, <1>9, <1>10, <1>11, Closing

\* A member joins the ring.
LEMMA HealthyWarmDone ==
  ASSUME IInv, HInv, NEW w \in warms, warms' = warms \ {w}, ready' = ready \o <<w.id>>, Writes(w.id),
         UNCHANGED <<fresh, ip, held, claimed, spawns, dels, expired, restarts>>
  PROVE  HInv'
<1> USE DEF IInv, HInv
<1>1. w.id \in Ids /\ w.id \in WarmIds /\ w.id \in Young
  BY ReadyIds DEF WarmIds, Young
<1>2. WarmIds' = WarmIds \ {w.id} /\ ReadySet' = ReadySet \cup {w.id}
  BY <1>1, WarmGone, RingAppend
<1>3. SpawnIds' = SpawnIds /\ ClaimIds' = ClaimIds /\ ColdIds' = ColdIds /\ DelIds' = DelIds /\ FreeIds' = FreeIds
  BY OutsidePool
<1>4. Users' = Users
  BY <1>1, <1>2, <1>3 DEF Users
<1>5. Stamped' /\ \A j \in Ids : j # w.id => (Exists(j)' <=> Exists(j)) /\ inst'[j] = inst[j]
  BY <1>1, PoolWrites
<1>6. Exclusive' /\ Addressed'
  BY <1>3 DEF Exclusive, Addressed
<1>7. AccountsFor(Users', ip', held')
  BY <1>4, Opening
<1>8. ASSUME NEW j \in Ids, Exists(j)' PROVE (ip'[j] = NoAddr \/ j \in Users') /\ Mine(j)'
  <2>1. CASE j = w.id
    BY <2>1, <1>1, <1>2, <1>4 DEF Users, Mine
  <2>2. CASE j # w.id
    BY <2>2, <1>2, <1>3, <1>4, <1>5, <1>8, Opening DEF Mine
  <2>3. QED
    BY <2>1, <2>2
<1>9. QED
  BY <1>5, <1>6, <1>7, <1>8, Closing

LEMMA HealthyWarmSteps ==
  ASSUME Healthy, IInv, HInv, NEW w \in warms, WarmStep(w)
  PROVE  HInv'
<1> USE DEF IInv, HInv
<1>1. w.id \in Ids
  BY ReadyIds
<1>2. UNCHANGED <<fresh, ip, claimed, spawns, dels, expired, restarts>>
  BY DEF WarmStep, WarmCreate, WarmStart, WarmUnwind
<1>3. CASE WarmCreate(w)
  <2>1. CASE /\ inst' = [inst EXCEPT ![w.id].up = "stopped"]
             /\ warms' = (warms \ {w}) \cup {[w EXCEPT !.pc = "start"]}
             /\ UNCHANGED <<ipamVars, poolVars, faults>>
    <3>1. Writes(w.id)
      BY <1>1, <2>1, WriteUp
    <3>2. QED
      BY <1>2, <2>1, <3>1, HealthyWarmMoves DEF ipamVars, poolVars
  <2>2. CASE ReleaseAddr(ip[w.id]) /\ WarmEnds(w, <<>>) /\ UNCHANGED inst
    <3>1. ready' = ready /\ warms' = warms \ {w}
      BY <2>2, RingSame DEF WarmEnds
    <3>2. Writes(w.id) /\ ~Exists(w.id)'
      BY <1>3, <2>2, NothingWritten DEF WarmCreate, Unowned, Exists
    <3>3. QED
      BY <1>2, <2>2, <3>1, <3>2, HealthyWarmFails
  <2>3. QED
    BY <1>3, <2>1, <2>2 DEF WarmCreate
<1>4. CASE WarmStart(w)
  <2>1. CASE inst' = [inst EXCEPT ![w.id].up = "running"] /\ WarmEnds(w, <<w.id>>)
    <3>1. Writes(w.id) /\ UNCHANGED held
      BY <1>1, <1>4, <2>1, WriteUp DEF WarmStart, ipamVars
    <3>2. QED
      BY <1>2, <2>1, <3>1, HealthyWarmDone DEF WarmEnds
  <2>2. CASE warms' = (warms \ {w}) \cup {[w EXCEPT !.pc = "unwind"]} /\ UNCHANGED <<inst, poolVars>>
    <3>1. Writes(w.id) /\ UNCHANGED <<held, ready>>
      BY <1>4, <2>2, NothingWritten DEF WarmStart, ipamVars, poolVars
    <3>2. QED
      BY <1>2, <2>2, <3>1, HealthyWarmMoves
  <2>3. QED
    BY <1>4, <2>1, <2>2 DEF WarmStart
<1>5. CASE WarmUnwind(w)
  <2>1. IncusDelete(w.id) /\ ReleaseAddr(ip[w.id]) /\ WarmEnds(w, <<>>)
    BY <1>5 DEF WarmUnwind
  <2>2. ready' = ready /\ warms' = warms \ {w}
    BY <2>1, RingSame DEF WarmEnds
  <2>3. Writes(w.id) /\ ~Exists(w.id)'
    BY <1>1, <2>1, DeleteEffect, AbsentTyped DEF Healthy, Exists
  <2>4. QED
    BY <1>2, <2>1, <2>2, <2>3, HealthyWarmFails
<1>6. QED
  BY <1>3, <1>4, <1>5 DEF WarmStep

\* A member leaves the ring for a spawn; its address goes with it.
LEMMA HealthyClaim ==
  ASSUME IInv, HInv, NEW t \in Tenants, Claim(t)
  PROVE  HInv'
<1> USE DEF IInv, HInv
<1>1. /\ ready # <<>> /\ ready' = Tail(ready)
      /\ spawns' = spawns \cup {[who |-> t, id |-> Head(ready), pc |-> "tenant"]}
      /\ UNCHANGED <<inst, fresh, ip, held, claimed, warms, dels, expired, restarts>>
  BY DEF Claim, hostVars, ipamVars
<1>2. PICK i : i = Head(ready)
  OBVIOUS
<1>3. i \in ReadySet /\ i \in Ids /\ ReadySet' \subseteq ReadySet /\ ReadySet \subseteq ReadySet' \cup {i}
  BY <1>1, <1>2, RingTail
<1>4. i \notin SpawnIds /\ i \notin claimed \cup expired \cup DelIds /\ i \notin fresh
  BY <1>3 DEF Apart, Later
<1>5. Blank(i) /\ inst[i].up = "running"
  BY <1>3 DEF Unowned
<1>6. PICK v \in Spawn : v.id = i /\ v.who = t /\ v.pc = "tenant" /\ spawns' = spawns \cup {v}
  BY <1>1, <1>2, <1>3, <1>4, NewSpawn
<1>7. SpawnIds' = SpawnIds \cup {i} /\ ClaimIds' = ClaimIds \cup {i}
  BY <1>6 DEF SpawnIds, ClaimIds, ClaimPcs
<1>8. WarmIds' = WarmIds /\ DelIds' = DelIds /\ FreeIds' = FreeIds /\ claimed' = claimed
  BY <1>1 DEF WarmIds, DelIds, FreeIds
<1>9. Users' = Users
  BY <1>3, <1>7, <1>8 DEF Users
<1>10. Exclusive' /\ Addressed'
  BY <1>1, <1>4, <1>7, <1>8 DEF Exclusive, Addressed, ColdIds
<1>11. Stamped'
  BY <1>1, <1>5, <1>6 DEF Stamped, StampedBy, Exists, Blank
<1>12. AccountsFor(Users', ip', held')
  BY <1>1, <1>9, Opening
<1>13. ASSUME NEW j \in Ids, Exists(j)' PROVE (ip'[j] = NoAddr \/ j \in Users') /\ Mine(j)'
  BY <1>1, <1>3, <1>7, <1>8, <1>9, <1>13, Opening DEF Exists, Mine
<1>14. QED
  BY <1>1, <1>10, <1>11, <1>12, <1>13, Closing

LEMMA HealthyColdSpawn ==
  ASSUME IInv, HInv, NEW t \in Tenants, ColdSpawn(t)
  PROVE  HInv'
<1> USE DEF IInv, HInv
<1>1. UNCHANGED <<inst, ip, held, ready, claimed, warms, dels, expired, restarts>>
  BY DEF ColdSpawn, ipamVars, poolVars
<1>2. PICK i \in fresh : fresh' = fresh \ {i} /\ spawns' = spawns \cup {[who |-> t, id |-> i, pc |-> "cold_create"]}
  BY DEF ColdSpawn
<1>3. i \in Ids /\ i \notin SpawnIds /\ i \notin claimed \cup expired \cup DelIds
  BY <1>2 DEF TypeOK, Apart, Later
<1>4. PICK v \in Spawn : v.id = i /\ v.who = t /\ v.pc = "cold_create" /\ spawns' = spawns \cup {v}
  BY <1>2, <1>3, NewSpawn
<1>5. SpawnIds' = SpawnIds \cup {i} /\ ClaimIds' = ClaimIds
  BY <1>4 DEF SpawnIds, ClaimIds, ClaimPcs
<1>6. /\ WarmIds' = WarmIds /\ ReadySet' = ReadySet /\ DelIds' = DelIds /\ FreeIds' = FreeIds
      /\ claimed' = claimed /\ Users' = Users
  BY <1>1, <1>5 DEF WarmIds, ReadySet, DelIds, FreeIds, Users
<1>7. Exclusive'
  BY <1>1, <1>3, <1>5, <1>6 DEF Exclusive
<1>8. Addressed'
  BY <1>1, <1>2, <1>5 DEF Addressed, ColdIds
<1>9. Stamped'
  <2>1. ~Exists(i)
    BY <1>2 DEF Unowned
  <2>2. QED
    BY <1>1, <1>4, <2>1 DEF Stamped, StampedBy, Exists
<1>10. AccountsFor(Users', ip', held')
  BY <1>1, <1>6, Opening
<1>11. ASSUME NEW j \in Ids, Exists(j)' PROVE (ip'[j] = NoAddr \/ j \in Users') /\ Mine(j)'
  BY <1>1, <1>5, <1>6, <1>11, Opening DEF Exists, Mine
<1>12. QED
  BY <1>1, <1>7, <1>8, <1>9, <1>10, <1>11, Closing

\* TTLs run while no spawn is under way.
LEMMA HealthyClock ==
  ASSUME Healthy, IInv, HInv, Clock
  PROVE  HInv'
<1> USE DEF IInv, HInv
<1>1. /\ spawns = {}
      /\ UNCHANGED <<fresh, ip, held, ready, claimed, warms, spawns, dels, expired, restarts>>
  BY DEF Clock, Healthy, poolVars
<1>2. \A i \in Ids : /\ inst'[i].up = inst[i].up /\ inst'[i].label = inst[i].label
                     /\ inst[i].ttl = NoTtl <=> inst'[i].ttl = NoTtl
  BY ClockEffect
<1>3. \A i \in Ids : Exists(i)' <=> Exists(i)
  BY <1>2 DEF Exists
<1>4. SpawnIds' = SpawnIds /\ ClaimIds' = ClaimIds /\ ColdIds' = ColdIds /\ DelIds' = DelIds /\ FreeIds' = FreeIds
  BY <1>1, OutsidePool
<1>5. WarmIds' = WarmIds /\ ReadySet' = ReadySet /\ claimed' = claimed /\ Users' = Users
  BY <1>1, <1>4 DEF WarmIds, ReadySet, Users
<1>6. Exclusive' /\ Addressed'
  BY <1>1, <1>4 DEF Exclusive, Addressed
<1>7. Stamped'
  BY <1>1, <1>3, ReadyIds DEF Stamped, TypeOK
<1>8. AccountsFor(Users', ip', held')
  BY <1>1, <1>5, Opening
<1>9. ASSUME NEW j \in Ids, Exists(j)' PROVE (ip'[j] = NoAddr \/ j \in Users') /\ Mine(j)'
  BY <1>1, <1>2, <1>3, <1>4, <1>5, <1>9, Opening DEF Mine
<1>10. QED
  BY <1>1, <1>6, <1>7, <1>8, <1>9, Closing

---------------------------------------------------------------------------
(* Theorems that hold while Incus and the daemon are healthy.              *)

LEMMA HInvInit ==
  ASSUME Init
  PROVE  HInv
<1> USE DEF Init
<1>1. ReadySet = {} /\ WarmIds = {} /\ SpawnIds = {} /\ ClaimIds = {} /\ ColdIds = {} /\ DelIds = {} /\ FreeIds = {}
  BY DEF ReadySet, WarmIds, SpawnIds, ClaimIds, ColdIds, DelIds, FreeIds
<1>2. Holders = {}
  BY <1>1 DEF Holders, WarmIds
<1>3. \A i \in Ids : ~Exists(i)
  BY AbsentTyped DEF Exists
<1>4. QED
  BY <1>1, <1>2, <1>3
     DEF HInv, Exclusive, Addressed, Stamped, Held, AddressesAccounted, NoOrphans

LEMMA HInvNext ==
  ASSUME Healthy, IInv, HInv, [Next]_vars
  PROVE  HInv'
<1>1. CASE Reconcile \/ WarmExhausted
  BY <1>1, HealthyBookkeeping DEF Reconcile, WarmExhausted, hostVars, ipamVars
<1>2. CASE WarmAllocate
  BY <1>2, HealthyWarmAllocate
<1>3. ASSUME NEW w \in warms, WarmStep(w) PROVE HInv'
  BY <1>3, HealthyWarmSteps
<1>4. ASSUME NEW t \in Tenants, Claim(t) \/ ColdSpawn(t) PROVE HInv'
  BY <1>4, HealthyClaim, HealthyColdSpawn
<1>5. ASSUME NEW s \in spawns, SpawnStep(s) PROVE HInv'
  BY <1>5, HealthySpawnSteps
<1>6. ASSUME NEW t \in Tenants, NEW i \in Ids, DeleteSandbox(t, i) PROVE HInv'
  <2>1. /\ t \in granted[i] /\ StartDelete(i, "user") /\ expired' \subseteq expired
        /\ UNCHANGED <<inst, fresh, ip, held, ready, warms, spawns, restarts>>
    BY <1>6 DEF DeleteSandbox, hostVars, ipamVars, poolVars
  <2>2. i \notin SpawnIds
    BY <2>1 DEF IInv, Spawning, Proceeds, SpawnIds
  <2>3. QED
    BY <2>1, <2>2, HealthyDeleteStarts
<1>7. CASE SweepList
  BY <1>7, HealthySweepList
<1>8. ASSUME NEW i \in Ids, SweepDelete(i) PROVE HInv'
  <2>1. /\ i \in expired /\ StartDelete(i, "sweeper") /\ expired' \subseteq expired
        /\ UNCHANGED <<inst, fresh, ip, held, ready, warms, spawns, restarts>>
    BY <1>8 DEF SweepDelete, hostVars, ipamVars, poolVars
  <2>2. i \notin SpawnIds
    BY <2>1 DEF HInv, Exclusive
  <2>3. QED
    BY <2>1, <2>2, HealthyDeleteStarts
<1>9. ASSUME NEW d \in dels, DelStep(d) PROVE HInv'
  BY <1>9, HealthyDestroy, HealthyFree DEF DelStep
<1>10. CASE Clock
  BY <1>10, HealthyClock
<1>11. CASE Restart
  BY <1>11 DEF Restart, Healthy, HInv
<1>12. CASE UNCHANGED vars
  BY <1>12, HealthyBookkeeping DEF vars, hostVars, ipamVars, poolVars
<1>13. QED
  BY <1>1, <1>2, <1>3, <1>4, <1>5, <1>6, <1>7, <1>8, <1>9, <1>10, <1>11, <1>12 DEF Next

LEMMA HInvAlways ==
  ASSUME Healthy
  PROVE  Spec => []HInv
<1>1. Init => HInv
  BY HInvInit
<1>2. IInv /\ HInv /\ [Next]_vars => HInv'
  BY HInvNext
<1>3. QED
  BY <1>1, <1>2, IInvAlways, PTL DEF Spec

\* The allocator holds exactly the addresses of the members the daemon still
\* knows, one each: none leaks, and none is freed twice when a claim that
\* fails (claimFromPool), DeleteSandbox and the sweeper meet on one member
\* (untrackClaimed).  While deletes succeed, claims are faster than the TTL
\* and the daemon runs.
THEOREM AddressesAreAccounted ==
  ASSUME ~DeleteFails, ~SlowClaims, MaxRestarts = 0
  PROVE  Spec => []AddressesAccounted
<1>1. Spec => []HInv
  BY HInvAlways DEF Healthy
<1>2. HInv => AddressesAccounted
  BY DEF HInv
<1>3. QED
  BY <1>1, <1>2, PTL

\* No two instances on the bridge have the same address: an address is given
\* again (Allocator.Allocate) only when the instance that had it is gone,
\* because warmOne and destroy free it after they delete.  Same conditions.
THEOREM AddressesAreUnique ==
  ASSUME ~DeleteFails, ~SlowClaims, MaxRestarts = 0
  PROVE  Spec => []UniqueAddresses
<1>1. Spec => []HInv
  BY HInvAlways DEF Healthy
<1>2. HInv => UniqueAddresses
  BY DEF HInv, Held, AddressesAccounted, UniqueAddresses
<1>3. QED
  BY <1>1, <1>2, PTL

\* No instance is forgotten: a goroutine has it, the ring has it, or it is
\* labelled and has a TTL, so that the sweeper finds it, although any Incus
\* call but a delete may fail half way through warmOne or SpawnSandbox.  Same
\* conditions.
THEOREM NothingIsOrphaned ==
  ASSUME ~DeleteFails, ~SlowClaims, MaxRestarts = 0
  PROVE  Spec => []NoOrphans
<1>1. Spec => []HInv
  BY HInvAlways DEF Healthy
<1>2. HInv => NoOrphans
  BY DEF HInv
<1>3. QED
  BY <1>1, <1>2, PTL

=============================================================================
