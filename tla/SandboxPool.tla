---------------------------- MODULE SandboxPool ----------------------------
(***************************************************************************)
(* Ephemeral sandboxes: the address allocator (internal/sandbox/ipam), the *)
(* warm pool (internal/sandbox/pool), the spawn and delete handlers        *)
(* (internal/server/sandbox_server.go) and the TTL sweeper's pass over     *)
(* sandboxes (sandbox_ttlsweeper_adapter.go), over one Incus host.         *)
(*                                                                         *)
(* Every goroutine that owns an instance for a while is a record: warms    *)
(* are warmOne calls, spawns are SpawnSandbox calls, dels are calls of a   *)
(* destroy function.  One Incus call is one step.  A time is what is left  *)
(* of a quarantine or of a TTL (with the sweeper's grace margin).  The     *)
(* reconciler's trim is left out: the floor never changes, so the ring     *)
(* never exceeds it (WithinFloor).                                         *)
(***************************************************************************)
EXTENDS Integers, Sequences, FiniteSets

CONSTANTS Ids,         \* the supply of random sandbox ids
          Tenants,     \* each has at most one SpawnSandbox call in progress
          NoTenant,
          Size,        \* addresses 0..Size-1 are the IPAM range
          Quarantine,  \* ticks a released address rests
          MinWarm,     \* the floor of ready + warming members
          Ttl,         \* ticks from spawn to the sweep
          DeleteFails, \* Incus may fail to delete an instance
          SlowClaims,  \* a claim's Incus calls may outlast the TTL
          MaxFaults,   \* bound on failed Incus calls
          MaxRestarts

ASSUME PoolAssumption ==
  /\ NoTenant \notin Tenants
  /\ Size \in Nat \ {0} /\ Quarantine \in Nat /\ MinWarm \in Nat /\ Ttl \in Nat \ {0}
  /\ DeleteFails \in BOOLEAN /\ SlowClaims \in BOOLEAN
  /\ MaxFaults \in Nat /\ MaxRestarts \in Nat

VARIABLES inst,      \* Incus: the instances
          fresh,     \* ids not drawn yet
          ip,        \* the address a member was given, NoAddr for a cold sandbox
          held, resting, cursor,     \* ipam.Allocator
          ready, warming,            \* pool.Pool
          claimed,                   \* SandboxServer.claimed
          warms, spawns, dels,       \* goroutines
          granted,   \* the tenants an id was returned to
          expired,   \* what the sweeper's tick still has to delete
          faults, restarts

ipamVars == <<held, resting, cursor>>
poolVars == <<ready, warming>>
hostVars == <<inst, fresh, ip>>
vars == <<hostVars, ipamVars, poolVars, claimed, warms, spawns, dels,
          granted, expired, faults, restarts>>

Addrs  == 0 .. Size - 1
NoAddr == -1
NoTtl  == -1

Warm  == [id : Ids, pc : {"create", "start", "unwind"}]
Spawn == [who : Tenants, id : Ids,
          pc : {"tenant", "ttl", "labels", "track",
                "cold_create", "cold_start", "cold_unwind", "cold_network"}]
Del   == [id : Ids, by : {"claim", "spawn", "user", "sweeper"},
          member : BOOLEAN, pc : {"delete", "free"}]

Absent == [up |-> "none", tenant |-> NoTenant, label |-> FALSE, ttl |-> NoTtl]
Exists(i) == inst[i].up # "none"

\* Addresses lie in the range, counters within their bounds, and each
\* goroutine is at one of its steps.
TypeOK ==
  /\ inst \in [Ids -> [up : {"none", "stopped", "running"}, tenant : Tenants \cup {NoTenant},
                       label : BOOLEAN, ttl : {NoTtl} \cup 0..Ttl]]
  /\ fresh \subseteq Ids
  /\ ip \in [Ids -> Addrs \cup {NoAddr}]
  /\ held \subseteq Addrs /\ resting \in [Addrs -> 0..Quarantine] /\ cursor \in 0..Size
  /\ ready \in Seq(Ids) /\ warming \in 0..MinWarm
  /\ claimed \subseteq Ids
  /\ warms \subseteq Warm /\ spawns \subseteq Spawn /\ dels \subseteq Del
  /\ granted \in [Ids -> SUBSET Tenants]
  /\ expired \subseteq Ids
  /\ faults \in 0..MaxFaults /\ restarts \in 0..MaxRestarts

Init ==
  /\ inst = [i \in Ids |-> Absent]
  /\ fresh = Ids
  /\ ip = [i \in Ids |-> NoAddr]
  /\ held = {} /\ resting = [a \in Addrs |-> 0] /\ cursor = 0
  /\ ready = <<>> /\ warming = 0
  /\ claimed = {}
  /\ warms = {} /\ spawns = {} /\ dels = {}
  /\ expired = {}
  /\ granted = [i \in Ids |-> {}]
  /\ faults = 0 /\ restarts = 0

\* An Incus call on instance i fails: because i is gone, or as a fault.
Fault == faults < MaxFaults /\ faults' = faults + 1
Fails(i) == IF Exists(i) THEN Fault ELSE UNCHANGED faults

----------------------------------------------------------------------------
(* ipam.Allocator *)

IsFree_Rested(a) == resting[a] = 0
IsFree(a) == a \notin held /\ resting[a] = 0

\* The candidate i places after the cursor, wrapping at the end of the range.
Candidate(i) == (cursor + i) % Size

\* The first free address from the cursor on.
Allocates(a) ==
  \E i \in Addrs : /\ a = Candidate(i) /\ IsFree(a)
                   /\ \A j \in 0 .. i - 1 : ~IsFree(Candidate(j))

Allocate(a) ==
  /\ Allocates(a)
  /\ held' = held \cup {a}
  /\ resting' = [resting EXCEPT ![a] = 0]
  /\ cursor' = a + 1

\* Release of an address that is not held is an error every caller ignores.
ReleaseAddr(a) ==
  IF a \in held
  THEN held' = held \ {a} /\ resting' = [resting EXCEPT ![a] = Quarantine] /\ UNCHANGED cursor
  ELSE UNCHANGED ipamVars

----------------------------------------------------------------------------
(* The reconciler *)

\* Reconcile waits for the warms it starts, so one pass runs at a time.
Reconcile ==
  /\ warming = 0 /\ warms = {}
  /\ Len(ready) + warming < MinWarm
  /\ warming' = warming + (MinWarm - (Len(ready) + warming))
  /\ UNCHANGED <<hostVars, ipamVars, ready, claimed, warms, spawns, dels, granted, expired, faults, restarts>>

\* A warmOne ends: its count goes and, on success, the member joins the
\* ring, in one critical section.
WarmEnds(w, members) ==
  /\ warms' = warms \ {w}
  /\ ready' = ready \o members
  /\ warming' = warming - 1

\* Every address is held or resting: the warm gives up, the next pass retries.
WarmExhausted ==
  /\ Cardinality(warms) < warming
  /\ \A a \in Addrs : ~IsFree(a)
  /\ warming' = warming - 1
  /\ UNCHANGED <<hostVars, ipamVars, ready, claimed, warms, spawns, dels, granted, expired, faults, restarts>>

WarmAllocate ==
  /\ Cardinality(warms) < warming
  /\ \E i \in fresh, a \in Addrs :
       /\ Allocate(a)
       /\ fresh' = fresh \ {i}
       /\ ip' = [ip EXCEPT ![i] = a]
       /\ warms' = warms \cup {[id |-> i, pc |-> "create"]}
  /\ UNCHANGED <<inst, poolVars, claimed, spawns, dels, granted, expired, faults, restarts>>

WarmCreate(w) ==
  /\ w.pc = "create"
  /\ \/ /\ inst' = [inst EXCEPT ![w.id].up = "stopped"]
        /\ warms' = (warms \ {w}) \cup {[w EXCEPT !.pc = "start"]}
        /\ UNCHANGED <<ipamVars, poolVars, faults>>
     \/ Fault /\ ReleaseAddr(ip[w.id]) /\ WarmEnds(w, <<>>) /\ UNCHANGED inst
  /\ UNCHANGED <<fresh, ip, claimed, spawns, dels, granted, expired, restarts>>

WarmStart(w) ==
  /\ w.pc = "start"
  /\ \/ /\ inst' = [inst EXCEPT ![w.id].up = "running"]
        /\ WarmEnds(w, <<w.id>>)
        /\ UNCHANGED faults
     \/ /\ Fault
        /\ warms' = (warms \ {w}) \cup {[w EXCEPT !.pc = "unwind"]}
        /\ UNCHANGED <<inst, poolVars>>
  /\ UNCHANGED <<fresh, ip, ipamVars, claimed, spawns, dels, granted, expired, restarts>>

\* DeleteContainer: it removes the instance or fails and leaves it.  That
\* deleting what is gone returns an error changes nothing here.
IncusDelete(i) ==
  \/ inst' = [inst EXCEPT ![i] = Absent] /\ UNCHANGED faults
  \/ DeleteFails /\ Exists(i) /\ Fault /\ UNCHANGED inst

\* The rollback of a failed start ignores the outcome of the delete.
WarmUnwind(w) ==
  /\ w.pc = "unwind"
  /\ IncusDelete(w.id)
  /\ ReleaseAddr(ip[w.id])
  /\ WarmEnds(w, <<>>)
  /\ UNCHANGED <<fresh, ip, claimed, spawns, dels, granted, expired, restarts>>

----------------------------------------------------------------------------
(* SpawnSandbox *)

Calling(t) == \E s \in spawns : s.who = t
GoesTo(s, pc) == spawns' = (spawns \ {s}) \cup {[s EXCEPT !.pc = pc]}
Answered(s) ==
  /\ spawns' = spawns \ {s}
  /\ granted' = [granted EXCEPT ![s.id] = @ \cup {s.who}]

\* A warm member leaves the ring for good.
Claim_Peek(t) ==
  /\ ~Calling(t) /\ ready # <<>>
  /\ spawns' = spawns \cup {[who |-> t, id |-> Head(ready), pc |-> "tenant"]}
  /\ UNCHANGED <<hostVars, ipamVars, poolVars, claimed, warms, dels, granted, expired, faults, restarts>>
Claim(t) ==
  /\ ~Calling(t) /\ ready # <<>>
  /\ spawns' = spawns \cup {[who |-> t, id |-> Head(ready), pc |-> "tenant"]}
  /\ ready' = Tail(ready)
  /\ UNCHANGED <<hostVars, ipamVars, warming, claimed, warms, dels, granted, expired, faults, restarts>>

\* A claim step fails: the member is destroyed by pool.Release.
FailedClaim_Leaks(s) == Fails(s.id) /\ spawns' = spawns \ {s} /\ UNCHANGED dels
FailedClaim(s) ==
  /\ Fails(s.id)
  /\ spawns' = spawns \ {s}
  /\ dels' = dels \cup {[id |-> s.id, by |-> "claim", member |-> TRUE, pc |-> "delete"]}

\* SetConfig(tenant), SetConfig(ttl), SetLabels: each needs the instance.
Stamp(s, at, change, next) ==
  /\ s.pc = at
  /\ \/ Exists(s.id) /\ inst' = change /\ GoesTo(s, next) /\ UNCHANGED <<dels, faults>>
     \/ FailedClaim(s) /\ UNCHANGED inst
  /\ UNCHANGED <<fresh, ip, ipamVars, poolVars, claimed, warms, granted, expired, restarts>>

ClaimTenant(s) == Stamp(s, "tenant", [inst EXCEPT ![s.id].tenant = s.who], "ttl")
ClaimTtl(s)    == Stamp(s, "ttl", [inst EXCEPT ![s.id].ttl = Ttl], "labels")
ClaimLabels(s) == Stamp(s, "labels", [inst EXCEPT ![s.id].label = TRUE], "track")

\* trackClaimed, then the answer.
TrackClaimed(s) ==
  /\ s.pc = "track"
  /\ claimed' = claimed \cup {s.id}
  /\ Answered(s)
  /\ UNCHANGED <<hostVars, ipamVars, poolVars, warms, dels, expired, faults, restarts>>

\* The ring is empty and the caller allows a cold start (a caller that does
\* not is refused and nothing changes).
ColdSpawn(t) ==
  /\ ~Calling(t) /\ ready = <<>>
  /\ \E i \in fresh :
       /\ fresh' = fresh \ {i}
       /\ spawns' = spawns \cup {[who |-> t, id |-> i, pc |-> "cold_create"]}
  /\ UNCHANGED <<inst, ip, ipamVars, poolVars, claimed, warms, dels, granted, expired, faults, restarts>>

\* The instance is created with its tenant, TTL and label.
ColdCreate(s) ==
  /\ s.pc = "cold_create"
  /\ \/ /\ inst' = [inst EXCEPT ![s.id] = [up |-> "stopped", tenant |-> s.who, label |-> TRUE, ttl |-> Ttl]]
        /\ GoesTo(s, "cold_start") /\ UNCHANGED faults
     \/ Fault /\ spawns' = spawns \ {s} /\ UNCHANGED inst
  /\ UNCHANGED <<fresh, ip, ipamVars, poolVars, claimed, warms, dels, granted, expired, restarts>>

ColdStart(s) ==
  /\ s.pc = "cold_start"
  /\ \/ /\ Exists(s.id)
        /\ inst' = [inst EXCEPT ![s.id].up = "running"]
        /\ GoesTo(s, "cold_network") /\ UNCHANGED faults
     \/ Fails(s.id) /\ GoesTo(s, "cold_unwind") /\ UNCHANGED inst
  /\ UNCHANGED <<fresh, ip, ipamVars, poolVars, claimed, warms, dels, granted, expired, restarts>>

ColdUnwind(s) ==
  /\ s.pc = "cold_unwind"
  /\ IncusDelete(s.id)
  /\ spawns' = spawns \ {s}
  /\ UNCHANGED <<fresh, ip, ipamVars, poolVars, claimed, warms, dels, granted, expired, restarts>>

ColdNetwork(s) ==
  /\ s.pc = "cold_network"
  /\ \/ Exists(s.id) /\ Answered(s) /\ UNCHANGED <<dels, faults>>
     \/ /\ Fails(s.id) /\ spawns' = spawns \ {s} /\ UNCHANGED granted
        /\ dels' = dels \cup {[id |-> s.id, by |-> "spawn", member |-> FALSE, pc |-> "delete"]}
  /\ UNCHANGED <<hostVars, ipamVars, poolVars, claimed, warms, expired, restarts>>

----------------------------------------------------------------------------
(* DeleteSandbox and the TTL sweeper *)

\* untrackClaimed decides, once per member, who frees its address.
StartDelete_StaysTracked(i, who) ==
  /\ dels' = dels \cup {[id |-> i, by |-> who, member |-> i \in claimed, pc |-> "delete"]}
  /\ UNCHANGED claimed
StartDelete_NoRelease(i, who) ==
  /\ dels' = dels \cup {[id |-> i, by |-> who, member |-> FALSE, pc |-> "delete"]}
  /\ claimed' = claimed \ {i}
StartDelete(i, who) ==
  /\ dels' = dels \cup {[id |-> i, by |-> who, member |-> i \in claimed, pc |-> "delete"]}
  /\ claimed' = claimed \ {i}

Deleting(who) == {d \in dels : d.by = who}

\* lookupOwnedSandbox: it exists, is labelled, and belongs to the caller.
OwnedSandbox(i, t) == Exists(i) /\ inst[i].label /\ inst[i].tenant = t

DeleteSandbox(t, i) ==
  /\ t \in granted[i] /\ OwnedSandbox(i, t)
  /\ \A d \in Deleting("user") : d.id # i
  /\ StartDelete(i, "user")
  /\ UNCHANGED <<hostVars, ipamVars, poolVars, warms, spawns, granted, expired, faults, restarts>>

Expired_Never(i) == Exists(i) /\ inst[i].label /\ inst[i].ttl < 0
Expired(i) == Exists(i) /\ inst[i].label /\ inst[i].ttl = 0

\* A tick lists the expired sandboxes, then deletes them one by one.
SweepList ==
  /\ expired = {} /\ Deleting("sweeper") = {}
  /\ \E i \in Ids : Expired(i)
  /\ expired' = {i \in Ids : Expired(i)}
  /\ UNCHANGED <<hostVars, ipamVars, poolVars, claimed, warms, spawns, dels, granted, faults, restarts>>

SweepDelete(i) ==
  /\ i \in expired /\ Deleting("sweeper") = {}
  /\ expired' = expired \ {i}
  /\ StartDelete(i, "sweeper")
  /\ UNCHANGED <<hostVars, ipamVars, poolVars, warms, spawns, granted, faults, restarts>>

\* Both destroy functions force a stop first and ignore its outcome.
DestroyInstance(d) ==
  /\ d.pc = "delete"
  /\ \/ IncusDelete(d.id)
     \/ /\ DeleteFails /\ inst[d.id].up = "running" /\ Fault
        /\ inst' = [inst EXCEPT ![d.id].up = "stopped"]
  /\ dels' = (dels \ {d}) \cup (IF d.member THEN {[d EXCEPT !.pc = "free"]} ELSE {})
  /\ UNCHANGED <<fresh, ip, ipamVars, poolVars, claimed, warms, spawns, granted, expired, restarts>>

\* Only a pool member holds an address, released whatever the delete did.
FreeAddress(d) ==
  /\ d.pc = "free"
  /\ dels' = dels \ {d}
  /\ ReleaseAddr(ip[d.id])
  /\ UNCHANGED <<hostVars, poolVars, claimed, warms, spawns, granted, expired, faults, restarts>>

----------------------------------------------------------------------------
\* One tick of quarantines and TTLs.
Clock ==
  /\ SlowClaims \/ spawns = {}
  /\ resting' = [a \in Addrs |-> IF resting[a] > 0 THEN resting[a] - 1 ELSE 0]
  /\ inst' = [i \in Ids |-> [inst[i] EXCEPT !.ttl = IF @ > 0 THEN @ - 1 ELSE @]]
  /\ <<resting, inst>>' # <<resting, inst>>
  /\ UNCHANGED <<fresh, ip, held, cursor, poolVars, claimed, warms, spawns, dels, granted, expired, faults, restarts>>

\* The daemon restarts: Incus keeps its instances, the daemon starts empty.
Restart ==
  /\ restarts < MaxRestarts
  /\ restarts' = restarts + 1
  /\ held' = {} /\ resting' = [a \in Addrs |-> 0] /\ cursor' = 0
  /\ ready' = <<>> /\ warming' = 0
  /\ claimed' = {}
  /\ warms' = {} /\ spawns' = {} /\ dels' = {}
  /\ expired' = {}
  /\ UNCHANGED <<hostVars, granted, faults>>

WarmStep(w)  == WarmCreate(w) \/ WarmStart(w) \/ WarmUnwind(w)
SpawnStep(s) ==
  \/ ClaimTenant(s) \/ ClaimTtl(s) \/ ClaimLabels(s) \/ TrackClaimed(s)
  \/ ColdCreate(s) \/ ColdStart(s) \/ ColdUnwind(s) \/ ColdNetwork(s)
DelStep(d)   == DestroyInstance(d) \/ FreeAddress(d)

Next ==
  \/ Reconcile \/ WarmExhausted \/ WarmAllocate
  \/ \E w \in warms : WarmStep(w)
  \/ \E t \in Tenants : Claim(t) \/ ColdSpawn(t)
  \/ \E s \in spawns : SpawnStep(s)
  \/ \E t \in Tenants, i \in Ids : DeleteSandbox(t, i)
  \/ SweepList
  \/ \E i \in Ids : SweepDelete(i)
  \/ \E d \in dels : DelStep(d)
  \/ Clock \/ Restart

Spec == Init /\ [][Next]_vars

\* Goroutines are scheduled, the reconciler and the sweeper tick, time
\* passes.  No caller is obliged to spawn or to delete.
Fairness ==
  /\ WF_vars(Reconcile) /\ WF_vars(WarmExhausted) /\ WF_vars(WarmAllocate)
  /\ WF_vars(\E w \in warms : WarmStep(w))
  /\ WF_vars(\E s \in spawns : SpawnStep(s))
  /\ WF_vars(\E d \in dels : DelStep(d))
  /\ WF_vars(SweepList) /\ WF_vars(\E i \in Ids : SweepDelete(i))
  /\ WF_vars(Clock)

FairSpec == Spec /\ Fairness

----------------------------------------------------------------------------
(* Properties *)

ReadySet == {ready[k] : k \in 1..Len(ready)}

\* The members whose address is in use: being warmed, ready, being claimed,
\* claimed and still there, or on the way to being freed.
Holders ==
  {w.id : w \in warms} \cup ReadySet \cup {i \in claimed : Exists(i)}
    \cup {s.id : s \in {x \in spawns : x.pc \in {"tenant", "ttl", "labels", "track"}}}
    \cup {d.id : d \in {x \in dels : x.member}}

\* No two instances on the bridge have the same address (warmOne, destroy
\* and ipam.Allocator together).
UniqueAddresses ==
  \A i, j \in Ids : i # j /\ Exists(i) /\ Exists(j) /\ ip[i] = ip[j] => ip[i] = NoAddr

\* The allocator holds exactly the addresses of the members the daemon
\* still knows, one each: none leaks and none is freed twice (Release is
\* reached once per member, whoever deletes the sandbox).
AddressesAccounted ==
  /\ held = {ip[i] : i \in Holders}
  /\ \A i, j \in Holders : ip[i] = ip[j] => i = j

\* A member serves one task: an id is returned to at most one tenant, who
\* owns the instance as long as it exists (Claim, claimFromPool), and a ready
\* member is running and was never anyone's (warmOne, Release).
OneTask ==
  /\ \A i \in Ids :
       /\ Cardinality(granted[i]) <= 1
       /\ Exists(i) => \A t \in granted[i] : inst[i].tenant = t /\ inst[i].label
  /\ \A i \in ReadySet : inst[i] = [Absent EXCEPT !.up = "running"] /\ granted[i] = {}
  /\ Cardinality(ReadySet) = Len(ready)

\* Ready and warming members never exceed the floor (planLocked, warmOne).
WithinFloor == Len(ready) + warming <= MinWarm

\* Every instance is in somebody's hands: a goroutine's, the ring's, or,
\* labelled and with a TTL, the sweeper's.
NoOrphans ==
  \A i \in Ids : Exists(i) =>
    \/ inst[i].label /\ inst[i].ttl # NoTtl
    \/ i \in ReadySet
    \/ \E g \in warms \cup spawns \cup dels : g.id = i

\* Every labelled sandbox is removed in the end, though deletes may fail.
SweptInTheEnd == \A i \in Ids : inst[i].label ~> ~Exists(i)

\* The ring is full again and again, unless the supply of ids (a bound of
\* the model) runs out.
Refills == []<>(Len(ready) = MinWarm) \/ <>(fresh = {})
=============================================================================
