# Containarium: TLA+ models, checks and proofs

Containarium runs containers, sandboxes and AI agents on cheap (often
preemptible) hosts. This directory holds TLA+ models of the parts of it in which
several actors act on shared state, the TLC runs that check them, and the TLAPS
proofs about them. `PROJECT.json` maps every definition to the lines it models,
lists the runs, the mutants that show each property can fail, the hazards and
the findings.

To repeat a run: `tlc -config MCQueue.cfg MCAgentTaskQueue` (the module
of each run is in `PROJECT.json`). To repeat the proofs:
`tlapm M.tla` for each `M` of `TrackerDispatchProofs`, `TrackerClaimProofs`, `AgentTaskQueueProofs`,
`SandboxPoolProofs`, `TunnelServerProofs`, `SentinelFailoverProofs`,
`BoxLifecycleProofs` and `OctetProbeProofs`.

## 1. Inventory

### 1.1 What is modelled

| part | state it keeps | operations | talks to | what is hard |
|---|---|---|---|---|
| Tracker dispatcher (`internal/tracker/dispatch*.go`, `internal/server/tracker_dispatch_*.go`) | rows `tracker_dispatches`, `dispatch_warnings` (Postgres), labels of the issue (forge), the registry of dispatched runs (memory) | tick: sweep, list, insert, re-read, label, provision, launch; run: end lease, report, project, untrack | store (atomic statements), forge (no transactions), agent server | concurrent ticks, cancellation anywhere, torn label writes, restart of the daemon, timeouts racing late answers |
| Agent task queue (`internal/server/agent_task_*.go`) | queued and leased tasks, results, id and token counters | Enqueue, Lease, Complete, Result | polling workers | expired leases whose worker still answers, rolled-back completions, restart |
| Sandboxes (`internal/sandbox/*`, `internal/server/sandbox_server.go`) | warm ring, address allocator with quarantine, claimed members | Spawn (warm, cold), Delete, Reconcile, warmOne, destroy, TTL sweep | Incus | each Incus call can fail, goroutines own instances between locks |
| Sentinel tunnels (`internal/sentinel/tunnel_*.go`) | registrations with generations, loopback octets, proxy listeners | handshake, Register, monitor, Unregister | spots over yamux; the manager by callbacks | the monitor of a replaced session wakes up at any time (#769) |
| Sentinel failover (`internal/sentinel/manager.go`, `backend.go`) | backend pool, health counters, primary, mode, DNAT rules, HTTPS handler, maintenance page | health pass, cloud events, failover, the two switches, tunnel callbacks | iptables, backends, tunnel server | unlocked switches on two goroutines, pointers to replaced objects, switches that fail half way |
| Boxes: auto-sleep, wake on request, expiry (`internal/autosleep`, `internal/wake`, `internal/ttlsweeper`, `internal/server/container_server*.go`) | the box and its configuration keys (Incus), the wake tracker and the sweeper's failures (memory) | start, stop, delete with its cascade, TTL, auto-sleep and delete policy; the auto-sleep tick, the wake request and its late swap, the sweep | Incus, routes, Caddy | five actors on one box and one route, without a common lock; stale decisions; the tracker dies with the daemon |
| Routes (`internal/app/route_sync.go`, `route_store.go`, `proxy.go`) | the routes table (Postgres), Caddy's running configuration | publish, unpublish, RouteSyncJob's diff | Caddy's admin API | calls that fail between a remove and an add, a Caddy that reverts to its stub, swaps that overtake a tick |
| Tracker claims (`internal/tracker/claim.go`, `internal/server/tracker_write_server.go`, `internal/runlease/registry.go`) | marker comments and assignees (forge), the registry of live runs and the claim locks (memory) | ClaimTrackerIssue: read, post, assign, re-read, yield | forge (no transactions, no lock that daemons share) | daemons racing between a read and a post, failures after the post, claims that get old |

What makes each correct:

* **Dispatcher.** One active dispatch per issue; a terminal row stays as it is; an
  end is reported once; an active row always has someone who will end it; an
  ended run has no usable credentials; an issue is not run twice on one request.
* **Queue.** No acknowledged task is lost; no task is handed out after its outcome
  was taken; only the newest lease's outcome is taken.
* **Sandboxes.** No two instances with one address; every address in use is
  accounted for; an instance serves one tenant; no instance is forgotten.
* **Tunnels.** No two spots with one address; the live tunnel of a spot keeps its
  listeners, address and backend, and is routed to; listeners of ended sessions are closed.
* **Failover.** Mode, primary, rules, HTTPS handler and page agree; traffic goes to
  a backend that answers as long as there is one.
* **Boxes.** A box that auto-sleep stopped has its route at the wake handler and is
  woken by a request; a running box does not stay behind the wake handler; an
  expired box is deleted.
* **Claims.** One run is told that it holds the issue; the runs that race do not all give
  up; nobody is refused for a claim that was given up; people keep their assignments.
* **Routes.** Caddy follows the routes table and the tracker, whatever fails or reverts.

### 1.2 How they interact

A tick (an RPC, at the daemon) inserts a row, asks the agent server for a run,
and a goroutine of the daemon watches that run. Queue and dispatcher share
neither table nor lock. Sandboxes have their own pool, allocator and sweep; the TTL
sweeper is the one actor that deletes what it did not create. The sentinel is
another process on another machine: its tunnel server calls `OnTunnelConnect` and
`OnTunnelDisconnect` of the failover manager on the goroutine of the connection,
while the manager's `Run` loop checks the same backends. In the daemon, users'
requests, the auto-sleep ticker, the wake handler, the TTL sweeper and RouteSyncJob
each run on a goroutine of their own and meet only in Incus, in the routes table,
in the wake tracker and in Caddy; `BoxLifecycle` composes them.

### 1.3 What is not modelled

`PROJECT.json` lists all 42 components with a reason each. In short: front ends
(CLI, MCP, web UI, gateway) call what is modelled; clients of external services
(Incus, forges, Kubernetes, cloud) appear as calls that may fail; security
scanners, metrics and eBPF are sampling or data; recipes, stacks and catalogs are
declarative. What has a protocol of its own and is still missing is in the plan
(section 7).

## 2. Modules

| module | models | notes |
|---|---|---|
| `DispatchStore` | the SQL statements of `dispatch_store.go` | one operator per statement, the partial unique index as a guard |
| `RunLeases` | `tracker_dispatch_leases.go`, credentials of a run | extends the store |
| `TrackerDispatch` | ticks, runs, forge, humans, restart | one action per store or forge call and the local code after it |
| `DispatchPromise` | what the dispatcher promises | abstract: holder of an issue, result and report of a row |
| `TrackerDispatchProofs` | theorems about `TrackerDispatch` | section 5 |
| `AgentTaskQueue` | both queue stores and their workers | `durable` selects Postgres or memory |
| `AgentTaskQueueProofs` | theorems about the queue | section 5 |
| `SandboxPool` | allocator, warm pool, handlers, sweep | goroutines are records |
| `SandboxPoolProofs` | theorems about `SandboxPool` | section 5 |
| `OctetProbe` | `allocateOctet`'s byte arithmetic | real constants: 256, 2, 254 |
| `OctetProbeProofs` | theorems about the probe | section 5 |
| `TunnelRegistry` | `tunnel_registry.go` | extends `OctetProbe` |
| `TunnelServer` | `tunnel_server.go`, pool callbacks | extends the registry |
| `TunnelServerProofs` | theorems about `TunnelServer` | section 5; extends `OctetProbeProofs` |
| `SentinelFailover` | `manager.go`, `backend.go` | the switches step by step, for any actor |
| `SentinelFailoverProofs` | theorems about `SentinelFailover` | section 5 |
| `BoxHost` | one box in Incus, its configuration keys, what the two loops decide from them | no clock: a deadline is unset, ahead or past |
| `RouteEdge` | the box's route: `route_store.go`, `route_sync.go`, `wake/state.go`, Caddy | one admin-API call per step of the sync |
| `BoxLifecycle` | `container_server.go` (start, stop, delete, auto-sleep), `wake/`, `autosleep/`, `ttlsweeper/` | composes `BoxHost` and `RouteEdge` |
| `BoxLifecycleProofs` | a theorem about `BoxLifecycle` | section 5 |
| `TrackerClaim` | `tracker/claim.go`, the RPC around it, `runlease/registry.go`, `GetIssue`, `Comment` and `AssignIfUnassigned` of both forges | one forge call per step |
| `TrackerClaimProofs` | theorems about `TrackerClaim` | section 5 |
| `MC...` | constants and symmetry sets for TLC | |

Names follow the code. A definition with an underscore (`Moves_NoWhere`) is a
mutant: a plausible bug, used by no specification.

### 2.1 State and actions

**TrackerDispatch.** `st`, `age`, `cause`, `pending` (in `DispatchStore`) are the
columns of a row; a timestamp is the row's age, which saturates at `MaxAge`.
`forge` is the issue as the forge shows it. `pc[t]` is where a tick is; `cur[t]`
is the row it works on. `agent[r]` is the goroutine `finishDispatchedRun`. A tick
can be cancelled at every step: calls on its own context then fail, calls on a
detached context (`context.WithoutCancel` and a budget) do not. `SetLabels` is
one write or, with the fault "forge", a torn one in which any part of
the additions and removals arrived. `Budget` bounds how far a row can age within one bookkeeping
call; the code's 30 s budget is below its 5 min grace, hence `Budget < Grace`.
`Crash` loses the memory of the process, keeps rows and labels, and leaves JWTs
usable ("lost"). A warning comment that fails was refused by the forge, or was posted and
its reply lost; `posted` counts the acknowledged ones and `lost` marks the other kind. A
store statement that fails, the record of a warning among them, may have been committed.

**AgentTaskQueue.** A row is a task with its lease; `left` is the rest of the
window. `sub` and `nr` are ghosts that let a reused id or token show. The Postgres
`Complete` is a transaction of two steps (delete, commit) that can roll back, with the
row locked in between (`SKIP LOCKED` readers pass it). The in-memory queue uses
one counter for ids and tokens, as the code does. A worker is any caller.
`poll.ts` gives a run less time than its window; a run that outlasts it is one of
the counted faults, next to lost answers, dead workers and failed statements.
`durable` is chosen by `Init` from `Stores`, so one run covers both stores.

**SandboxPool.** Three kinds of goroutine (`warms`, `spawns`, `dels`), one Incus
call per step. `held`, `resting`, `cursor` are the allocator; `resting` counts
down. Callers know an id only from the answer of a spawn, so a delete by a tenant
concerns an id it was granted. `Reconcile`'s trim branch is not an action: its
guard needs a ring above the floor, and theorem `FloorIsACeiling` shows there is none. The
daemon at this commit builds the server with a nil pool (`dual_server.go:632`);
the model takes the pool as the code and its tests use it. `Reconcile` waits for the warms
it started, so two of them never overlap. A create that fails is taken to leave nothing behind: that
Incus makes the instance and the wait for the operation then fails (`pkg/core/incus/client.go:934`) is left out.

**TunnelRegistry, TunnelServer.** A connection is named by its generation `g`; `pc[g]`
goes through the handshake, then the monitor. `usedIPs` is the octet map,
`proxies` the installed set of listeners of a spot, `ears[g]` where the listeners of a generation
are: at the spot's own address, at 127.0.0.1 if that could not be bound (one spot at a
time has it), or nowhere; the set is installed in all three cases. One port stands for
all. `pool` is the manager's backend pool. Each lock of the code
is one step; they are never held together. `Prompt` says that a spot connects
again only after its previous connection's goroutines have left the handshake
and the callback: the client waits at least a second (`tunnel_client.go:61`).
`Prompt = FALSE` drops that assumption (section 6). Both spots prefer the last octet, so
allocation wraps and collides.

**SentinelFailover.** A backend is an object (a number); `pool` names the object
of an id, `primary` is a pointer. `sw[a]` is the switch actor `a` is in the middle of (0
is the `Run` loop, an object is its disconnect callback). A health pass takes a
snapshot, checks one backend per step, fails over, then decides. Counters
saturate at their thresholds, which the comparisons (`>=`) cannot tell from
growing ones. A health check is a TCP connect (`Answers`). For GCP it reaches the daemon (`alive`);
for a tunnel it reaches the sentinel's own listener (`listens`), which accepts whatever the
daemon does. A tunnel's listeners may fail to bind (the fault "listen"); they close when the session
ends (`ListenerCloses`), and the disconnect callback follows or, after a refused reconnect, never
comes. A maintenance page that cannot listen (the fault "page") is logged by its goroutine, and the mode is stored
all the same. Starting a VM again is left to the environment (`Flap`). `setting`, chosen by `Init` from `Settings`, is the
environment of a behaviour: `serial` runs callbacks only between passes, `supersedes` lets a
spot connect again before its disconnect was handled, `faults` are the parts of a switch and the
binds that may fail, `daemons` the backends whose daemon goes away and comes back. `Calm` is the one where nothing of this happens. A panic
on the loop stops the process. HTTPS goes through ConnMux (tunnel and hybrid
mode); the userspace forwarder of the simple mode is left out.

**BoxHost, RouteEdge, BoxLifecycle.** One box and its one route. `pc[a]` is the
next call of each actor: a user's request, the waker (the leader of coalesced wake
requests), `late` (`scheduleSwapToDirect`), the sleeper and the sweeper. What a
handler does between two calls to Incus, Postgres, the tracker or Caddy belongs to
one step; a call that returns an error without an effect is no step. Incus
refuses to start what runs, to stop what does not and to delete what is not
stopped (`pkg/core/incus/migration.go:159`, `:170` handle two of the three); Caddy
refuses a second route with the same id. `signal` is what auto-sleep knows of the box's use: nothing
(no traffic record and no start that was stamped: it is then left alone), use within the anti-thrash window or the
idle threshold, or older. Any connection counts as use, an open ssh session too, and creating a box stamps nothing.
With the opt-in WAF (`Waf`) the listing misreads every upstream. Time is `signal` and the deadlines. The back-off is whether the box is held back:
how long does not matter to what is checked. `events` counts
everything that does not happen by itself: requests, failed calls, Caddy reverts,
daemon restarts. `Overtakes` lets a start and an auto-sleep pass overlap. With
`Overtakes = FALSE` they do not: once `last_started_at` is stamped the ticker
leaves the box alone for two idle thresholds (minutes), and a start takes at most
the 30 s readiness wait and a few calls. That leaves out the milliseconds between boot
and stamp, a stamp that fails, and a wake in the middle of a pass (section 6).
The listing of a sync tick and its first call are one step, and so are the two
calls of `UpdateRoute`, with the add of a sync tick that falls between them as one
of its outcomes. Left out: peers and Kubernetes, more routes per box, TLS subjects and
layer-4 routes, passthrough ports, encryption keys and secrets at start (a
failure there is a start that failed).

**TrackerClaim.** One issue. `thread` holds its comments that carry a marker, in
the order of posting; `call[d]` is the claim call that holds the issue's lock on daemon
`d`, with the forge call that comes next; `answer[r]` is the last reply a run got.
The issue is open to people, who quote comments (a marker by another author) and assign
themselves. `registered` is the union of the daemons' registries; `Live` sees the
daemon's own part. A run that asks is registered unless it was started before a
restart or the token is a person's. `clock` is the forge's time; the daemon's clock,
which the code compares with it, is taken to agree. `GetIssue` is one read of the first `PageSize`
comments of the forge's listing: the requests carry no sort parameter and `toIssue` keeps the order it
gets, which is oldest first on GitHub and newest first, GitLab's default for notes, on GitLab. `stale_after_seconds`
is an argument of the call: `StaleAfter` when the request leaves it unset, else one of `Windows` (`tracker_write_server.go:188`). `AssignIfUnassigned` is a read and a write; the write
adds on GitHub and replaces on GitLab (`Provider`). `faults`, chosen by `Init` from
`FaultSets`, are the calls that may fail: the first read, the post, a post whose reply is lost, the
assignment, the re-read, the yield; a restart in the middle of a call ("crash");
two claims with one timestamp ("tie"); and requests that name windows of their own ("windows").

## 3. Runs

State counts are distinct states (with symmetry where it is used).

### 3.1 Dispatcher

| run | bounds | shows |
|---|---|---|
| `dispatch_core` | 1 issue, 2 rows, 2 ticks, cancellation and failing provisioning, humans that scope, gate, close and ask again (1.8M) | `TypeOK`, `OneActivePerIssue`, `ReportedOnce`, `ActiveRowsAreOwned`, `OneActingRun`, `EndedRowsLoseCredentials`, `NoStrandedLabel`, `LaunchesOnlyActiveRows`, `RerunsAreAskedFor` |
| `dispatch_faults` | 1 row, 2 ticks, every fault, 1 restart (943K) | `TerminalIsFinal` and the refinement `KeepsPromise` |
| `dispatch_live` | 1 row, 2 ticks, 2 scopes, one unrouted, a forge that refuses calls or loses replies, 1 restart, fairness (889K) | `ActiveRowsEnd`, `WarnedOnce` |

Two rows and two ticks are the least at which a stale tick meets a row dispatched
after its listing; ages 0..2 separate fresh, past the grace and past the timeout. Store faults and
cancellation meet an unrouted scope in none of these runs, since `WarnedOnce` does not survive them (section 6);
`AcknowledgedOnce` does, by theorem `NoWarningTwice` and on an instance of two ticks and two unrouted scopes (77K states).

### 3.2 Queue

| run | bounds | shows |
|---|---|---|
| `queue` | both stores, 2 tasks of 2 skills, 2 workers, 7 leases, 3 faults, 1 restart, fairness (62K) | `NothingLost`, `NotRunAgain`, `NewestLeaseWins`, `AllCompleted` |

Every fault and the restart can cost one lease; seven leases over two tasks cover
all of them and leave the ones that complete. Three faults are enough for a late worker, a
lost answer and a rolled-back completion of one task.

### 3.3 Sandboxes

| run | bounds | shows |
|---|---|---|
| `sandbox_core` | 3 ids, 2 tenants, 2 addresses, floor 2, 1 fault (321K) | `UniqueAddresses`, `AddressesAccounted`, `NoOrphans` |
| `sandbox_live` | 2 ids, 2 tenants, 1 address, failing deletes, 1 fault, 1 restart, fairness (152K) | `OneTask`, `SweptInTheEnd`, `Refills` |

`sandbox_core` excludes failing deletes, claims longer than the TTL and restarts,
because each of those breaks one of its properties (section 6). `sandbox_live`
shows what survives failing deletes and a restart.

### 3.4 Tunnels

| run | bounds | shows |
|---|---|---|
| `tunnel` | 2 spots, 3 connections, alias, answer and bind failures, fairness (63K) | `DistinctAddresses`, `LiveTunnelServes`, `NoStrayListener`, `LiveTunnelKeepsBackend`, `TunnelIsRouted` |

Three connections of two spots allow three generations of one (a stale monitor, a
replaced handshake and the live one at once), or a reconnect next to another
spot with the same preferred octet.

### 3.5 Failover

| run | bounds | shows |
|---|---|---|
| `failover` | GCP and 2 spots, 2 connections, 2 checks up and 1 down, fairness; calm, with 2 changes of the GCP daemon; or every fault, replaced tunnels and 1 change, with callbacks between passes or at any time (1.9M) | when calm `ModesAgree`, `ProxiesToReachable`; with callbacks between passes `MaintenanceIsLastResort`; in all three `RecoversFromMaintenance` |
| `failover_panic` | GCP and 1 spot, calm | a violation of `NeverPanics` (section 6) |

Two connections are two tunnels, or one that is replaced; closing listeners is not bounded. The two changes let the GCP daemon go away and
come back; a backend that comes back is checked twice before it counts as healthy.

### 3.6 Boxes

| run | bounds | shows |
|---|---|---|
| `box_life` | every kind of request, 2 events, WAF off, fairness (393K) | `AsleepMeansWakeable`, `EdgeConverges`, `SleepersWake`, `WakeModeEnds`, `CondemnedGoes` |
| `box_restart` | no requests, 1 event | a violation of `SleepersWakeAfterRestart` (section 6) |

Two events are two of: a request of a user, a failed call at any place, a Caddy revert, a
daemon restart. Sleeping, waking, sweeping, syncing, idling and expiring cost
none, so that a behaviour goes through them again and again. Two are enough
for a delete and a new box of the same name, a stop that fails and a second fault
while it is repaired, a TTL and a failed delete. The theorem of section 5 covers
`AsleepMeansWakeable` for any number.

### 3.7 Claims

| run | bounds | shows |
|---|---|---|
| `claim` | GitHub's order, 3 runs on 2 daemons, a default window of 2 ticks, 3 calls, 5 comments, 3 ticks of time, 1 event; a forge whose first read and post may fail, with windows of 2 and 3 ticks; or one with every fault, with these windows or the default one (5.7M) | in the first `FirstClaimWins`; in all `SomebodyWins`; with the default window `RefusedForCause` |

Two daemons, one of them with two runs, are the least with a race between daemons
and, at the same time, a second run that goes by what the race left behind. Five
comments hold three claims and two yields, or a quote. A claim is stale after two ticks, or three for a
caller that says so, so that three ticks let one get old for some callers and be taken over. An event is the end of a run,
a restart, a quote or a person's assignment. The theorems of section 5 cover
all three properties for any number of all of these.

### 3.8 Deadlock

The dispatcher's runs check for deadlock. The others set `CHECK_DEADLOCK FALSE`: once the
supply of ids, leases, connections or flaps is used up and everything is settled,
nothing is left to do, which is a bound of the instance.

## 4. Fairness

Every fairness condition but one is weak and concerns code that runs by itself.

* Dispatcher: ticks are called again and again (the scheduler calls the RPC),
  a started step goes on, runs report their end, time passes. Agents are *not*
  assumed to return, nor forge writes to succeed.
* Queue: time passes and each worker keeps polling and finishes what it runs; faults
  (late runs among them) are bounded, not fair.
* Sandboxes: the reconciler and the sweeper are tickers, goroutines go on, time
  passes. Tenants need not call anything.
* Tunnels: a goroutine whose next step is enabled takes it. Sessions need not end.
* Failover: the ticker fires, a switch goes on, a callback goes on. Backends need
  not come back; the properties say "once the backends have settled", which the
  bound on changes makes every behaviour do.
* Boxes: the three loops tick, a handler that began goes on, idle time and back-off
  pass, and a route that leads to the wake handler is requested (clients, hence an
  assumption about the environment). Users need not call, deadlines need not pass. The
  strong condition is `SF(DeleteErase("sweeper"))`: an expired box may be asked for at the very
  moment between the sweeper's stop and its delete, and the delete fails.
  Without it this happens for ever and `CondemnedGoes` does not hold; the
  window is one Incus call long and the sweeper comes back at growing intervals, so the
  clause says that the box is not woken in that window every single time.

## 5. Proofs

Every invariant and every action property that a passing run checks is also a
theorem (and two more are: `WithinFloor`, and `AcknowledgedOnce` under every fault), for every value of the constants that satisfies the named assumptions:
`StoreAssumption` and `DispatchAssumption`, `QueueAssumption`, `PoolAssumption`,
`RegistryAssumption` and `ServerAssumption`, `FailoverAssumption`,
`BoundsAssumption` and `WafAssumption`, `ClaimAssumption`. These say what kind of value a constant
is. Two of them say more: `Budget < Grace` (the code's 30 s and 5 min) and `Ttl # 0`
(`sandbox_server.go:294` replaces a TTL that is not positive by the default).
Where a theorem needs more than that, the condition is a hypothesis of the theorem;
the runs are instances of it, and section 6 shows by TLC what goes wrong without it.

| module | obligations | theorem | states | hypothesis |
|---|---|---|---|---|
| `TrackerDispatchProofs` | 3960 | `TypeCorrect` | `TypeOK` | |
| | | `OneActiveDispatch` | `OneActivePerIssue` | |
| | | `TerminalRowsAreFinal` | `TerminalIsFinal` | |
| | | `EndsAreReportedOnce` | `ReportedOnce` | |
| | | `DispatcherKeepsPromise` | `KeepsPromise` | |
| | | `NoRowIsAbandoned` | `ActiveRowsAreOwned` | `Orderly` |
| | | `CredentialsEndWithTheRow` | `EndedRowsLoseCredentials` | `Orderly` |
| | | `LabelsAreNeverStranded` | `NoStrandedLabel` | `Orderly` |
| | | `OneRunActs` | `OneActingRun` | `Orderly` |
| | | `SweptRunsNeverStart` | `LaunchesOnlyActiveRows` | `Orderly` |
| | | `NoRerunUnasked` | `RerunsAreAskedFor` | `Orderly` |
| | | `NoWarningTwice` | `AcknowledgedOnce` | |
| | | `RecordedWarningsArePosted` | `WarnedOnce` | `Attended` |
| `AgentTaskQueueProofs` | 629 | `QueueTypeCorrect` | `TypeOK` | |
| | | `NoTaskIsLost` | `NothingLost` | |
| | | `CompletedStaysCompleted` | `NotRunAgain` | |
| | | `NoClobber` | `NewestLeaseWins` | |
| `SandboxPoolProofs` | 2442 | `PoolTypeCorrect` | `TypeOK` | |
| | | `FloorIsACeiling` | `WithinFloor` | |
| | | `OneTaskPerMember` | `OneTask` | |
| | | `AddressesAreAccounted` | `AddressesAccounted` | `Healthy` |
| | | `AddressesAreUnique` | `UniqueAddresses` | `Healthy` |
| | | `NothingIsOrphaned` | `NoOrphans` | `Healthy` |
| `TunnelServerProofs` | 958 | `TunnelTypeCorrect` | `TypeOK` | |
| | | `AddressesAreDistinct` | `DistinctAddresses` | |
| | | `ListenersAreKept` | `LiveTunnelServes` | |
| | | `ListenersAreClosed` | `NoStrayListener` | |
| | | `BackendsAreKept` | `LiveTunnelKeepsBackend` | `Prompt` |
| `SentinelFailoverProofs` | 1135 | `FailoverTypeCorrect` | `TypeOK` | |
| | | `ModesAlwaysAgree` | `ModesAgree` | (`Calm`, in the property) |
| | | `MaintenanceOnlyAsLastResort` | `MaintenanceIsLastResort` | (`serial`, in the property) |
| `TrackerClaimProofs` | 2431 | `FirstClaimIsAlone` | `FirstClaimWins` | (`Benign`, in the property) |
| | | `ClaimantsNeverAllYield` | `SomebodyWins` | `Provider = "github"` |
| | | `RefusalsHaveCause` | `RefusedForCause` | `Provider = "github"`, `PageSize >= MaxThread` |
| `BoxLifecycleProofs` | 429 | `SleepersStayWakeable` | `AsleepMeansWakeable` | `~Overtakes` |
| `OctetProbeProofs` | 32 | `ProbeInRange`, `ProbeReaches`, `OverlooksAtMostThree` | the probe's arithmetic | |

`Orderly` is `Faults \subseteq {"cancel", "provision"} /\ MaxCrashes = 0 /\ Budget < Timeout`,
the environment of `dispatch_core`: a tick may be cancelled anywhere and provisioning may fail
anywhere, but the store, the forge and the lease calls answer. `Attended` is "no tick
is cancelled and the store answers": comments may fail, or be posted and their reply lost. `Healthy` is
`~DeleteFails /\ ~SlowClaims /\ MaxRestarts = 0`: Incus deletes what it is asked to,
a claim is faster than the TTL and the daemon keeps running; every other call may fail.

### 5.1 Dispatcher

* **Types.** Each SQL statement, each lease operation and each local move of a tick keeps
  its part of the type; then one lemma per group of actions.
* **Rows.** The key is the lemma that a step of the whole system executes at most one
  statement of the store (`NextRows`, `StoreStep`). For `OneActivePerIssue` only the insert has
  then to be looked at, and its guard is the unique index. `TerminalIsFinal` holds because every
  UPDATE names the active state it leaves.
* **Reports.** `ReportedOnce` is not inductive: a sweep ends a row in one step
  and reports it in a later one. `ReportInv` adds who owes a
  report: a tick at "endLease" holds an ended, unreported row, and no other tick
  holds the same; only the statement that ends a row earns a report. So a second
  report would need a second winning statement on a terminal row.
* **Refinement.** `Holder` is well defined because of `OneActivePerIssue`. An insert maps to the
  promise's start, a statement that ends a row to its end, an observation to its report, and
  everything else to a stutter, whatever fails and however often the daemon restarts.
* **Life of a run** (`LifeInv`). For each row it says at which step of which actor it
  is. `OneStarter`: one tick starts a row. `Starts` and `Runs` relate the step of that tick and
  of the run to the row's state, its lease and its credentials. `RowsAttended` says who will end
  an active row. `SweepsOld`: the row a sweep is about to fail has aged by more than a budget, or has
  moved on since, while one whose bookkeeping is in flight has aged by its budget at most. `EndsProjectedOnce`: one actor at a
  time holds the end of a row. `ActiveRowsAreOwned` and `EndedRowsLoseCredentials` follow.
* **Labels** (`LabelInv`). A sweep frees the unique index before the run it timed out
  has lost its credentials, so the index alone does not keep two runs apart. The label does: from the
  first label write to the projection of the end a row has a *claim* on its issue
  (`Claims`), the issue has at most one claimant (`OneClaim`), each active label is owed by one
  (`LabelsOwed`), and a claimant's issue shows no outcome of an earlier run
  (`ClaimsClean`). `NoStrandedLabel`, `OneActingRun` and `RerunsAreAskedFor` follow, and
  `LaunchesOnlyActiveRows` from both invariants.
* **Warnings** (`PostedInv`, `RecordedInv`). The record precedes the post and a primary key keeps it
  single, so at most one tick is about to post a warning; and only a warning that was not acknowledged is
  forgotten, so the record of an acknowledged one stays, which is what keeps every later tick away. This
  holds whatever fails: a record whose insert was committed and returned an error silences a warning,
  it never doubles one. The other half, that no record stays behind a comment that was not posted,
  needs a tick that lives to take the record back and a store that answers (`Attended`).

TLC checked `LifeInv` and `LabelInv` as invariants of `dispatch_core` (1.8M states) before
they were proved.

### 5.2 Queue

`IInv` says of the rows that each has its own id and its own submission (`RowsApart`); of the
leases that workers hold that no two are the same draw (`LeasesApart`), and that a lease names the row
it was drawn from, is never newer than it, and is as new exactly while the row has its token
(`LeasesKnown`); and of an open transaction that the row it deletes is still there, under the token
that it presented (`TxHolds`). The last is what makes
a rolled-back `Complete` harmless and a committed one remove the row with the outcome it records.

### 5.3 Sandboxes

`IInv` holds whatever fails. Its parts: `warming` counts the warms or more (`Floor`); ring, warms and fresh
ids are apart; no member of the ring was ever anyone's; a spawn owns what it is about to return.
`HInv` adds what is true of a healthy pool: what a spawn has in hand is neither tracked, swept nor
deleted, and one delete at most will free a member's address (`Exclusive`); a cold sandbox has no
address of the pool (`Addressed`); labels and TTL are stamped in the order that the sweeper relies on
(`Stamped`); and an instance with an address is one the allocator counts (`Held`). An address
is released only by the step with which its one holder gives it up, which is why none leaks and
none is released twice.

### 5.4 Tunnels and failover

Tunnels: `Reserved` says that an octet has one owner, and `ProbeInRange` that there is no octet
outside 2..254. `Newest` says that the registered
generation is the newest of its spot; a stale monitor has an older one, so its
`UnregisterIfCurrent` and its listener cleanup do nothing. `Kept` says that a live tunnel past its
handshake has the installed set, and `Listening` that the installed sets and the open ones are the same, each with a
goroutine that will close it; `LiveTunnelServes` and `NoStrayListener` are read off. This needs no assumption on when a spot
reconnects, nor on what can be bound. Its backend does: the pool is keyed by spot, without a generation. `Settled` says where the goroutines
of a replaced session are under `Prompt`.

Failover: in any environment `Homes` and `Passing`. If callbacks do not overlap a pass, then at most
one switch is under way (`OneAtATime`), so what a pass has seen is still true when it acts
(`StillTrue`): this gives `MaintenanceIsLastResort`, whatever switches fail. In the calm environment
`Settled` follows a switch from one state in which the four places agree, step by step, to
the next.

### 5.5 Claims

`FirstClaimWins` is not inductive: it speaks of answers, and a run gets one long after its claim. `Race`
says how the race stands while all claims are fresh: whoever was told that it holds the issue posted the
first claim; that run does not yield; every other claim was yielded or belongs to a call that
has not returned; a run about to post has no claim, and a call about to yield has an earlier one to
yield to.

`SomebodyWins` needs none of `Benign`'s conditions, so `Race` is of no use to it. Only two runs matter:
the one that posted the first claim, and the one that posted the first claim of another
run (`Contest`). The re-read looks at the first foreign claim in the list, which on a forge that lists oldest
first is the first claim for every run but one, and for that one it is the second run's. If the first run yields at all,
then to a run of its own daemon whose claim its page shows (`Neighbours`); that run, under the same lock, claimed only
after it had found the first claim void: its run gone for good (`Gone`), and its claim too old for the window of that
call (`Found`). A longer window, asked for later, would find the claim fresh again, so the invariant says of
each call that is under way that it does not honour it (`NoneHonours`). Hence the neighbour never yields
(`NeighbourKeeps`), and one of the two keeps its claim.

`RefusedForCause` follows from the same invariant if a page shows every comment. It is about requests that
name no window (`OneWindow`), so that every call has the default one (`Uniform`): a claim that was void for one caller
is then void for all, and a run is refused for the newest claim or yields to a champion of the contest. All
three conditions are needed: section 6. TLC also checked `Base` and `Contest`, with one window and with two
(1.9M and 4.3M states).

### 5.6 Boxes

`SleepersStayWakeable`: the mark must already be there
when the pass comes to the stop, and nobody may be about to clear it. `MarkHolds`
adds both: from the swap to the stop the tracker holds the box, and while a pass
is under way or the box is asleep no start is. Only a start clears the mark, so
the rest is a frame argument (`Frame`, `WhileStarting`), one lemma per group of
actions.

### 5.7 Only model-checked

Liveness, because fairness and ENABLED are outside the prover: `ActiveRowsEnd`, `AllCompleted`,
`SweptInTheEnd`, `Refills`, `TunnelIsRouted`, `ProxiesToReachable`, `RecoversFromMaintenance`,
`EdgeConverges`, `SleepersWake`, `WakeModeEnds`, `CondemnedGoes`.

## 6. What the code does against its docs, and what the assumptions exclude

Two disagreements are kept as runs of their own, `failover_panic` and `box_restart`. Three more have a
configuration, which TLC refutes when it is run in the same way. The last is told in words.

`failover_panic`: in hybrid mode GCP is down and a tunnel is the primary. It turns unhealthy when its listeners are
closed while its backend stays in the pool, as after a reconnect that is refused (`tunnel_registry.go:139`).
`failoverPrimary` asks the backend's provider for its status; `OnTunnelConnect` made that provider with a nil
registry (`manager.go:1774`), and the call panics on the `Run` loop.
`docs/TUNNEL-REVERSE-PROXY.md:207` promises the maintenance page when both are down.

`MCFailoverDaemon.cfg` (`MCSentinelFailover`): the daemon of a spot goes away while its tunnel stays up. The health check connects to the
sentinel's own listener (`healthcheck.go:14`, `tunnel_server.go:249`), which accepts before it opens a stream
(`tunnel_server.go:286`): the backend stays healthy and traffic goes to it for ever, which breaks `ProxiesToLiveDaemon`.
`docs/TUNNEL-REVERSE-PROXY.md:113` says that the check is "tunneled to spot's daemon".

`MCDispatchOneWarning.cfg` (`MCTrackerDispatch`): the forge takes the comment that warns of an unrouted scope and its reply is lost. The
tick takes it as not posted, forgets the record, and the next tick warns again (`dispatch.go:453`), although `dispatch.go:147` says "one stamped
warning comment, ever". It breaks `OneWarningEver`; `AcknowledgedOnce` is what holds.

`MCClaimGitlab.cfg` (`MCTrackerClaim`): `claim.go:176` takes comments to be "oldest-first, as both providers return them", but the
GitLab adapter sends no sort parameter (`gitlab/issues.go:73`) and GitLab lists notes newest first. `latestClaim` then
picks the oldest claim and misses the yield that follows it, and `earliestForeignClaimBefore` the newest earlier one: a run is
refused for a run that gave the issue up, against `RefusedForCause`.

Windows: `earliestForeignClaimBefore` does not look at yields. While all requests have one window that is
harmless (theorem `RefusalsHaveCause`). With different ones, a call with a long window that began before the race
yields to the first claim although its run has lost the issue and yielded since, against `claim.go:190`, "a run that lost a race is never mistaken for the
holder again". It takes 27 steps, with four runs on three daemons and windows of 1 and 5
ticks: r4 reads an unclaimed issue; r2 claims it; r3, on r2's daemon, and then r1 take it over as stale; r2 claims again
and yields to r3; r4 posts, finds r2's first claim fresh for its own window, and yields to it.

`box_restart`: a box sleeps, the daemon restarts. The new daemon's tracker is empty,
so RouteSync turns the route direct, to a stopped box. `wake/state.go:40` says that "any
sleeping container will be woken back into wake mode on the next StopForAutoSleep
tick", but the ticker only looks at running boxes (`autosleep/decide.go:88`): requests fail
until somebody starts the box by hand.

The passing runs fix some constants, or a property assumes an environment (`Calm`,
`Benign`), so that the property holds. Each of these settings, changed, lets TLC find a
behaviour of the code that breaks a property. They
are assumptions a reader should know of, not results:

| setting (module) | what the code then does | breaks |
|---|---|---|
| `"store" \in Faults` (`TrackerDispatch`) | `RunStarted` lets a run proceed on a store error, also one whose row was swept while it was provisioning (`dispatch_lifecycle.go:87`) | `LaunchesOnlyActiveRows` |
| `"cancel" \in Faults`, an unrouted scope | post and forget of a warning share the tick's context: a tick cancelled between record and post loses it for good (`dispatch.go:454`) | `WarnedOnce` |
| `"store" \in Faults`, an unrouted scope | the record of a warning is committed and its statement returns an error: nobody posts it, and it silences every later tick (`dispatch_store.go:406`); or the forget fails | `WarnedOnce` |
| `Budget >= Timeout` | the sweep ends a row whose `agent:running` write is in flight, which then lands last (`dispatch_lifecycle.go:95`; only negative run timeouts are refused, `tracker_server.go:516`) | `NoStrandedLabel` |
| `"forge" \in Faults` | `labels_pending` is set and never read: no tick retries a failed label write, as `docs/architecture/issue-triggered-agents.md:118` says one does | `NoStrandedLabel` |
| `durable = FALSE`, a restart (`AgentTaskQueue`) | the in-memory queue loses its tasks and draws the same ids and tokens again | `NothingLost`, `NewestLeaseWins`, hence stated for the durable store or before a restart |
| `DeleteFails = TRUE` (`SandboxPool`) | `destroy` and the rollback of a warm release the address whatever the delete returned (`pool.go:353`): it is given out while the instance is up | `UniqueAddresses` |
| `MaxRestarts > 0` | a new pool adopts nothing, and a warm or half-claimed member has no label for the sweeper (`pool.go:103`) | `NoOrphans` |
| `SlowClaims = TRUE` | a claim outlasting the TTL is swept before it is tracked: its address stays allocated (`sandbox_server.go:383`) | `AddressesAccounted`, `Refills` |
| `Prompt = FALSE` (`TunnelServer`) | a reconnect between `UnregisterIfCurrent` and `OnDisconnect` has its new backend removed (`tunnel_server.go:387`); a failed handshake answer unregisters the newer registration (`:166`) | `LiveTunnelKeepsBackend` |
| not `Calm`, `supersedes` (`SentinelFailover`) | the primary is recognised by pointer, so one whose tunnel was replaced is not failed over (`manager.go:936`) | `ProxiesToReachable` |
| not `Calm`, `"forwarding"` | a switch whose rules fail leaves primary and HTTPS handler changed, and nothing tries again (`manager.go:1093`) | `ModesAgree` |
| not `Calm`, `"page"` | a page that cannot listen is logged and maintenance is stored without one; it is not started again before the next maintenance (`manager.go:1563`) | `ModesAgree` |
| not `Calm`, callbacks during a pass | a disconnect between the choice of a primary and its store leaves a removed backend as primary (`manager.go:955`) | `ModesAgree`, `MaintenanceIsLastResort`, `ProxiesToReachable` |
| `Overtakes = TRUE` (`BoxLifecycle`) | a pass decides to put a box to sleep, which is stopped and woken again before the pass stops it: the wake clears the mark and the box sleeps behind a direct route (`container_server.go:1923`) | `AsleepMeansWakeable`, `SleepersWake` |
| not `Benign`, `"tie"` (`TrackerClaim`) | only a strictly earlier claim makes a run yield (`claim.go:232`): two claims of the same second both win | `FirstClaimWins` |
| not `Benign`, `"yield"` | the yield is best effort (`claim.go:168`): without it the loser's claim is the newest, and the loser holds the issue when it asks again | `FirstClaimWins` |
| not `Benign`, `"lost"`, `"assign"`, `"reread"` or `"crash"` | a call ends after its claim is posted; the retry of the run skips the re-read (`claim.go:137`) | `FirstClaimWins` |
| not `Benign`, `PageSize = 0`: other comments fill the page | `GetIssue` reads one page (`github/issues.go:84`, `gitlab/issues.go:73`); claims beyond it are not seen | `FirstClaimWins` |
| `Waf = TRUE` (`RouteEdge`; off by default) | `ListRoutes` reads the first handler only, which is then the WAF's (`proxy.go:1039`): every tick finds a difference, removes the route and adds it again | `EdgeConverges` |
| `PageSize < MaxThread` (`TrackerClaim`) | the yield of a run lies beyond the page that shows its claim: a run is refused for one that gave up | `RefusedForCause` (with `PageSize = 3`; `SomebodyWins` holds with any) |

More behaviours are in the models but no property is stated against them. A
reconnect that is refused, or whose answer fails, leaves the dead backend in the
manager's pool and, for a failed alias, an octet that stays reserved
(`tunnel_registry.go:139`). The probe may report that no address is left with up to
three octets untried (`tunnel_registry.go:353`; theorem `OverlooksAtMostThree`).
A tunnel whose listeners could not be bound at its address is announced to the manager all the same, and one that fell
back to 127.0.0.1 is not dialled there (`tunnel_server.go:252`); `TunnelIsRouted` exempts it. A maintenance page that
failed to listen leaves port 80 refusing connections.
Nothing returns traffic to a recovered GCP backend while a tunnel primary
is healthy (`manager.go:951`; the doc's line 208 says it fails back).

About claims:

* When a claim has gone stale and two daemons take over at the same time, each
  one's re-read looks at the earliest foreign claim only (`claim.go:160`). That is the stale one, so both go on
  and both return Claimed, although `claim.go:103` says that an earlier claim
  that is live or fresh makes the call yield. `FirstClaimWins` therefore ends where the first
  claim gets old.
* The retry in the table above contradicts `claim.go:74`, by which Claimed means holding the
  claim, and `claim.go:190`, by which the idempotent re-claim is safe for a run that lost.
* GitLab's `AssignIfUnassigned` sets the list of assignees after a separate read
  (`gitlab/write.go:76`). A person who takes the issue in between is removed;
  `provider.go:104` says that it "never replaces an existing one".
* A run that asks again does not renew its claim, whose age counts from the first
  post. So a run that works longer than `staleAfter` loses the issue to a run of another
  daemon, which does not see its registration (`runlease/registry.go:82` says so).

About boxes:

* The sweeper deletes what it decided to delete when it listed the boxes. A box
  started, extended or made again under its name in the meantime is deleted all
  the same (`ttlsweeper/manager.go:208`), although
  `container_server.go:1699` says that "a box someone keeps waking to investigate
  never gets reaped".
* A request between the swap and the stop of an auto-sleep pass asks Incus to start
  a box that runs, which fails, and is answered 503; the comment at
  `container_server.go:1905` expects it to be "ready=true immediately". The same holds
  for every request until the next pass if the stop fails. `WakeModeEnds` shows that this ends once nobody uses the box; a
  box that an open connection keeps active (`autosleep/idle.go:42`) is left alone by the ticker, and stays behind the wake handler as long.
* A box whose auto-sleep is switched off while it sleeps, and that is then started by a user,
  keeps its mark: only boxes with auto-sleep on are swapped back
  (`container_server.go:1745`), and requests to the running box are answered 503.
  `WakeModeEnds` is stated for boxes that auto-sleep.
* `cascadeContainerCleanup` does not clear the mark of a deleted box; a new box of that
  name starts behind the wake handler. Creating a box stamps no start, so without a traffic record
  auto-sleep does nothing about it (`autosleep/decide.go:109`), and it stays there until it is used and then put to
  sleep, or stopped and started.
* A route published while the box sleeps without one is direct and wakes nobody.
* Outside the model: a TLS subject whose removal fails after its route is gone is
  not tried again (`route_sync.go:373` expects "the next reap attempt will retry", but
  the diff no longer lists the route).

## 7. Plan

Done in this order, because the dispatcher and the queue decide what agents do
and the sentinel decides what users reach: dispatcher, queue, sandboxes, tunnels,
failover, boxes with their routes, claims.

Next modules:

1. `SentinelRecovery`: restarting a preempted VM with backoff and the watch-only
   targets, in place of `Flap("gcp")`; then `SentinelFailover` composed with
   `TunnelServer` (one pool).
2. TLS subjects and layer-4 routes in `RouteEdge`; two boxes that swap one domain.
3. `CrewRun`, `CodeRun`: run stores under start, cancel and restart.
4. `ContainerMove`, staged create with unwinding, capacity drain.
5. Event bus with slow subscribers, backup retention, model gateway quotas,
   secrets reconciler, primary registry's alias health.

Next abstract specifications: a lease service that both queues implement; an
address allocator for `SandboxPool` and `TunnelRegistry`.

Next theorems:

1. The dispatcher's theorems under weaker hypotheses than `Orderly`. Without
   `Budget < Timeout` TLC finds `NoStrandedLabel` violated, while `ActiveRowsAreOwned`, `OneActingRun`
   and `EndedRowsLoseCredentials` hold (2.4M states). Which of them survive a forge or a lease
   fault is to be asked of TLC first.
2. More about boxes: the safety half of `EdgeConverges`, that is, what a sync tick
   leaves in Caddy when nothing fails during it.
3. The refinements of the abstract specifications above.
