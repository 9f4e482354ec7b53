-------------------------- MODULE SentinelFailover --------------------------
(***************************************************************************)
(* internal/sentinel/manager.go: the sentinel forwards traffic to a        *)
(* primary backend or serves a maintenance page.  The Run loop checks the  *)
(* backends and handles cloud events; the tunnel server's callbacks run on *)
(* goroutines of their own.  Both call switchToProxy and                   *)
(* switchToMaintenance, which take no common lock and are modelled step by *)
(* step, for whichever actor runs them.                                    *)
(*                                                                         *)
(* A Backend is a Go object: m.primary points to one, and a spot that      *)
(* connects again gets a new one under the same id and address.  Restarting *)
(* a preempted VM is left to the environment: alive says whether the       *)
(* daemon of a backend serves.  Port 443 is shared with the tunnel server  *)
(* (ConnMux mode), so that maintenance starts an HTTP server for port 80   *)
(* only.                                                                   *)
(***************************************************************************)
EXTENDS Integers, FiniteSets

CONSTANTS Spots,
          Hybrid,        \* there is a GCP backend as well
          UpChecks,      \* HealthyThreshold
          DownChecks,    \* UnhealthyThreshold
          Settings,      \* the environments that are considered
          MaxObjs,       \* bound on tunnel connections
          MaxFaults,     \* bound on failed switches
          MaxFlaps       \* bound on daemons going away and coming back

Names == IF Hybrid THEN Spots \cup {"gcp"} ELSE Spots

\* What may go wrong in an environment: the part of a switch that fails, or
\* the binding of a tunnel's listener; callbacks during a pass of the loop
\* (unless serial); a spot that connects again before it was disconnected;
\* the daemons that go away and come back; and its bounds.
Environments ==
  [faults : SUBSET {"forwarding", "page", "listen"}, serial : BOOLEAN, supersedes : BOOLEAN,
   daemons : SUBSET Names, objs : 0 .. MaxObjs, flaps : 0 .. MaxFlaps]

ASSUME FailoverAssumption ==
  /\ {"gcp", "none", "page"} \cap Spots = {}
  /\ Hybrid \in BOOLEAN /\ Settings \subseteq Environments
  /\ UpChecks \in Nat \ {0} /\ DownChecks \in Nat \ {0}
  /\ MaxObjs \in Nat /\ MaxFlaps \in Nat /\ MaxFaults \in Nat

VARIABLES pool,      \* BackendPool: the object registered under an id, 0 for none
          home,      \* the id (and address) of an object
          made,      \* objects made by OnTunnelConnect so far
          health,    \* Healthy, healthyCount and unhealthyCount of an object
          primary,   \* m.primary, 0 for nil
          mode, https, dnat,
          page,      \* the maintenance HTTP server: off (stopMaintenance is nil),
                     \* up, or failed to listen
          loop,      \* the Run loop
          cb,        \* the objects whose OnTunnelDisconnect has yet to look at m.primary
          sw,        \* the switch an actor is in the middle of
          panicked,
          listens,   \* the sentinel listens on the loopback address of a spot
          alive, event, flaps, faults,
          setting    \* the environment, which stays as it is

poolVars == <<pool, home, made>>
modeVars == <<primary, mode, https, dnat, page>>
envVars  == <<listens, alive, event, flaps, faults>>
vars == <<poolVars, health, modeVars, loop, cb, sw, panicked, envVars, setting>>

Objs   == 1 .. MaxObjs
Gcp    == MaxObjs + 1
Actors == Objs \cup {0}      \* 0 is the Run loop

Idle == [op |-> "none", to |-> 0]
Rest == [pc |-> "rest", todo |-> {}, any |-> FALSE, failed |-> 0]
New  == [ok |-> FALSE, up |-> 0, down |-> 0]

\* Pointers point to objects, counters stay within their thresholds, and each
\* actor is at a step of a switch.
TypeOK ==
  /\ pool \in [Names -> 0 .. Gcp] /\ made \in 0 .. MaxObjs
  /\ home \in [1 .. Gcp -> Names \cup {"none"}]
  /\ health \in [1 .. Gcp -> [ok : BOOLEAN, up : 0 .. UpChecks, down : 0 .. DownChecks]]
  /\ primary \in 0 .. Gcp /\ mode \in {"proxy", "maintenance"}
  /\ page \in {"off", "up", "failed"}
  /\ https \in Names \cup {"page"} /\ dnat \in Names \cup {"none"}
  /\ loop \in [pc : {"rest", "check", "decide", "recover"}, todo : SUBSET (1 .. Gcp),
               any : BOOLEAN, failed : 0 .. Gcp]
  /\ cb \subseteq Objs
  /\ sw \in [Actors -> [op : {"none", "stop", "forward", "store", "clear", "page"},
                        to : 0 .. Gcp]]
  /\ panicked \in BOOLEAN
  /\ listens \in [Spots -> BOOLEAN] /\ alive \in [Names -> BOOLEAN]
  /\ event \in {"none", "preempted", "stopped"}
  /\ flaps \in 0 .. MaxFlaps /\ faults \in 0 .. MaxFaults /\ setting \in Settings

\* Run has entered maintenance; the GCP backend is registered, no tunnel is.
Init ==
  /\ pool = [n \in Names |-> IF n = "gcp" THEN Gcp ELSE 0]
  /\ home = [o \in 1 .. Gcp |-> IF Hybrid /\ o = Gcp THEN "gcp" ELSE "none"]
  /\ made = 0
  /\ health = [o \in 1 .. Gcp |-> New]
  /\ primary = 0 /\ mode = "maintenance" /\ https = "page" /\ dnat = "none" /\ page = "up"
  /\ loop = Rest /\ cb = {} /\ sw = [a \in Actors |-> Idle] /\ panicked = FALSE
  /\ listens = [s \in Spots |-> FALSE] /\ alive = [n \in Names |-> TRUE] /\ event = "none"
  /\ flaps = 0 /\ faults = 0 /\ setting \in Settings

----------------------------------------------------------------------------
(* backend.go *)

InPool == {pool[n] : n \in Names} \ {0}

\* With health h SelectPrimary may return o: a healthy backend of the best priority; among
\* tunnels, the one the map's iteration meets first.  0 stands for nil.
Selects(h, o) ==
  LET well == {b \in InPool : h[b].ok}
  IN CASE Gcp \in well -> o = Gcp
       [] well = {}    -> o = 0
       [] OTHER        -> o \in well

----------------------------------------------------------------------------
(* switchToProxy and switchToMaintenance, run by actor a *)

Starts(a, op, o) == sw' = [sw EXCEPT ![a] = [op |-> op, to |-> o]]
Steps(a, op)     == sw' = [sw EXCEPT ![a].op = op]
Returns(a)       == sw' = [sw EXCEPT ![a] = Idle]
Busy(a)          == sw[a].op # "none"

\* The maintenance servers stop, m.primary is set; certificates and keys are
\* then fetched over the network.
ProxyStop(a) ==
  /\ sw[a].op = "stop"
  /\ page' = "off"
  /\ primary' = sw[a].to
  /\ Steps(a, "forward")
  /\ UNCHANGED <<poolVars, health, mode, https, dnat, loop, cb, panicked, envVars, setting>>

\* startHTTPSProxy and enableForwarding.
ProxyForward(a) ==
  /\ sw[a].op = "forward"
  /\ https' = home[sw[a].to] /\ dnat' = home[sw[a].to]
  /\ Steps(a, "store")
  /\ UNCHANGED <<poolVars, health, primary, mode, page, loop, cb, panicked, envVars, setting>>

Fault(f) == f \in setting.faults /\ faults < MaxFaults /\ faults' = faults + 1

\* enableForwarding fails before, while or after it replaces the rules.
ForwardFails(a) ==
  /\ sw[a].op = "forward" /\ Fault("forwarding")
  /\ https' = home[sw[a].to] /\ dnat' \in {dnat, "none", home[sw[a].to]}
  /\ Returns(a)
  /\ UNCHANGED <<poolVars, health, primary, mode, page, loop, cb, panicked, listens, alive, event, flaps, setting>>

ProxyStore(a) ==
  /\ sw[a].op = "store"
  /\ mode' = "proxy"
  /\ Returns(a)
  /\ UNCHANGED <<poolVars, health, primary, https, dnat, page, loop, cb, panicked, envVars, setting>>

MaintenanceClear(a) ==
  /\ sw[a].op = "clear"
  /\ dnat' = "none" /\ primary' = 0 /\ https' = "page"
  /\ Steps(a, "page")
  /\ UNCHANGED <<poolVars, health, mode, page, loop, cb, panicked, envVars, setting>>

\* A server that was started before, and is not stopped, is left as it is.
MaintenancePage(a) ==
  /\ sw[a].op = "page"
  /\ page' = IF page = "off" THEN "up" ELSE page
  /\ mode' = "maintenance"
  /\ Returns(a)
  /\ UNCHANGED <<poolVars, health, primary, https, dnat, loop, cb, panicked, envVars, setting>>

\* The server cannot listen: its goroutine logs that and ends, after
\* startMaintenanceHTTPOnly has returned without an error.
PageFails(a) ==
  /\ sw[a].op = "page" /\ page = "off" /\ Fault("page")
  /\ page' = "failed" /\ mode' = "maintenance"
  /\ Returns(a)
  /\ UNCHANGED <<poolVars, health, primary, https, dnat, loop, cb, panicked, listens, alive, event, flaps, setting>>

Switch(a) == \/ ProxyStop(a) \/ ProxyForward(a) \/ ProxyStore(a)
             \/ MaintenanceClear(a) \/ MaintenancePage(a)
SwitchFails(a) == ForwardFails(a) \/ PageFails(a)

----------------------------------------------------------------------------
(* The Run loop *)

CallbacksRest == cb = {} /\ \A a \in Objs : ~Busy(a)
LoopFree == ~Busy(0) /\ ~panicked

\* healthCheckAll takes its snapshot, unless the pool is empty.
Tick ==
  /\ loop = Rest /\ LoopFree
  /\ setting.serial => CallbacksRest
  /\ InPool # {}
  /\ loop' = [Rest EXCEPT !.pc = "check", !.todo = InPool]
  /\ UNCHANGED <<poolVars, health, modeVars, cb, sw, panicked, envVars, setting>>

Bump(n, limit) == IF n = limit THEN limit ELSE n + 1

Counted(h, well) ==
  IF well
  THEN LET up == Bump(h.up, UpChecks)
       IN [ok |-> h.ok \/ up = UpChecks, up |-> up, down |-> 0]
  ELSE LET down == Bump(h.down, DownChecks)
       IN [ok |-> h.ok /\ down # DownChecks, up |-> 0, down |-> down]

\* failoverPrimary, on the loop: to the next healthy backend, else to
\* maintenance (Recover follows).
Failover_GivesUp(o) == Starts(0, "clear", 0)
Failover(o) == IF o # 0 THEN Starts(0, "stop", o) ELSE Starts(0, "clear", 0)

\* CheckHealth of a backend at its address.  That of a tunnel is a listener of
\* the sentinel's own, which accepts whatever the daemon behind it does.
Answers(n) == IF n = "gcp" THEN alive[n] ELSE listens[n]

\* One backend of the snapshot is dialled at its address and counted; if it
\* turns unhealthy and is the object m.primary points to, failover follows.
Check_NoFailover(o) ==
  /\ loop.pc = "check" /\ LoopFree /\ o \in loop.todo
  /\ LET now == Counted(health[o], Answers(home[o]))
     IN /\ health' = [health EXCEPT ![o] = now]
        /\ loop' = [loop EXCEPT !.todo = @ \ {o}, !.any = @ \/ now.ok,
                                !.pc = IF loop.todo = {o} THEN "decide" ELSE "check"]
  /\ UNCHANGED <<poolVars, modeVars, cb, sw, panicked, envVars, setting>>

Check(o) ==
  /\ loop.pc = "check" /\ LoopFree /\ o \in loop.todo
  /\ LET now  == Counted(health[o], Answers(home[o]))
         fell == health[o].ok /\ ~now.ok /\ primary = o
     IN /\ health' = [health EXCEPT ![o] = now]
        /\ IF fell
           THEN \E next \in 0 .. Gcp :
                  /\ Selects(health', next)
                  /\ Failover(next)
                  /\ loop' = [loop EXCEPT !.todo = @ \ {o}, !.pc = "recover",
                                          !.failed = IF next = 0 THEN o ELSE 0]
           ELSE /\ loop' = [loop EXCEPT !.todo = @ \ {o}, !.any = @ \/ now.ok,
                                        !.pc = IF loop.todo = {o} THEN "decide" ELSE "check"]
                /\ UNCHANGED sw
  /\ UNCHANGED <<poolVars, modeVars, cb, panicked, envVars, setting>>

\* After a failover.  diagnoseAndRecover asks the provider of the backend for
\* its status; a tunnel backend's provider was made without a registry, and
\* the call dereferences nil.
Recover ==
  /\ loop.pc = "recover" /\ LoopFree
  /\ panicked' = (loop.failed \in Objs)
  /\ loop' = [loop EXCEPT !.failed = 0, !.pc = IF loop.todo = {} THEN "decide" ELSE "check"]
  /\ UNCHANGED <<poolVars, health, modeVars, cb, sw, envVars, setting>>

\* The transitions at the end of healthCheckAll.
Decide_StaysDown ==
  /\ loop.pc = "decide" /\ LoopFree
  /\ loop' = Rest
  /\ IF ~loop.any /\ mode = "proxy" THEN Starts(0, "clear", 0) ELSE UNCHANGED sw
  /\ UNCHANGED <<poolVars, health, modeVars, cb, panicked, envVars, setting>>

Decide ==
  /\ loop.pc = "decide" /\ LoopFree
  /\ loop' = Rest
  /\ CASE loop.any /\ mode = "maintenance" ->
            \E best \in 0 .. Gcp :
              /\ Selects(health, best)
              /\ IF best # 0 THEN Starts(0, "stop", best) ELSE UNCHANGED sw
       [] ~loop.any /\ mode = "proxy" -> Starts(0, "clear", 0)
       [] OTHER -> UNCHANGED sw
  /\ UNCHANGED <<poolVars, health, modeVars, cb, panicked, envVars, setting>>

\* handleEvent: the VM was preempted, or stopped.
HandleEvent ==
  /\ loop = Rest /\ LoopFree
  /\ setting.serial => CallbacksRest
  /\ event # "none" /\ event' = "none"
  /\ health' = [health EXCEPT ![Gcp].ok = FALSE, ![Gcp].up = 0,
                              ![Gcp].down = IF event = "preempted" THEN 0 ELSE @]
  /\ IF primary = Gcp /\ mode = "proxy"
     THEN \E next \in 0 .. Gcp : Selects(health', next) /\ Failover(next)
     ELSE UNCHANGED sw
  /\ UNCHANGED <<poolVars, modeVars, loop, cb, panicked, listens, alive, flaps, faults, setting>>

----------------------------------------------------------------------------
(* The tunnel server's callbacks *)

LoopRests == loop = Rest /\ ~Busy(0) /\ CallbacksRest

\* startProxies has opened the listeners of the spot by now, or could not.
OnTunnelConnect(s) ==
  /\ ~panicked /\ made < setting.objs
  /\ setting.supersedes \/ pool[s] = 0
  /\ setting.serial => LoopRests
  /\ made' = made + 1
  /\ pool' = [pool EXCEPT ![s] = made + 1]
  /\ home' = [home EXCEPT ![made + 1] = s]
  /\ \/ listens' = [listens EXCEPT ![s] = TRUE] /\ UNCHANGED faults
     \/ listens' = [listens EXCEPT ![s] = FALSE] /\ Fault("listen")
  /\ UNCHANGED <<health, modeVars, loop, cb, sw, panicked, alive, event, flaps, setting>>

\* monitorSession closes the listeners of a session that ended.  The callback
\* below follows, unless the spot was unregistered before: by a reconnect whose
\* alias or answer failed.
ListenerCloses(s) ==
  /\ ~panicked /\ listens[s]
  /\ listens' = [listens EXCEPT ![s] = FALSE]
  /\ UNCHANGED <<poolVars, health, modeVars, loop, cb, sw, panicked, alive, event, flaps, faults, setting>>

\* OnTunnelDisconnect takes the backend out of the pool and drops its keys.  A
\* late one finds the listeners of the spot's next connection.
OnTunnelDisconnect(s) ==
  /\ ~panicked /\ pool[s] # 0
  /\ setting.supersedes \/ ~listens[s]
  /\ setting.serial => LoopRests
  /\ cb' = cb \cup {pool[s]}
  /\ pool' = [pool EXCEPT ![s] = 0]
  /\ UNCHANGED <<home, made, health, modeVars, loop, sw, panicked, envVars, setting>>

\* It then fails over, if the backend it removed is the primary.
AfterDisconnect_Forgets(o) ==
  /\ o \in cb /\ ~panicked
  /\ cb' = cb \ {o}
  /\ UNCHANGED <<poolVars, health, modeVars, loop, sw, panicked, envVars, setting>>

AfterDisconnect(o) ==
  /\ o \in cb /\ ~panicked
  /\ cb' = cb \ {o}
  /\ IF primary = o /\ mode = "proxy"
     THEN \E next \in 0 .. Gcp :
            /\ Selects(health, next)
            /\ IF next # 0 THEN Starts(o, "stop", next) ELSE Starts(o, "clear", 0)
     ELSE UNCHANGED sw
  /\ UNCHANGED <<poolVars, health, modeVars, loop, panicked, envVars, setting>>

----------------------------------------------------------------------------
(* The environment *)

\* A backend's daemon goes away or comes back; when the GCP VM goes away an
\* event may be on its way.
Flap(n) ==
  /\ ~panicked /\ flaps < setting.flaps /\ flaps' = flaps + 1
  /\ n \in setting.daemons /\ pool[n] # 0
  /\ alive' = [alive EXCEPT ![n] = ~@]
  /\ IF n = "gcp" /\ alive[n]
     THEN event' \in {event, "preempted", "stopped"}
     ELSE UNCHANGED event
  /\ UNCHANGED <<poolVars, health, modeVars, loop, cb, sw, panicked, listens, faults, setting>>

Loop == Tick \/ (\E o \in 1 .. Gcp : Check(o)) \/ Recover \/ Decide \/ HandleEvent

Next ==
  \/ Tick \/ Recover \/ Decide \/ HandleEvent
  \/ \E o \in 1 .. Gcp : Check(o)
  \/ \E a \in Actors : ~panicked /\ (Switch(a) \/ SwitchFails(a))
  \/ \E s \in Spots : OnTunnelConnect(s) \/ ListenerCloses(s) \/ OnTunnelDisconnect(s)
  \/ \E o \in Objs : AfterDisconnect(o)
  \/ \E n \in Names : Flap(n)

Spec == Init /\ [][Next]_vars

\* The ticker fires for ever and every goroutine goes on.
FairSpec ==
  /\ Spec
  /\ WF_vars(Loop)
  /\ \A a \in Actors : WF_vars(~panicked /\ Switch(a))
  /\ \A o \in Objs : WF_vars(AfterDisconnect(o))

----------------------------------------------------------------------------
(* Properties *)

Quiet == LoopRests /\ ~panicked

\* Callbacks run between passes and switches succeed.
Calm == setting.serial /\ ~setting.supersedes /\ setting.faults = {}

\* Between two passes the four places a request can be sent by agree: in proxy
\* mode all lead to the primary, a backend of the pool, in maintenance all lead
\* to the page.
ModesAgree ==
  Calm /\ Quiet =>
    IF mode = "proxy"
    THEN primary \in InPool /\ page = "off" /\ https = home[primary] /\ dnat = home[primary]
    ELSE primary = 0 /\ page = "up" /\ https = "page" /\ dnat = "none"

\* The maintenance page replaces a working proxy only when no backend in the
\* pool is healthy, also when switches fail and tunnels are replaced.
MaintenanceIsLastResort ==
  [][setting.serial /\ mode = "proxy" /\ mode' = "maintenance" => \A o \in InPool : ~health[o].ok]_vars

\* docs/TUNNEL-REVERSE-PROXY.md, "Both down": the sentinel goes on serving
\* when its last backend fails.
NeverPanics == ~panicked

\* Once the backends have settled, traffic is not proxied to an address that
\* refuses connections: a VM that is gone, a tunnel whose listeners were closed.
ProxiesToReachable ==
  <>[](~Calm \/ panicked \/ (mode = "proxy" => primary # 0 /\ Answers(home[primary])))

\* docs/TUNNEL-REVERSE-PROXY.md, "Health checks dial 127.0.0.2:8080 -> tunneled to
\* spot's daemon": so a backend whose daemon is gone loses the traffic.
ProxiesToLiveDaemon ==
  <>[](panicked \/ (mode = "proxy" => primary # 0 /\ alive[home[primary]]))

\* Once the backends have settled, the maintenance page is not served while a
\* backend answers.
RecoversFromMaintenance ==
  <>[](panicked \/ (mode = "maintenance" => \A n \in Names : pool[n] # 0 => ~Answers(n)))

=============================================================================
