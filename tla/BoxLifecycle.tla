---------------------------- MODULE BoxLifecycle ----------------------------
(***************************************************************************)
(* The life of one box under everything that acts on it at the same time:  *)
(* a user's requests, the auto-sleep ticker, the wake handler and its late *)
(* swap back, the TTL sweeper and RouteSyncJob. Each is a sequence of      *)
(* separate calls to Incus, the routes table, the tracker and Caddy, so    *)
(* that the steps of one fall between the steps of the others.             *)
(***************************************************************************)
EXTENDS BoxHost, RouteEdge, Naturals

CONSTANTS Ops,        \* the requests users make
          MaxEvents,  \* how many requests, faults and restarts there are
          Overtakes   \* may a start and an auto-sleep pass overlap?

OpKinds == {"start", "stop", "delete", "create", "ttl", "toggle", "policy",
            "publish", "poweroff"}

ASSUME BoundsAssumption ==
  /\ Ops \subseteq OpKinds /\ MaxEvents \in Nat /\ Overtakes \in BOOLEAN

\* Who acts. The waker is the leader of the coalesced wake requests; late is
\* the goroutine it leaves behind.
Actors == {"user", "waker", "late", "sleeper", "sweeper"}

Steps == {"idle", "stamp", "swap", "push", "stamp_stop",
          "erase", "cascade", "down", "mark", "stop", "stop_unrouted"}

VARIABLES pc,        \* the next step of each actor
          backoff,   \* the sweeper's failState holds the box back for now
          events     \* the requests, faults and restarts so far

vars == <<box, row, tracker, caddy, sync, pc, backoff, events>>

TypeOK ==
  /\ box \in Boxes
  /\ EdgeTypeOK
  /\ pc \in [Actors -> Steps]
  /\ backoff \in BOOLEAN
  /\ events \in 0..MaxEvents

\* A box that was just created with auto-sleep on and published.
Init ==
  /\ box = NewBox(TRUE, "none", "none")
  /\ EdgeInit
  /\ pc = [a \in Actors |-> "idle"]
  /\ backoff = FALSE
  /\ events = 0

Goto(a, step) == pc' = [pc EXCEPT ![a] = step]

\* One of the bounded number of things that do not happen by themselves.
Event == events < MaxEvents /\ events' = events + 1
NoEvent == UNCHANGED events

---------------------------------------------------------------------------
(* StartContainer, for a user and for the waker.                           *)

Starters == {"user", "waker"}

\* A start is under way, or its late swap is.
Starting ==
  \/ \E a \in Starters : pc[a] \in {"stamp", "swap", "push"}
  \/ pc["late"] # "idle"

\* The auto-sleep pass has decided and has not stopped the box yet.
Dozing == pc["sleeper"] \in {"mark", "push", "stop", "stop_unrouted"}

\* manager.Start. Any other state of the box is an error and the handler
\* returns, which changes nothing.
Boot(a) ==
  /\ pc[a] = "idle"
  /\ Overtakes \/ ~Dozing
  /\ IncusStart
  /\ Goto(a, "stamp")
  /\ UNCHANGED <<edge, sync, backoff>>

\* The handler returns. The waker's probe of the box may have timed out; if
\* not, it leaves a goroutine that swaps the route once more.
Return(a) ==
  \/ Goto(a, "idle")
  \/ /\ a = "waker" /\ pc["late"] = "idle"
     /\ pc' = [pc EXCEPT !["waker"] = "idle", !["late"] = "swap"]

\* After the stamps the box is read back: the handler returns an error when
\* it is gone, and the routes are swapped only if the box auto-sleeps.
StampStart(a) ==
  /\ pc[a] = "stamp"
  /\ \/ StampStarted /\ NoEvent
     \/ UNCHANGED box /\ Event
  /\ \/ ~Exists /\ Goto(a, "idle")
     \/ Exists /\ box.sleepy /\ Goto(a, "swap")
     \/ Exists /\ ~box.sleepy /\ Return(a)
  /\ UNCHANGED <<edge, sync, backoff>>

\* SwapToDirect with the routes the box has now: none, or a listing that
\* fails, is a no-op. The tracker first, then Caddy.
SwapToDirect(a) ==
  /\ pc[a] = "swap"
  /\ \/ row /\ ClearWakeMode /\ Goto(a, "push") /\ NoEvent
     \/ ~row /\ UNCHANGED edge /\ Return(a) /\ NoEvent
     \/ UNCHANGED edge /\ Return(a) /\ Event
  /\ UNCHANGED <<box, sync, backoff>>

\* UpdateRoute by a starter, by late and by the sleeper. That one of its two
\* calls fails is only logged, and leaves no route or the one there was.
Push(a) ==
  /\ pc[a] = "push"
  /\ IF a = "sleeper" THEN Goto(a, "stop") ELSE Return(a)
  /\ \/ UpdateRoute(IF a = "sleeper" THEN "wake" ELSE "direct") /\ NoEvent
     \/ (RemoveRoute \/ UNCHANGED edge) /\ UNCHANGED sync /\ Event
  /\ UNCHANGED <<box, backoff>>

StartStep(a) == StampStart(a) \/ SwapToDirect(a) \/ Push(a)

\* A client's request: Caddy sends it to the wake handler, which finds the
\* route in the routes table. A request during a wake waits for its leader.
Request == caddy = "wake" /\ row /\ Boot("waker") /\ NoEvent

---------------------------------------------------------------------------
(* StopContainer and DeleteContainer. The sweeper deletes as a user does.  *)

StampStop(a) ==
  /\ pc[a] = "stamp_stop"
  /\ \/ StampStopped /\ NoEvent
     \/ UNCHANGED box /\ Event
  /\ Goto(a, "idle")
  /\ UNCHANGED <<edge, sync, backoff>>

DeleteDown_SkipsStop(a) ==
  /\ Exists
  /\ Goto(a, "erase")
  /\ UNCHANGED <<box, edge, sync, backoff>>

\* manager.Delete reads the box and stops it if it is running.
DeleteDown(a) ==
  /\ Exists
  /\ IF Running THEN IncusStop("no") ELSE UNCHANGED box
  /\ Goto(a, "erase")
  /\ UNCHANGED <<edge, sync, backoff>>

DeleteErase(a) ==
  /\ pc[a] = "erase"
  /\ IncusDelete
  /\ Goto(a, "cascade")
  /\ UNCHANGED <<edge, sync, backoff, events>>

\* The box is gone, or runs again when Incus comes to delete it, or the
\* delete itself fails. The sweeper notes a failure and backs off.
DeleteFails(a) ==
  /\ \/ pc[a] \in {"down", "erase"} /\ ~Exists /\ NoEvent
     \/ pc[a] = "erase" /\ Running /\ NoEvent
     \/ pc[a] \in {"down", "erase"} /\ Exists /\ Event
  /\ Goto(a, "idle")
  /\ backoff' = (backoff \/ a = "sweeper")
  /\ UNCHANGED <<box, edge, sync>>

\* cascadeContainerCleanup deletes the row; that this fails is logged. The
\* wake tracker is not told. The sweeper then forgets the box's failures.
Cascade(a) ==
  /\ pc[a] = "cascade"
  /\ \/ row /\ DeleteRow /\ NoEvent
     \/ row /\ UNCHANGED edge /\ Event
     \/ ~row /\ UNCHANGED edge /\ NoEvent
  /\ Goto(a, "idle")
  /\ backoff' = (backoff /\ a # "sweeper")
  /\ UNCHANGED <<box, sync>>

DeleteStep(a) ==
  \/ pc[a] = "down" /\ DeleteDown(a) /\ NoEvent
  \/ DeleteErase(a) \/ DeleteFails(a) \/ Cascade(a)

---------------------------------------------------------------------------
(* The requests of users.                                                  *)

UserOp(kind) ==
  kind \in Ops /\ pc["user"] = "idle" /\ Event

UserStart == UserOp("start") /\ Boot("user")

UserStop ==
  /\ UserOp("stop") /\ IncusStop("no") /\ Goto("user", "stamp_stop")
  /\ UNCHANGED <<edge, sync, backoff>>

UserDelete == UserOp("delete") /\ DeleteDown("user")

Configure ==
  /\ \/ UserOp("create") /\ CreateContainer
     \/ UserOp("ttl") /\ SetContainerTTL
     \/ UserOp("toggle") /\ ToggleAutoSleep
     \/ UserOp("policy") /\ SetContainerDeletePolicy
     \/ UserOp("poweroff") /\ PowerOff
  /\ UNCHANGED <<edge, sync, pc, backoff>>

\* AddRoute and DeleteRoute of the network server write the table only, and
\* do not ask what the box does.
Publish ==
  /\ UserOp("publish") /\ SaveRoute
  /\ UNCHANGED <<box, sync, pc, backoff>>

Unpublish ==
  /\ UserOp("publish") /\ DeleteRow
  /\ UNCHANGED <<box, sync, pc, backoff>>

UserStep == StartStep("user") \/ StampStop("user") \/ DeleteStep("user")

---------------------------------------------------------------------------
(* The auto-sleep ticker.                                                  *)

SleepDecide_SkipsMarked ==
  /\ pc["sleeper"] = "idle"
  /\ Sleepable /\ ~tracker
  /\ Overtakes \/ ~Starting
  /\ Goto("sleeper", "mark")
  /\ UNCHANGED <<box, edge, sync, backoff, events>>

\* The tick lists the boxes and decides. An idle verdict does not fall inside a
\* start once last_started_at is stamped: the anti-thrash window is longer than
\* the start takes. Overtakes allows the rest: a verdict between boot and stamp,
\* or after a stamp that failed.
SleepDecide ==
  /\ pc["sleeper"] = "idle"
  /\ Sleepable
  /\ Overtakes \/ ~Starting
  /\ Goto("sleeper", "mark")
  /\ UNCHANGED <<box, edge, sync, backoff, events>>

SwapToWake_NoMark ==
  /\ pc["sleeper"] = "mark"
  /\ Goto("sleeper", IF row THEN "push" ELSE "stop_unrouted")
  /\ UNCHANGED <<box, edge, sync, backoff, events>>

\* StopForAutoSleep: SwapToWake before the stop, the tracker before Caddy. A
\* listing of the routes that fails skips the swap and not the stop.
SwapToWake ==
  /\ pc["sleeper"] = "mark"
  /\ \/ row /\ MarkWakeMode /\ Goto("sleeper", "push") /\ NoEvent
     \/ ~row /\ UNCHANGED edge /\ Goto("sleeper", "stop_unrouted") /\ NoEvent
     \/ UNCHANGED edge /\ Goto("sleeper", "stop_unrouted") /\ Event
  /\ UNCHANGED <<box, sync, backoff>>

\* The graceful stop may fail; nothing swaps the route back then.
SleepStop ==
  /\ pc["sleeper"] \in {"stop", "stop_unrouted"}
  /\ \/ /\ IncusStop(IF pc["sleeper"] = "stop" THEN "yes" ELSE "no")
        /\ Goto("sleeper", "stamp_stop")
        /\ NoEvent
     \/ Running /\ UNCHANGED box /\ Goto("sleeper", "idle") /\ Event
     \/ ~Running /\ UNCHANGED box /\ Goto("sleeper", "idle") /\ NoEvent
  /\ UNCHANGED <<edge, sync, backoff>>

SleepStep ==
  SleepDecide \/ SwapToWake \/ Push("sleeper")
    \/ SleepStop \/ StampStop("sleeper")

---------------------------------------------------------------------------
(* The TTL sweeper.                                                        *)

\* A tick forgets the failures of a box that is no longer expired, and
\* deletes an expired one unless it is backing off.
SweepTick ==
  /\ pc["sweeper"] = "idle"
  /\ IF Expired
     THEN ~backoff /\ Goto("sweeper", "down") /\ UNCHANGED backoff
     ELSE backoff /\ backoff' = FALSE /\ UNCHANGED pc
  /\ UNCHANGED <<box, edge, sync, events>>

BackoffElapses == backoff /\ backoff' = FALSE /\ UNCHANGED <<box, edge, sync, pc, events>>

SweepStep == SweepTick \/ DeleteStep("sweeper")

---------------------------------------------------------------------------
(* RouteSyncJob, time, and what goes wrong.                                *)

Sync == SyncStep /\ UNCHANGED <<box, pc, backoff, events>>

SyncFault ==
  /\ SyncCallFails
  /\ Event
  /\ UNCHANGED <<box, pc, backoff>>

Idle == GoesIdle /\ UNCHANGED <<edge, sync, pc, backoff, events>>

Passes ==
  /\ TTLPasses \/ WindowPasses
  /\ UNCHANGED <<edge, sync, pc, backoff, events>>

\* A connection to or from the running box, through Caddy or past it.
Visit == Traffic /\ UNCHANGED <<edge, sync, pc, backoff, events>>

CaddyCrash ==
  /\ CaddyRestarts /\ Event
  /\ UNCHANGED <<box, sync, pc, backoff>>

\* The daemon restarts: the tracker, the sweeper's failures and every handler
\* in flight are gone; Incus, Postgres and Caddy keep what they have.
DaemonRestarts ==
  /\ Event
  /\ box' = [box EXCEPT !.asleep = IF @ = "yes" THEN "orphaned" ELSE @]
  /\ tracker' = FALSE
  /\ sync' = "idle"
  /\ pc' = [a \in Actors |-> "idle"]
  /\ backoff' = FALSE
  /\ UNCHANGED <<row, caddy>>

Next ==
  \/ UserStart \/ UserStop \/ UserDelete \/ Configure \/ Publish \/ Unpublish
  \/ UserStep
  \/ Request \/ StartStep("waker") \/ StartStep("late")
  \/ SleepStep
  \/ SweepStep \/ BackoffElapses
  \/ Sync \/ SyncFault
  \/ Idle \/ Passes \/ Visit \/ CaddyCrash \/ DaemonRestarts

---------------------------------------------------------------------------
(* Fairness: the loops tick, a handler that began goes on, a route that    *)
(* points at the wake handler is requested, and idle time and back-off     *)
(* pass. The strong clause: the sweeper, whose waits double, does not find *)
(* for ever that a start came between its stop and its delete.             *)
Fairness ==
  /\ WF_vars(Sync)
  /\ WF_vars(SleepStep)
  /\ WF_vars(SweepStep) /\ SF_vars(DeleteErase("sweeper"))
  /\ WF_vars(BackoffElapses)
  /\ WF_vars(Request) /\ WF_vars(StartStep("waker")) /\ WF_vars(StartStep("late"))
  /\ WF_vars(UserStep)
  /\ WF_vars(Idle)

Spec == Init /\ [][Next]_vars /\ Fairness

---------------------------------------------------------------------------
(* Properties.                                                             *)

\* The route of the box points at the wake handler for as long as the box is
\* asleep: StopForAutoSleep marks the tracker before it stops the box, and
\* no other handler takes the mark away before the box runs again. What the
\* tracker holds does not survive the daemon.
AsleepMeansWakeable ==
  box.asleep = "yes" /\ row => tracker

\* When routes table and tracker settle, so does Caddy: whatever races between
\* two UpdateRoute calls, failed calls and reverts of Caddy leave behind,
\* RouteSyncJob brings Caddy to the upstream they name.
EdgeConverges ==
  <>[][UNCHANGED <<row, tracker>>]_vars => <>[](caddy = effectiveUpstream(row))

Unserved == box.asleep = "yes" /\ row

\* A box that auto-sleep stopped is woken by its requests.
SleepersWake == Unserved ~> ~Unserved

\* A running, auto-sleeping box that nobody uses does not stay behind the wake
\* handler, which cannot start what already runs: if the stop of an auto-sleep
\* pass fails after the swap, or a new box inherits the mark of a deleted one, a
\* later pass or start ends it. A box whose connections keep it busy, or of
\* which auto-sleep knows no use, is left alone by the ticker and may stay so.
Shadowed == Sleepable /\ row /\ tracker
WakeModeEnds == Shadowed ~> ~Shadowed

\* An expired box goes, or stops being expired, whatever fails on the way: a
\* failed delete backs off and is tried again, also after a restart.
CondemnedGoes == Expired ~> ~Expired

\* "after a daemon restart, RouteSync will publish all routes as direct, and
\* any sleeping container will be woken back into wake mode on the next
\* StopForAutoSleep tick" (wake/state.go): so it is woken by requests too.
SleepersWakeAfterRestart == box.asleep # "no" /\ row ~> ~(box.asleep # "no" /\ row)
=============================================================================
