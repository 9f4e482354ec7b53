------------------------- MODULE BoxLifecycleProofs -------------------------
(***************************************************************************)
(* An asleep box stays wakeable, for any number of requests, faults and    *)
(* restarts, as long as starts and auto-sleep passes do not overlap.       *)
(***************************************************************************)
EXTENDS BoxLifecycle, TLAPS

\* Writing one field of the box, or making, deleting or leaving it, gives a box.
LEMMA NewBoxTyped ==
  ASSUME NEW s \in BOOLEAN, NEW t \in Deadline, NEW u \in Signals
  PROVE  NewBox(s, t, u) \in Boxes /\ NewBox(s, t, u).asleep = "no"
BY DEF NewBox, Boxes, Deadline, Signals

LEMMA NoBoxTyped == NoBox \in Boxes /\ NoBox.asleep = "no"
BY DEF NoBox, NewBox, Boxes, Deadline, Signals

LEMMA FieldsTyped ==
  ASSUME box \in Boxes
  PROVE  /\ box.sleepy \in BOOLEAN /\ box.protected \in BOOLEAN /\ box.signal \in Signals
         /\ box.asleep \in {"no", "yes", "orphaned"}
BY DEF Boxes

\* What any action leaves of the host: a box, asleep only as before, or woken,
\* or put to sleep by a stop.
LEMMA StartTyped ==
  ASSUME box \in Boxes, IncusStart
  PROVE  box' \in Boxes /\ box'.asleep = "no"
BY DEF IncusStart, Boxes

LEMMA StopTyped ==
  ASSUME box \in Boxes, NEW k \in {"no", "yes"}, IncusStop(k)
  PROVE  box' \in Boxes /\ box'.asleep = k
BY DEF IncusStop, Boxes

LEMMA DeleteTyped ==
  ASSUME IncusDelete
  PROVE  box' \in Boxes /\ box'.asleep = "no"
BY NoBoxTyped DEF IncusDelete

LEMMA StampsTyped ==
  ASSUME box \in Boxes, StampStarted \/ StampStopped
  PROVE  box' \in Boxes /\ box'.asleep = box.asleep
BY DEF StampStarted, StampStopped, Stamp, Boxes, Deadline, Signals

LEMMA CreateTyped ==
  ASSUME CreateContainer
  PROVE  box' \in Boxes /\ box'.asleep = "no"
BY NewBoxTyped DEF CreateContainer, Deadline

LEMMA WritesTyped ==
  ASSUME box \in Boxes,
         \/ SetContainerTTL \/ ToggleAutoSleep \/ SetContainerDeletePolicy
         \/ TTLPasses \/ WindowPasses \/ GoesIdle \/ Traffic
  PROVE  box' \in Boxes /\ box'.asleep = box.asleep
<1>1. CASE SetContainerTTL
  BY <1>1 DEF SetContainerTTL, Boxes, Deadline
<1>2. CASE ToggleAutoSleep
  BY <1>2 DEF ToggleAutoSleep, Boxes
<1>3. CASE SetContainerDeletePolicy
  BY <1>3 DEF SetContainerDeletePolicy, Boxes
<1>4. CASE TTLPasses \/ WindowPasses \/ GoesIdle \/ Traffic
  BY <1>4 DEF TTLPasses, WindowPasses, GoesIdle, Traffic, Boxes, Deadline, Signals
<1>5. QED
  BY <1>1, <1>2, <1>3, <1>4

---------------------------------------------------------------------------
(* The program counters.                                                   *)

LEMMA GotoMoves ==
  ASSUME TypeOK, NEW a \in Actors, NEW step \in Steps, Goto(a, step)
  PROVE  /\ pc' \in [Actors -> Steps]
         /\ pc'[a] = step
         /\ \A b \in Actors \ {a} : pc'[b] = pc[b]
BY DEF TypeOK, Goto

LEMMA ReturnMoves ==
  ASSUME TypeOK, NEW a \in Actors \ {"sleeper"}, Return(a)
  PROVE  pc' \in [Actors -> Steps] /\ pc'["sleeper"] = pc["sleeper"]
BY DEF TypeOK, Return, Goto, Actors, Steps

---------------------------------------------------------------------------
(* The inductive invariant: the mark is there from the swap to the stop and *)
(* as long as the box is asleep, because no start, which alone would clear  *)
(* it, is under way then.                                                   *)

MarkHolds ==
  /\ box.asleep = "yes" => tracker
  /\ pc["sleeper"] \in {"push", "stop"} => tracker
  /\ Dozing \/ box.asleep = "yes" => ~Starting

IInv == TypeOK /\ MarkHolds

\* A step that neither touches the mark, nor moves the auto-sleep pass, nor
\* begins a start, nor puts the box to sleep, keeps the mark where it has to be.
LEMMA Frame ==
  ASSUME IInv, box' \in Boxes, box'.asleep = "yes" => box.asleep = "yes",
         tracker' = tracker, pc'["sleeper"] = pc["sleeper"], Starting' => Starting
  PROVE  MarkHolds'
BY DEF IInv, MarkHolds, Dozing

\* Nor does a step of a start disturb it: the box is awake and no pass is
\* under way.
LEMMA WhileStarting ==
  ASSUME IInv, Starting, box'.asleep = "yes" => box.asleep = "yes",
         pc'["sleeper"] = pc["sleeper"]
  PROVE  MarkHolds'
BY DEF IInv, MarkHolds, Dozing

---------------------------------------------------------------------------
(* One lemma per group of actions.                                         *)

LEMMA EventTyped ==
  ASSUME TypeOK, Event \/ NoEvent
  PROVE  events' \in 0 .. MaxEvents
BY BoundsAssumption DEF TypeOK, Event, NoEvent

LEMMA BootStep ==
  ASSUME IInv, ~Overtakes, NEW a \in Starters, Boot(a), Event \/ NoEvent
  PROVE  IInv'
<1>1. box' \in Boxes /\ box'.asleep = "no"
  BY StartTyped DEF Boot, IInv, TypeOK
<1>2. pc' \in [Actors -> Steps] /\ pc'["sleeper"] = pc["sleeper"]
  BY GotoMoves DEF Boot, IInv, Actors, Starters, Steps
<1>3. ~Dozing'
  BY <1>2 DEF Boot, Dozing
<1>4. TypeOK'
  BY <1>1, <1>2, EventTyped DEF IInv, TypeOK, EdgeTypeOK, Boot, edge
<1>5. QED
  BY <1>1, <1>3, <1>4 DEF IInv, MarkHolds, Dozing

LEMMA StampStartStep ==
  ASSUME IInv, NEW a \in {"user", "waker", "late"}, StampStart(a)
  PROVE  IInv'
<1>1. box' \in Boxes /\ box'.asleep = box.asleep
  BY StampsTyped DEF StampStart, IInv, TypeOK
<1>2. pc' \in [Actors -> Steps] /\ pc'["sleeper"] = pc["sleeper"]
  BY GotoMoves, ReturnMoves DEF StampStart, IInv, Actors, Steps
<1>3. Starting
  BY DEF StampStart, Starting, Starters
<1>4. TypeOK'
  BY <1>1, <1>2, EventTyped DEF IInv, TypeOK, EdgeTypeOK, StampStart, edge
<1>5. QED
  BY <1>1, <1>2, <1>3, <1>4, WhileStarting DEF IInv

LEMMA SwapToDirectStep ==
  ASSUME IInv, NEW a \in {"user", "waker", "late"}, SwapToDirect(a)
  PROVE  IInv'
<1>1. pc' \in [Actors -> Steps] /\ pc'["sleeper"] = pc["sleeper"]
  BY GotoMoves, ReturnMoves DEF SwapToDirect, IInv, Actors, Steps
<1>2. Starting
  BY DEF SwapToDirect, Starting, Starters
<1>3. TypeOK'
  BY <1>1, EventTyped DEF IInv, TypeOK, EdgeTypeOK, SwapToDirect, ClearWakeMode, edge
<1>4. QED
  BY <1>1, <1>2, <1>3, WhileStarting DEF IInv, SwapToDirect

LEMMA PushTyped ==
  ASSUME TypeOK, NEW a \in Actors, Push(a), pc' \in [Actors -> Steps]
  PROVE  TypeOK'
<1>1. events' \in 0 .. MaxEvents
  BY EventTyped DEF Push
<1>2. EdgeTypeOK'
  BY DEF TypeOK, EdgeTypeOK, Upstreams, Syncs, Push, UpdateRoute, RemoveRoute, edge
<1>3. QED
  BY <1>1, <1>2 DEF TypeOK, Push

LEMMA StartPushStep ==
  ASSUME IInv, NEW a \in {"user", "waker", "late"}, Push(a)
  PROVE  IInv'
<1>1. pc' \in [Actors -> Steps] /\ pc'["sleeper"] = pc["sleeper"]
  BY ReturnMoves DEF Push, IInv, Actors
<1>2. Starting
  BY DEF Push, Starting, Starters
<1>3. TypeOK'
  BY <1>1, PushTyped DEF IInv, Actors
<1>4. QED
  BY <1>1, <1>2, <1>3, WhileStarting DEF IInv, Push

LEMMA SleepPushStep ==
  ASSUME IInv, Push("sleeper")
  PROVE  IInv'
<1>1. /\ pc' \in [Actors -> Steps] /\ pc'["sleeper"] = "stop"
      /\ \A b \in Actors \ {"sleeper"} : pc'[b] = pc[b]
  BY GotoMoves DEF Push, IInv, Actors, Steps
<1>2. Dozing /\ tracker /\ ~Starting
  BY DEF Push, Dozing, IInv, MarkHolds
<1>3. ~Starting'
  BY <1>1, <1>2 DEF Starting, Starters, Actors
<1>4. tracker' = tracker
  BY DEF Push, UpdateRoute, RemoveRoute, edge
<1>5. TypeOK'
  BY <1>1, PushTyped DEF IInv, Actors
<1>6. QED
  BY <1>2, <1>3, <1>4, <1>5 DEF IInv, MarkHolds

\* An actor other than the auto-sleep pass goes on outside a start.
LEMMA GoesElsewhere ==
  ASSUME TypeOK, NEW a \in Actors \ {"sleeper"},
         NEW step \in Steps \ {"stamp", "swap", "push"}, Goto(a, step),
         a = "late" => step = "idle"
  PROVE  /\ pc' \in [Actors -> Steps] /\ pc'["sleeper"] = pc["sleeper"]
         /\ Starting' => Starting
<1>1. /\ pc' \in [Actors -> Steps] /\ pc'[a] = step
      /\ \A b \in Actors \ {a} : pc'[b] = pc[b]
  BY GotoMoves
<1>2. QED
  BY <1>1 DEF Starting, Starters, Actors

LEMMA StampStopStep ==
  ASSUME IInv, NEW a \in {"user", "sleeper"}, StampStop(a)
  PROVE  IInv'
<1>1. box' \in Boxes /\ box'.asleep = box.asleep
  BY StampsTyped DEF StampStop, IInv, TypeOK
<1>2. /\ pc' \in [Actors -> Steps] /\ pc'[a] = "idle"
      /\ \A b \in Actors \ {a} : pc'[b] = pc[b]
  BY GotoMoves DEF StampStop, IInv, Actors, Steps
<1>3. (Starting' => Starting) /\ (Dozing' => Dozing)
      /\ (pc'["sleeper"] \in {"push", "stop"} => pc["sleeper"] \in {"push", "stop"})
  BY <1>2 DEF Starting, Starters, Dozing, Actors
<1>4. TypeOK'
  BY <1>1, <1>2, EventTyped DEF IInv, TypeOK, EdgeTypeOK, StampStop, edge
<1>5. QED
  BY <1>1, <1>3, <1>4 DEF IInv, MarkHolds, StampStop, edge

LEMMA DeleteDownStep ==
  ASSUME IInv, NEW a \in {"user", "sweeper"}, DeleteDown(a), Event \/ NoEvent
  PROVE  IInv'
<1>1. box' \in Boxes /\ (box'.asleep = "yes" => box.asleep = "yes")
  BY StopTyped DEF DeleteDown, IInv, TypeOK
<1>2. /\ pc' \in [Actors -> Steps] /\ pc'["sleeper"] = pc["sleeper"]
      /\ Starting' => Starting
  BY GoesElsewhere DEF DeleteDown, IInv, Actors, Steps
<1>3. TypeOK'
  BY <1>1, <1>2, EventTyped DEF IInv, TypeOK, EdgeTypeOK, DeleteDown, edge
<1>4. QED
  BY <1>1, <1>2, <1>3, Frame DEF IInv, DeleteDown, edge

LEMMA DeleteStepStep ==
  ASSUME IInv, NEW a \in {"user", "sweeper"}, DeleteStep(a)
  PROVE  IInv'
<1>1. CASE DeleteDown(a) /\ NoEvent
  BY <1>1, DeleteDownStep
<1>2. CASE DeleteErase(a)
  <2>1. box' \in Boxes /\ box'.asleep = "no"
    BY <1>2, DeleteTyped DEF DeleteErase
  <2>2. /\ pc' \in [Actors -> Steps] /\ pc'["sleeper"] = pc["sleeper"]
        /\ Starting' => Starting
    BY <1>2, GoesElsewhere DEF DeleteErase, IInv, Actors, Steps
  <2>3. TypeOK'
    BY <1>2, <2>1, <2>2 DEF IInv, TypeOK, EdgeTypeOK, DeleteErase, edge
  <2>4. QED
    BY <1>2, <2>1, <2>2, <2>3, Frame DEF IInv, DeleteErase, edge
<1>3. CASE DeleteFails(a)
  <2>1. /\ pc' \in [Actors -> Steps] /\ pc'["sleeper"] = pc["sleeper"]
        /\ Starting' => Starting
    BY <1>3, GoesElsewhere DEF DeleteFails, IInv, Actors, Steps
  <2>2. backoff' \in BOOLEAN
    BY <1>3 DEF DeleteFails
  <2>3. TypeOK'
    BY <1>3, <2>1, <2>2, EventTyped DEF IInv, TypeOK, EdgeTypeOK, DeleteFails, edge
  <2>4. QED
    BY <1>3, <2>1, <2>3, Frame DEF IInv, TypeOK, DeleteFails, edge
<1>4. CASE Cascade(a)
  <2>1. /\ pc' \in [Actors -> Steps] /\ pc'["sleeper"] = pc["sleeper"]
        /\ Starting' => Starting
    BY <1>4, GoesElsewhere DEF Cascade, IInv, Actors, Steps
  <2>2. backoff' \in BOOLEAN
    BY <1>4 DEF Cascade
  <2>3. EdgeTypeOK' /\ tracker' = tracker
    BY <1>4 DEF Cascade, DeleteRow, IInv, TypeOK, EdgeTypeOK, edge
  <2>4. TypeOK'
    BY <1>4, <2>1, <2>2, <2>3, EventTyped DEF IInv, TypeOK, Cascade
  <2>5. QED
    BY <1>4, <2>1, <2>3, <2>4, Frame DEF IInv, TypeOK, Cascade
<1>5. QED
  BY <1>1, <1>2, <1>3, <1>4 DEF DeleteStep

LEMMA UserStopStep ==
  ASSUME IInv, UserStop
  PROVE  IInv'
<1>1. box' \in Boxes /\ box'.asleep = "no"
  BY StopTyped DEF UserStop, IInv, TypeOK
<1>2. /\ pc' \in [Actors -> Steps] /\ pc'["sleeper"] = pc["sleeper"]
      /\ Starting' => Starting
  BY GoesElsewhere DEF UserStop, IInv, Actors, Steps
<1>3. TypeOK'
  BY <1>1, <1>2, EventTyped DEF IInv, TypeOK, EdgeTypeOK, UserStop, UserOp, edge
<1>4. QED
  BY <1>1, <1>2, <1>3, Frame DEF IInv, UserStop, edge

LEMMA ConfigureStep ==
  ASSUME IInv, Configure
  PROVE  IInv'
<1>1. box' \in Boxes /\ (box'.asleep = "yes" => box.asleep = "yes")
  BY StopTyped, CreateTyped, WritesTyped DEF Configure, PowerOff, IInv, TypeOK
<1>2. TypeOK'
  BY <1>1, EventTyped DEF IInv, TypeOK, EdgeTypeOK, Configure, UserOp, edge
<1>3. QED
  BY <1>1, <1>2, Frame DEF IInv, Configure, edge, Starting

LEMMA PublishStep ==
  ASSUME IInv, Publish \/ Unpublish
  PROVE  IInv'
<1>1. EdgeTypeOK' /\ tracker' = tracker
  BY DEF Publish, Unpublish, SaveRoute, DeleteRow, IInv, TypeOK, EdgeTypeOK
<1>2. TypeOK'
  BY <1>1, EventTyped DEF IInv, TypeOK, Publish, Unpublish, UserOp
<1>3. QED
  BY <1>1, <1>2, Frame DEF IInv, TypeOK, Publish, Unpublish, Starting

\* The pass decides only when no start is under way, marks, and stops the box.
LEMMA SleepStepStep ==
  ASSUME IInv, ~Overtakes, SleepStep
  PROVE  IInv'
<1>1. CASE SleepDecide
  <2>1. /\ pc' \in [Actors -> Steps] /\ pc'["sleeper"] = "mark"
        /\ \A b \in Actors \ {"sleeper"} : pc'[b] = pc[b]
    BY <1>1, GotoMoves DEF SleepDecide, IInv, Actors, Steps
  <2>2. ~Starting'
    BY <1>1, <2>1 DEF SleepDecide, Starting, Starters, Actors
  <2>3. TypeOK'
    BY <1>1, <2>1 DEF IInv, TypeOK, EdgeTypeOK, SleepDecide, edge
  <2>4. QED
    BY <1>1, <2>1, <2>2, <2>3 DEF IInv, MarkHolds, SleepDecide, edge
<1>2. CASE SwapToWake
  <2>1. /\ pc' \in [Actors -> Steps]
        /\ \/ pc'["sleeper"] = "push" /\ tracker' = TRUE
           \/ pc'["sleeper"] = "stop_unrouted" /\ tracker' = tracker
        /\ \A b \in Actors \ {"sleeper"} : pc'[b] = pc[b]
    BY <1>2, GotoMoves DEF SwapToWake, MarkWakeMode, IInv, Actors, Steps, edge
  <2>2. ~Starting'
    BY <1>2, <2>1 DEF SwapToWake, Starting, Starters, Actors, Dozing, IInv, MarkHolds
  <2>3. TypeOK'
    BY <1>2, <2>1, EventTyped DEF IInv, TypeOK, EdgeTypeOK, SwapToWake, MarkWakeMode, edge
  <2>4. QED
    BY <1>2, <2>1, <2>2, <2>3 DEF IInv, MarkHolds, SwapToWake
<1>3. CASE Push("sleeper")
  BY <1>3, SleepPushStep
<1>4. CASE SleepStop
  <2>1. /\ pc' \in [Actors -> Steps] /\ pc'["sleeper"] \in {"stamp_stop", "idle"}
        /\ \A b \in Actors \ {"sleeper"} : pc'[b] = pc[b]
    BY <1>4, GotoMoves DEF SleepStop, IInv, Actors, Steps
  <2>2. ~Starting'
    BY <1>4, <2>1 DEF SleepStop, Starting, Starters, Actors, Dozing, IInv, MarkHolds
  <2>3. /\ box' \in Boxes
        /\ box'.asleep = "yes" => box.asleep = "yes" \/ pc["sleeper"] = "stop"
    BY <1>4, StopTyped DEF SleepStop, IInv, TypeOK
  <2>4. TypeOK'
    BY <1>4, <2>1, <2>3, EventTyped DEF IInv, TypeOK, EdgeTypeOK, SleepStop, edge
  <2>5. QED
    BY <1>4, <2>1, <2>2, <2>3, <2>4 DEF IInv, MarkHolds, SleepStop, edge
<1>5. CASE StampStop("sleeper")
  BY <1>5, StampStopStep
<1>6. QED
  BY <1>1, <1>2, <1>3, <1>4, <1>5 DEF SleepStep

LEMMA SweepTickStep ==
  ASSUME IInv, SweepTick \/ BackoffElapses
  PROVE  IInv'
<1>1. /\ pc' \in [Actors -> Steps] /\ pc'["sleeper"] = pc["sleeper"]
      /\ Starting' => Starting
  <2>1. CASE UNCHANGED pc
    BY <2>1 DEF IInv, TypeOK, Starting
  <2>2. CASE Goto("sweeper", "down")
    BY <2>2, GoesElsewhere DEF IInv, Actors, Steps
  <2>3. QED
    BY <2>1, <2>2 DEF SweepTick, BackoffElapses
<1>2. TypeOK'
  BY <1>1 DEF IInv, TypeOK, EdgeTypeOK, SweepTick, BackoffElapses, edge
<1>3. QED
  BY <1>1, <1>2, Frame DEF IInv, TypeOK, SweepTick, BackoffElapses, edge

LEMMA SyncsStep ==
  ASSUME IInv, Sync \/ SyncFault \/ CaddyCrash
  PROVE  IInv'
<1>1. EdgeTypeOK' /\ tracker' = tracker
  <2>1. CASE SyncDiff
    BY <2>1 DEF SyncDiff, effectiveUpstream, IInv, TypeOK, EdgeTypeOK, Upstreams, Syncs
  <2>2. CASE SyncAdd
    BY <2>2 DEF SyncAdd, AddRoute, IInv, TypeOK, EdgeTypeOK, Upstreams, Syncs
  <2>3. CASE SyncCallFails
    BY <2>3 DEF SyncCallFails, effectiveUpstream, IInv, TypeOK, EdgeTypeOK, Upstreams, Syncs, edge
  <2>4. CASE CaddyCrash
    BY <2>4 DEF CaddyCrash, CaddyRestarts, IInv, TypeOK, EdgeTypeOK
  <2>5. QED
    BY <2>1, <2>2, <2>3, <2>4 DEF Sync, SyncStep, SyncFault
<1>2. UNCHANGED <<box, pc, backoff>> /\ events' \in 0 .. MaxEvents
  BY EventTyped DEF Sync, SyncFault, CaddyCrash, IInv, NoEvent
<1>3. TypeOK'
  BY <1>1, <1>2 DEF IInv, TypeOK
<1>4. QED
  BY <1>1, <1>2, <1>3, Frame DEF IInv, TypeOK, Starting

LEMMA TimeStep ==
  ASSUME IInv, Idle \/ Passes \/ Visit
  PROVE  IInv'
<1>1. box' \in Boxes /\ box'.asleep = box.asleep
  BY WritesTyped DEF Idle, Passes, Visit, IInv, TypeOK
<1>2. TypeOK'
  BY <1>1 DEF IInv, TypeOK, EdgeTypeOK, Idle, Passes, Visit, edge
<1>3. QED
  BY <1>1, <1>2, Frame DEF IInv, Idle, Passes, Visit, edge, Starting

\* After a restart a sleeping box is orphaned, and nothing is under way.
LEMMA RestartStep ==
  ASSUME IInv, DaemonRestarts
  PROVE  IInv'
<1>1. box' \in Boxes /\ box'.asleep # "yes"
  BY DEF DaemonRestarts, IInv, TypeOK, Boxes
<1>2. pc' = [a \in Actors |-> "idle"] /\ pc' \in [Actors -> Steps]
  BY DEF DaemonRestarts, Steps
<1>3. ~Dozing' /\ pc'["sleeper"] = "idle"
  BY <1>2 DEF Dozing, Actors
<1>4. TypeOK'
  BY <1>1, <1>2, EventTyped DEF IInv, TypeOK, EdgeTypeOK, Syncs, DaemonRestarts
<1>5. QED
  BY <1>1, <1>3, <1>4 DEF IInv, MarkHolds

---------------------------------------------------------------------------
(* The theorems.                                                           *)

LEMMA Initially == Init => IInv
<1> SUFFICES ASSUME Init PROVE IInv
  OBVIOUS
<1>1. box \in Boxes /\ box.asleep = "no"
  BY NewBoxTyped DEF Init, Deadline, Signals
<1>2. pc = [a \in Actors |-> "idle"] /\ pc \in [Actors -> Steps]
  BY DEF Init, Steps
<1>3. ~Dozing /\ pc["sleeper"] = "idle"
  BY <1>2 DEF Dozing, Actors
<1>4. TypeOK
  <2>1. EdgeTypeOK
    BY DEF EdgeTypeOK, Upstreams, Syncs, Init, EdgeInit
  <2>2. events \in 0 .. MaxEvents
    BY BoundsAssumption DEF Init
  <2>3. QED
    BY <1>1, <1>2, <2>1, <2>2 DEF TypeOK, Init
<1>5. QED
  BY <1>1, <1>3, <1>4 DEF IInv, MarkHolds

LEMMA Inductive ==
  ASSUME ~Overtakes, IInv, [Next]_vars
  PROVE  IInv'
<1>1. CASE UserStart \/ Request
  BY <1>1, BootStep DEF UserStart, UserOp, Request, Starters
<1>2. CASE UserStop
  BY <1>2, UserStopStep
<1>3. CASE UserDelete
  BY <1>3, DeleteDownStep DEF UserDelete, UserOp
<1>4. CASE Configure
  BY <1>4, ConfigureStep
<1>5. CASE Publish \/ Unpublish
  BY <1>5, PublishStep
<1>6. CASE StartStep("user") \/ StartStep("waker") \/ StartStep("late")
  BY <1>6, StampStartStep, SwapToDirectStep, StartPushStep DEF StartStep
<1>7. CASE StampStop("user")
  BY <1>7, StampStopStep
<1>8. CASE DeleteStep("user") \/ DeleteStep("sweeper")
  BY <1>8, DeleteStepStep
<1>9. CASE SleepStep
  BY <1>9, SleepStepStep
<1>10. CASE SweepTick \/ BackoffElapses
  BY <1>10, SweepTickStep
<1>11. CASE Sync \/ SyncFault \/ CaddyCrash
  BY <1>11, SyncsStep
<1>12. CASE Idle \/ Passes \/ Visit
  BY <1>12, TimeStep
<1>13. CASE DaemonRestarts
  BY <1>13, RestartStep
<1>14. CASE UNCHANGED vars
  BY <1>14 DEF vars, IInv, TypeOK, EdgeTypeOK, MarkHolds, Dozing, Starting
<1>15. QED
  BY <1>1, <1>2, <1>3, <1>4, <1>5, <1>6, <1>7, <1>8, <1>9, <1>10, <1>11, <1>12,
     <1>13, <1>14 DEF Next, UserStep, SweepStep

\* However many requests, failed calls, Caddy reverts and daemon restarts there
\* are, a box that auto-sleep stopped keeps its mark in the wake tracker until
\* it runs again or the daemon that put it to sleep is gone, if starts and
\* auto-sleep passes do not overlap.
THEOREM SleepersStayWakeable == ~Overtakes => (Spec => []AsleepMeansWakeable)
<1> SUFFICES ASSUME ~Overtakes PROVE Spec => []AsleepMeansWakeable
  OBVIOUS
<1>1. Init => IInv
  BY Initially
<1>2. IInv /\ [Next]_vars => IInv'
  BY Inductive
<1>3. IInv => AsleepMeansWakeable
  BY DEF IInv, MarkHolds, AsleepMeansWakeable
<1>4. QED
  BY <1>1, <1>2, <1>3, PTL DEF Spec
=============================================================================
