----------------------- MODULE SentinelFailoverProofs -----------------------
(***************************************************************************)
(* The failover manager, for any number of tunnels, thresholds and faults. *)
(* In an environment where the tunnel server's callbacks do not overlap a  *)
(* pass of the Run loop, at most one switch is under way, so each switch   *)
(* ends in the state it was started for.                                   *)
(***************************************************************************)
EXTENDS SentinelFailover, TLAPS

---------------------------------------------------------------------------
(* The inductive invariant.                                                *)

\* In any environment: a backend of the pool has its address, and a switch
\* to a proxy has a backend to switch to.
Homes ==
  /\ \A n \in Names : pool[n] # 0 => home[pool[n]] = n
  /\ \A s \in Spots : pool[s] <= made
  /\ Hybrid => pool["gcp"] = Gcp
  /\ \A a \in Actors : sw[a].op \in {"stop", "forward", "store"} => sw[a].to # 0 /\ home[sw[a].to] # "none"

Passing == /\ loop.pc = "rest" => loop = Rest
           /\ loop.pc = "decide" => loop.todo = {}

NoneWell == \A o \in InPool : ~health[o].ok
NobodySwitches == \A a \in Actors : ~Busy(a)

\* In a serial environment one actor runs at a time.
OneAtATime ==
  /\ loop # Rest \/ Busy(0) => CallbacksRest
  /\ \A a, b \in Actors : Busy(a) /\ Busy(b) => a = b
  /\ \A o \in cb : cb = {o} /\ NobodySwitches

\* So what a pass has seen, and what a switch was started for, stays true.
StillTrue ==
  /\ loop # Rest => \A o \in InPool \ loop.todo : health[o].ok => loop.any
  /\ \A a \in Actors : sw[a].op \in {"clear", "page"} => NoneWell

\* In a calm one a switch goes from one place where the modes agree to another.
HalfWay(a) ==
  /\ page # "failed"
  /\ sw[a].op \in {"stop", "forward", "store"} => sw[a].to \in InPool
  /\ sw[a].op \in {"forward", "store"} => page = "off" /\ primary = sw[a].to
  /\ sw[a].op = "store" => https = home[primary] /\ dnat = home[primary]
  /\ sw[a].op = "page" => primary = 0 /\ https = "page" /\ dnat = "none"
Agrees ==
  IF mode = "proxy"
  THEN primary \in InPool \cup cb /\ page = "off" /\ https = home[primary] /\ dnat = home[primary]
  ELSE primary = 0 /\ page = "up" /\ https = "page" /\ dnat = "none"
Settled == (\A a \in Actors : HalfWay(a)) /\ (NobodySwitches => Agrees)

IInv == /\ TypeOK /\ Homes /\ Passing
        /\ setting.serial => OneAtATime /\ StillTrue
        /\ Calm => Settled

---------------------------------------------------------------------------
(* Types, and what the operators do.                                       *)

SwitchState == [op : {"none", "stop", "forward", "store", "clear", "page"}, to : 0 .. Gcp]
LoopState   == [pc : {"rest", "check", "decide", "recover"}, todo : SUBSET (1 .. Gcp),
                any : BOOLEAN, failed : 0 .. Gcp]
HealthState == [ok : BOOLEAN, up : 0 .. UpChecks, down : 0 .. DownChecks]

LEMMA Sizes ==
  /\ Gcp \in Nat /\ Gcp # 0 /\ Gcp \in 1 .. Gcp /\ Gcp \notin Objs /\ 0 \notin Objs
  /\ Objs \subseteq 1 .. Gcp /\ Objs \subseteq Actors /\ 0 \in Actors
  /\ MaxObjs \in Nat /\ \A a \in Actors : a # 0 => a \in Objs
BY FailoverAssumption DEF Gcp, Objs, Actors

LEMMA NamesAre ==
  /\ Spots \subseteq Names /\ "gcp" \notin Spots /\ "none" \notin Names /\ "page" \notin Names
  /\ (Hybrid => "gcp" \in Names) /\ \A n \in Names : n \in Spots \/ (Hybrid /\ n = "gcp")
BY FailoverAssumption DEF Names

LEMMA Typed ==
  ASSUME TypeOK
  PROVE  /\ sw \in [Actors -> SwitchState] /\ loop \in LoopState /\ health \in [1 .. Gcp -> HealthState]
         /\ setting \in Environments /\ InPool \subseteq 1 .. Gcp
<1>1. sw \in [Actors -> SwitchState] /\ loop \in LoopState /\ health \in [1 .. Gcp -> HealthState]
  BY DEF TypeOK, SwitchState, LoopState, HealthState
<1>2. setting \in Environments
  BY FailoverAssumption DEF TypeOK
<1>3. InPool \subseteq 1 .. Gcp
  BY Sizes DEF TypeOK, InPool
<1>4. QED
  BY <1>1, <1>2, <1>3

LEMMA RestTyped == Rest \in LoopState /\ Rest.pc = "rest" /\ Rest.todo = {} /\ Rest.any = FALSE /\ Rest.failed = 0
BY Sizes DEF Rest, LoopState

LEMMA NewTyped == New \in HealthState /\ New.ok = FALSE
BY FailoverAssumption DEF New, HealthState

LEMMA IdleTyped == Idle \in SwitchState /\ Idle.op = "none"
BY Sizes DEF Idle, SwitchState

\* SelectPrimary returns a backend of the pool, or nil if none is healthy.
LEMMA SelectsEffect ==
  ASSUME TypeOK, NEW h, NEW o \in 0 .. Gcp, Selects(h, o)
  PROVE  /\ o # 0 => o \in InPool
         /\ o = 0 => \A b \in InPool : ~h[b].ok
<1> DEFINE well == {b \in InPool : h[b].ok}
<1>1. Gcp \in well \/ well = {} \/ (Gcp \notin well /\ well # {})
  OBVIOUS
<1>2. (Gcp \in well => o = Gcp) /\ (well = {} => o = 0) /\ (Gcp \notin well /\ well # {} => o \in well)
  BY DEF Selects
<1>3. 0 \notin InPool /\ Gcp # 0
  BY Sizes DEF InPool
<1>4. QED
  BY <1>1, <1>2, <1>3

\* An actor starts a switch, goes on with it, or ends it.
LEMMA StartsEffect ==
  ASSUME TypeOK, NEW a \in Actors, NEW op \in {"stop", "clear"}, NEW o \in 0 .. Gcp, Starts(a, op, o)
  PROVE  /\ sw' \in [Actors -> SwitchState] /\ sw'[a].op = op /\ sw'[a].to = o
         /\ \A b \in Actors : b # a => sw'[b] = sw[b]
<1>1. PICK r : r = [op |-> op, to |-> o]
  OBVIOUS
<1>2. r \in SwitchState /\ r.op = op /\ r.to = o
  BY <1>1 DEF SwitchState
<1>3. sw' = [sw EXCEPT ![a] = r]
  BY <1>1 DEF Starts
<1>4. QED
  BY <1>2, <1>3, Typed

LEMMA StepsEffect ==
  ASSUME TypeOK, NEW a \in Actors, NEW op \in {"forward", "store", "page"}, Steps(a, op)
  PROVE  /\ sw' \in [Actors -> SwitchState] /\ sw'[a].op = op /\ sw'[a].to = sw[a].to
         /\ \A b \in Actors : b # a => sw'[b] = sw[b]
BY Typed DEF Steps, SwitchState

LEMMA ReturnsEffect ==
  ASSUME TypeOK, NEW a \in Actors, Returns(a)
  PROVE  /\ sw' \in [Actors -> SwitchState] /\ sw'[a].op = "none"
         /\ \A b \in Actors : b # a => sw'[b] = sw[b]
BY Typed, IdleTyped DEF Returns

\* One health check.
LEMMA CountedTyped ==
  ASSUME NEW h \in HealthState, NEW well
  PROVE  Counted(h, well) \in HealthState
<1>1. h.ok \in BOOLEAN /\ h.up \in 0 .. UpChecks /\ h.down \in 0 .. DownChecks
  BY DEF HealthState
<1>2. Bump(h.up, UpChecks) \in 0 .. UpChecks /\ Bump(h.down, DownChecks) \in 0 .. DownChecks
  BY <1>1, FailoverAssumption DEF Bump
<1>3. 0 \in 0 .. UpChecks /\ 0 \in 0 .. DownChecks
  BY FailoverAssumption
<1>4. CASE well
  <2>1. Counted(h, well) = [ok |-> h.ok \/ Bump(h.up, UpChecks) = UpChecks, up |-> Bump(h.up, UpChecks), down |-> 0]
    BY <1>4 DEF Counted
  <2>2. QED
    BY <2>1, <1>1, <1>2, <1>3 DEF HealthState
<1>5. CASE ~well
  <2>1. Counted(h, well) = [ok |-> h.ok /\ Bump(h.down, DownChecks) # DownChecks, up |-> 0,
                            down |-> Bump(h.down, DownChecks)]
    BY <1>5 DEF Counted
  <2>2. QED
    BY <2>1, <1>1, <1>2, <1>3 DEF HealthState
<1>6. QED
  BY <1>4, <1>5

LEMMA FaultTyped ==
  ASSUME TypeOK, NEW f, Fault(f)
  PROVE  faults' \in 0 .. MaxFaults /\ setting.faults # {}
BY FailoverAssumption DEF TypeOK, Fault

LEMMA PageStarted ==
  ASSUME IInv, Calm
  PROVE  page # "failed"
BY Sizes DEF IInv, Settled, HalfWay

---------------------------------------------------------------------------
(* An actor starts a switch, or none does.                                 *)

\* failoverPrimary or a transition: to a backend of the pool, or to
\* maintenance when none is healthy.
LEMMA SwitchStarts ==
  ASSUME IInv, NEW a \in Actors, NEW o \in 0 .. Gcp,
         (o # 0 /\ Starts(a, "stop", o)) \/ (o = 0 /\ Starts(a, "clear", 0)),
         o # 0 => o \in InPool,
         UNCHANGED <<poolVars, modeVars, setting>>,
         setting.serial => NobodySwitches /\ cb' = {} /\ (o = 0 => NoneWell') /\ (a # 0 => loop' = Rest)
  PROVE  /\ sw' \in [Actors -> SwitchState] /\ Homes'
         /\ setting.serial => OneAtATime' /\ \A b \in Actors : sw'[b].op \in {"clear", "page"} => NoneWell'
         /\ Calm => Settled'
<1> USE DEF IInv
<1>1. PICK op \in {"stop", "clear"} : Starts(a, op, o) /\ (op = "stop" <=> o # 0)
  OBVIOUS
<1>2. /\ sw' \in [Actors -> SwitchState] /\ sw'[a].op = op /\ sw'[a].to = o
      /\ \A b \in Actors : b # a => sw'[b] = sw[b]
  BY <1>1, StartsEffect
<1>3. UNCHANGED <<pool, home, made, primary, mode, https, dnat, page, setting>> /\ InPool' = InPool
  BY DEF poolVars, modeVars, InPool
<1>4. Homes'
  <2>1. o # 0 => home[o] # "none"
    <3>1. \A n \in Names : pool[n] # 0 => home[pool[n]] = n
      BY DEF Homes
    <3>2. QED
      BY <3>1, NamesAre DEF InPool
  <2>2. QED
    BY <1>1, <1>2, <1>3, <2>1 DEF Homes
<1>5. ASSUME setting.serial
      PROVE  OneAtATime' /\ \A b \in Actors : sw'[b].op \in {"clear", "page"} => NoneWell'
  <2>1. NobodySwitches /\ cb' = {}
    BY <1>5
  <2>2. \A b \in Actors : b # a => ~Busy(b)'
    BY <1>2, <2>1 DEF NobodySwitches, Busy
  <2>3. OneAtATime'
    <3>1. CASE a = 0
      BY <2>1, <2>2, <3>1, Sizes DEF OneAtATime, CallbacksRest
    <3>2. CASE a # 0
      <4>1. loop' = Rest /\ ~Busy(0)'
        BY <1>5, <2>2, <3>2, Sizes
      <4>2. QED
        BY <2>1, <2>2, <4>1 DEF OneAtATime
    <3>3. QED
      BY <3>1, <3>2
  <2>4. \A b \in Actors : sw'[b].op \in {"clear", "page"} => NoneWell'
    BY <1>1, <1>2, <1>5, <2>2 DEF Busy
  <2>5. QED
    BY <2>3, <2>4
<1>6. ASSUME Calm PROVE Settled'
  <2>1. \A b \in Actors : b # a => sw'[b].op = "none"
    BY <1>2, <1>6 DEF Calm, NobodySwitches, Busy
  <2>2. HalfWay(a)'
    <3>1. page # "failed"
      BY <1>6, PageStarted
    <3>2. QED
      BY <1>1, <1>2, <1>3, <3>1 DEF HalfWay
  <2>3. \A b \in Actors : HalfWay(b)'
    BY <2>1, <2>2 DEF HalfWay
  <2>4. Busy(a)'
    BY <1>1, <1>2 DEF Busy
  <2>5. QED
    BY <2>3, <2>4 DEF Settled, NobodySwitches
<1>7. QED
  BY <1>2, <1>4, <1>5, <1>6

LEMMA NoSwitchStarts ==
  ASSUME IInv, UNCHANGED <<poolVars, modeVars, sw, setting>>, cb' \subseteq cb,
         setting.serial => \/ loop' = Rest \/ loop # Rest \/ CallbacksRest,
         setting.serial => health' = health \/ NobodySwitches,
         Calm /\ NobodySwitches /\ mode = "proxy" => primary \in InPool \cup cb'
  PROVE  /\ sw' \in [Actors -> SwitchState] /\ Homes'
         /\ setting.serial => OneAtATime' /\ \A b \in Actors : sw'[b].op \in {"clear", "page"} => NoneWell'
         /\ Calm => Settled'
<1> USE DEF IInv
<1>1. /\ UNCHANGED <<pool, home, made, primary, mode, https, dnat, page, sw, setting>> /\ InPool' = InPool
      /\ (NobodySwitches' <=> NobodySwitches) /\ \A a \in Actors : Busy(a)' <=> Busy(a)
  BY DEF poolVars, modeVars, InPool, NobodySwitches, Busy
<1>2. Homes'
  BY <1>1 DEF Homes
<1>3. ASSUME setting.serial
      PROVE  OneAtATime' /\ \A b \in Actors : sw'[b].op \in {"clear", "page"} => NoneWell'
  <2>1. CallbacksRest => CallbacksRest'
    BY <1>1, Sizes DEF CallbacksRest
  <2>2. OneAtATime /\ StillTrue
    BY <1>3
  <2>3. loop' # Rest \/ Busy(0)' => CallbacksRest'
    BY <1>1, <1>3, <2>1, <2>2, Sizes DEF OneAtATime
  <2>4. \A o \in cb' : cb' = {o} /\ NobodySwitches'
    BY <1>1, <2>2 DEF OneAtATime
  <2>5. OneAtATime'
    BY <1>1, <2>2, <2>3, <2>4 DEF OneAtATime
  <2>6. \A b \in Actors : sw'[b].op \in {"clear", "page"} => NoneWell'
    BY <1>1, <1>3, <2>2 DEF StillTrue, NoneWell, NobodySwitches, Busy
  <2>7. QED
    BY <2>5, <2>6
<1>4. ASSUME Calm PROVE Settled'
  <2>1. \A a \in Actors : HalfWay(a)'
    BY <1>1, <1>4 DEF Settled, HalfWay
  <2>2. NobodySwitches' => Agrees'
    BY <1>1, <1>4 DEF Settled, Agrees
  <2>3. QED
    BY <2>1, <2>2 DEF Settled
<1>5. sw' \in [Actors -> SwitchState]
  BY <1>1, Typed
<1>6. QED
  BY <1>2, <1>3, <1>4, <1>5

\* Calm looks at the setting, which stays.
LEMMA SettingKept ==
  ASSUME setting' = setting
  PROVE  Calm' <=> Calm
BY DEF Calm

---------------------------------------------------------------------------
(* The Run loop.                                                           *)

LEMMA Concluding ==
  ASSUME IInv, setting' = setting, TypeOK', Passing', Homes',
         setting.serial => OneAtATime' /\ \A b \in Actors : sw'[b].op \in {"clear", "page"} => NoneWell',
         setting.serial /\ loop' # Rest => \A o \in InPool' \ loop'.todo : health'[o].ok => loop'.any,
         Calm => Settled'
  PROVE  IInv'
<1>1. setting.serial => StillTrue'
  BY DEF StillTrue
<1>2. QED
  BY <1>1, SettingKept DEF IInv

\* In a serial environment nothing else runs while the loop does.
LEMMA LoopAlone ==
  ASSUME IInv, setting.serial, LoopFree, loop # Rest \/ CallbacksRest
  PROVE  CallbacksRest /\ NobodySwitches /\ cb = {}
<1>1. CallbacksRest
  BY DEF IInv, OneAtATime
<1>2. QED
  BY <1>1, Sizes DEF CallbacksRest, LoopFree, NobodySwitches

LEMMA StaysAgreed ==
  ASSUME IInv, Calm, NobodySwitches, mode = "proxy"
  PROVE  primary \in InPool \cup cb
BY DEF IInv, Settled, Agrees

LEMMA TickStep ==
  ASSUME IInv, Tick
  PROVE  IInv'
<1> USE DEF IInv
<1>1. /\ loop = Rest /\ LoopFree /\ (setting.serial => CallbacksRest)
      /\ loop' = [Rest EXCEPT !.pc = "check", !.todo = InPool]
      /\ UNCHANGED <<poolVars, health, modeVars, cb, sw, panicked, envVars, setting>>
  BY DEF Tick
<1>2. loop' \in LoopState /\ loop'.pc = "check" /\ loop'.todo = InPool
  BY <1>1, Typed, RestTyped DEF LoopState
<1>3. /\ sw' \in [Actors -> SwitchState] /\ Homes'
      /\ setting.serial => OneAtATime' /\ \A b \in Actors : sw'[b].op \in {"clear", "page"} => NoneWell'
      /\ Calm => Settled'
  BY <1>1, NoSwitchStarts, StaysAgreed
<1>4. TypeOK'
  BY <1>1, <1>2, <1>3 DEF TypeOK, poolVars, modeVars, envVars, LoopState, SwitchState
<1>5. Passing'
  BY <1>2 DEF Passing
<1>6. \A o \in InPool' \ loop'.todo : health'[o].ok => loop'.any
  BY <1>1, <1>2 DEF InPool, poolVars
<1>7. QED
  BY <1>1, <1>3, <1>4, <1>5, <1>6, Concluding

LEMMA RecoverStep ==
  ASSUME IInv, Recover
  PROVE  IInv'
<1> USE DEF IInv
<1>1. /\ loop.pc = "recover" /\ LoopFree /\ panicked' \in BOOLEAN
      /\ loop' = [loop EXCEPT !.failed = 0, !.pc = IF loop.todo = {} THEN "decide" ELSE "check"]
      /\ UNCHANGED <<poolVars, health, modeVars, cb, sw, envVars, setting>>
  BY DEF Recover
<1>2. loop \in LoopState /\ loop # Rest
  BY <1>1, Typed, RestTyped
<1>3. PICK p \in {"decide", "check"} : p = IF loop.todo = {} THEN "decide" ELSE "check"
  OBVIOUS
<1>4. PICK z \in 0 .. Gcp : z = 0
  BY Sizes
<1>5. loop' \in LoopState /\ loop'.pc = p /\ loop'.todo = loop.todo /\ loop'.any = loop.any
  <2>1. loop' = [loop EXCEPT !.failed = z, !.pc = p]
    BY <1>1, <1>3, <1>4
  <2>2. QED
    BY <1>2, <1>3, <2>1 DEF LoopState
<1>6. /\ sw' \in [Actors -> SwitchState] /\ Homes'
      /\ setting.serial => OneAtATime' /\ \A b \in Actors : sw'[b].op \in {"clear", "page"} => NoneWell'
      /\ Calm => Settled'
  BY <1>1, <1>2, NoSwitchStarts, StaysAgreed
<1>7. TypeOK'
  BY <1>1, <1>5, <1>6 DEF TypeOK, poolVars, modeVars, envVars, LoopState, SwitchState
<1>8. Passing'
  BY <1>3, <1>5 DEF Passing
<1>9. setting.serial /\ loop' # Rest => \A o \in InPool' \ loop'.todo : health'[o].ok => loop'.any
  <2>1. InPool' = InPool /\ health' = health
    BY <1>1 DEF InPool, poolVars
  <2>2. QED
    BY <1>2, <1>5, <2>1 DEF StillTrue
<1>10. QED
  BY <1>1, <1>6, <1>7, <1>8, <1>9, Concluding

LEMMA DecideStep ==
  ASSUME IInv, Decide
  PROVE  IInv'
<1> USE DEF IInv
<1>1. /\ loop.pc = "decide" /\ LoopFree /\ loop' = Rest
      /\ UNCHANGED <<poolVars, health, modeVars, cb, panicked, envVars, setting>>
  BY DEF Decide
<1>2. loop # Rest /\ InPool' = InPool
  BY <1>1, RestTyped DEF InPool, poolVars
<1>3. CASE UNCHANGED sw
  <2>1. /\ sw' \in [Actors -> SwitchState] /\ Homes'
        /\ setting.serial => OneAtATime' /\ \A b \in Actors : sw'[b].op \in {"clear", "page"} => NoneWell'
        /\ Calm => Settled'
    BY <1>1, <1>3, NoSwitchStarts, StaysAgreed
  <2>2. TypeOK' /\ Passing'
    BY <1>1, <2>1, RestTyped DEF TypeOK, poolVars, modeVars, envVars, LoopState, SwitchState, Passing
  <2>3. QED
    BY <1>1, <2>1, <2>2, Concluding
<1>4. ASSUME NEW o \in 0 .. Gcp, (o # 0 /\ Starts(0, "stop", o)) \/ (o = 0 /\ Starts(0, "clear", 0)),
             o # 0 => o \in InPool, setting.serial /\ o = 0 => NoneWell
      PROVE  IInv'
  <2>1. NoneWell => NoneWell'
    BY <1>1, <1>2 DEF NoneWell
  <2>2. setting.serial => NobodySwitches /\ cb' = {}
    BY <1>1, <1>2, LoopAlone
  <2>3. /\ sw' \in [Actors -> SwitchState] /\ Homes'
        /\ setting.serial => OneAtATime' /\ \A b \in Actors : sw'[b].op \in {"clear", "page"} => NoneWell'
        /\ Calm => Settled'
    BY <1>1, <1>4, <2>1, <2>2, Sizes, SwitchStarts
  <2>4. TypeOK' /\ Passing'
    BY <1>1, <2>3, RestTyped DEF TypeOK, poolVars, modeVars, envVars, LoopState, SwitchState, Passing
  <2>5. QED
    BY <1>1, <2>3, <2>4, Concluding
<1>5. CASE loop.any /\ mode = "maintenance"
  <2>1. PICK best \in 0 .. Gcp : Selects(health, best) /\ IF best # 0 THEN Starts(0, "stop", best) ELSE UNCHANGED sw
    BY <1>5 DEF Decide
  <2>2. best # 0 => best \in InPool
    BY <2>1, SelectsEffect
  <2>3. QED
    BY <1>3, <1>4, <2>1, <2>2
<1>6. CASE ~loop.any /\ mode = "proxy"
  <2>1. Starts(0, "clear", 0) /\ 0 \in 0 .. Gcp
    BY <1>6, Sizes DEF Decide
  <2>2. setting.serial => NoneWell
    BY <1>1, <1>2, <1>6 DEF StillTrue, Passing, NoneWell
  <2>3. QED
    BY <1>4, <2>1, <2>2
<1>7. CASE ~(loop.any /\ mode = "maintenance") /\ ~(~loop.any /\ mode = "proxy")
  BY <1>3, <1>7 DEF Decide
<1>8. QED
  BY <1>5, <1>6, <1>7

LEMMA HandleEventStep ==
  ASSUME IInv, HandleEvent
  PROVE  IInv'
<1> USE DEF IInv
<1>1. /\ loop = Rest /\ LoopFree /\ (setting.serial => CallbacksRest) /\ event' = "none"
      /\ UNCHANGED <<poolVars, modeVars, loop, cb, panicked, listens, alive, flaps, faults, setting>>
  BY DEF HandleEvent
<1>2. PICK d : d = IF event = "preempted" THEN 0 ELSE health[Gcp].down
  OBVIOUS
<1>3. health \in [1 .. Gcp -> HealthState] /\ d \in 0 .. DownChecks /\ 0 \in 0 .. UpChecks
  BY <1>2, Typed, Sizes, FailoverAssumption DEF HealthState
<1>4. health' = [health EXCEPT ![Gcp].ok = FALSE, ![Gcp].up = 0, ![Gcp].down = d]
  BY <1>2 DEF HandleEvent
<1>5. health' \in [1 .. Gcp -> HealthState]
  BY <1>3, <1>4, Sizes DEF HealthState
<1>6. health' \in [1 .. Gcp -> HealthState] /\ InPool' = InPool
  BY <1>1, <1>5 DEF InPool, poolVars
<1>7. setting.serial => NobodySwitches /\ cb' = {}
  BY <1>1, LoopAlone
<1>8. ASSUME /\ sw' \in [Actors -> SwitchState] /\ Homes'
             /\ setting.serial => OneAtATime' /\ \A b \in Actors : sw'[b].op \in {"clear", "page"} => NoneWell'
             /\ Calm => Settled'
      PROVE  IInv'
  <2>1. TypeOK' /\ Passing'
    BY <1>1, <1>6, <1>8 DEF TypeOK, poolVars, modeVars, HealthState, SwitchState, Passing
  <2>2. QED
    BY <1>1, <1>8, <2>1, Concluding
<1>9. CASE UNCHANGED sw
  BY <1>1, <1>7, <1>8, <1>9, NoSwitchStarts, StaysAgreed
<1>10. ASSUME NEW o \in 0 .. Gcp, Selects(health', o), Failover(o) PROVE IInv'
  <2>1. (o # 0 => o \in InPool) /\ (o = 0 => NoneWell')
    BY <1>6, <1>10, SelectsEffect DEF NoneWell
  <2>2. (o # 0 /\ Starts(0, "stop", o)) \/ (o = 0 /\ Starts(0, "clear", 0))
    BY <1>10 DEF Failover
  <2>3. QED
    BY <1>1, <1>7, <1>8, <2>1, <2>2, Sizes, SwitchStarts
<1>11. QED
  BY <1>9, <1>10 DEF HandleEvent

LEMMA CheckStep ==
  ASSUME IInv, NEW o \in 1 .. Gcp, Check(o)
  PROVE  IInv'
<1> USE DEF IInv
<1>1. /\ loop.pc = "check" /\ LoopFree /\ o \in loop.todo
      /\ UNCHANGED <<poolVars, modeVars, cb, panicked, envVars, setting>>
  BY DEF Check
<1>2. PICK now : now = Counted(health[o], Answers(home[o]))
  OBVIOUS
<1>3. now \in HealthState /\ now.ok \in BOOLEAN
  <2>1. now \in HealthState
    BY <1>2, CountedTyped, Typed
  <2>2. QED
    BY <2>1 DEF HealthState
<1>4. health' = [health EXCEPT ![o] = now]
  BY <1>2 DEF Check
<1>5. /\ health' \in [1 .. Gcp -> HealthState] /\ health'[o] = now /\ InPool' = InPool
      /\ \A b \in 1 .. Gcp : b # o => health'[b] = health[b]
  BY <1>1, <1>3, <1>4, Typed DEF InPool, poolVars
<1>6. loop \in LoopState /\ loop # Rest
  BY <1>1, Typed, RestTyped
<1>7. setting.serial => NobodySwitches /\ cb' = {}
  BY <1>1, <1>6, LoopAlone
<1>8. ASSUME /\ sw' \in [Actors -> SwitchState] /\ Homes'
             /\ setting.serial => OneAtATime' /\ \A b \in Actors : sw'[b].op \in {"clear", "page"} => NoneWell'
             /\ Calm => Settled',
             loop' \in LoopState, loop'.todo = loop.todo \ {o}, loop'.pc # "rest",
             loop'.pc = "decide" => loop'.todo = {},
             loop.any \/ now.ok => loop'.any
      PROVE  IInv'
  <2>1. TypeOK' /\ Passing'
    BY <1>1, <1>5, <1>8 DEF TypeOK, poolVars, modeVars, envVars, HealthState, LoopState, SwitchState, Passing
  <2>2. setting.serial => \A x \in InPool' \ loop'.todo : health'[x].ok => loop'.any
    BY <1>5, <1>6, <1>8, Typed DEF StillTrue
  <2>3. QED
    BY <1>1, <1>8, <2>1, <2>2, Concluding
<1>9. ASSUME ~now.ok, NEW next \in 0 .. Gcp, Selects(health', next), Failover(next),
             loop' = [loop EXCEPT !.todo = @ \ {o}, !.pc = "recover", !.failed = IF next = 0 THEN o ELSE 0]
      PROVE  IInv'
  <2>1. (next # 0 => next \in InPool) /\ (next = 0 => NoneWell')
    BY <1>5, <1>9, SelectsEffect DEF NoneWell
  <2>2. (next # 0 /\ Starts(0, "stop", next)) \/ (next = 0 /\ Starts(0, "clear", 0))
    BY <1>9 DEF Failover
  <2>3. /\ sw' \in [Actors -> SwitchState] /\ Homes'
        /\ setting.serial => OneAtATime' /\ \A b \in Actors : sw'[b].op \in {"clear", "page"} => NoneWell'
        /\ Calm => Settled'
    BY <1>1, <1>7, <2>1, <2>2, Sizes, SwitchStarts
  <2>4. PICK f \in 0 .. Gcp : f = IF next = 0 THEN o ELSE 0
    BY Sizes
  <2>5. PICK td : td = loop.todo \ {o}
    OBVIOUS
  <2>6. loop' = [loop EXCEPT !.todo = td, !.pc = "recover", !.failed = f]
    BY <1>9, <2>4, <2>5
  <2>7. td \subseteq 1 .. Gcp
    BY <1>6, <2>5 DEF LoopState
  <2>8. loop' \in LoopState /\ loop'.todo = loop.todo \ {o} /\ loop'.pc = "recover" /\ loop'.any = loop.any
    BY <1>6, <2>5, <2>6, <2>7 DEF LoopState
  <2>9. QED
    BY <1>8, <1>9, <2>3, <2>8
<1>10. ASSUME UNCHANGED sw,
              loop' = [loop EXCEPT !.todo = @ \ {o}, !.any = @ \/ now.ok,
                                   !.pc = IF loop.todo = {o} THEN "decide" ELSE "check"]
       PROVE  IInv'
  <2>1. /\ sw' \in [Actors -> SwitchState] /\ Homes'
        /\ setting.serial => OneAtATime' /\ \A b \in Actors : sw'[b].op \in {"clear", "page"} => NoneWell'
        /\ Calm => Settled'
    BY <1>1, <1>6, <1>7, <1>10, NoSwitchStarts, StaysAgreed
  <2>2. PICK p \in {"decide", "check"} : p = IF loop.todo = {o} THEN "decide" ELSE "check"
    OBVIOUS
  <2>3. PICK td : td = loop.todo \ {o}
    OBVIOUS
  <2>4. PICK an \in BOOLEAN : an <=> loop.any \/ now.ok
    OBVIOUS
  <2>5. loop' = [loop EXCEPT !.todo = td, !.any = an, !.pc = p]
    BY <1>10, <2>2, <2>3, <2>4
  <2>6. td \subseteq 1 .. Gcp
    BY <1>6, <2>3 DEF LoopState
  <2>7. loop' \in LoopState /\ loop'.todo = td /\ loop'.pc = p /\ loop'.any = an
    BY <1>6, <2>5, <2>6 DEF LoopState
  <2>8. p = "decide" => td = {}
    BY <2>2, <2>3
  <2>9. QED
    BY <1>8, <2>1, <2>2, <2>3, <2>4, <2>7, <2>8
<1>11. QED
  BY <1>2, <1>9, <1>10 DEF Check

---------------------------------------------------------------------------
(* The steps of a switch.                                                  *)

\* Actor a goes on with its switch, ends it, or fails in it.
LEMMA SwitchGoesOn ==
  ASSUME IInv, NEW a \in Actors, Busy(a),
         sw' \in [Actors -> SwitchState], \A b \in Actors : b # a => sw'[b] = sw[b],
         sw'[a].op \in {"clear", "page"} => sw[a].op \in {"clear", "page"},
         sw'[a].op \in {"stop", "forward", "store"} =>
           sw'[a].to = sw[a].to /\ sw[a].op \in {"stop", "forward", "store"},
         UNCHANGED <<poolVars, health, loop, cb, setting>>,
         TypeOK', Calm => HalfWay(a)' /\ (~Busy(a)' => Agrees')
  PROVE  IInv'
<1> USE DEF IInv
<1>1. UNCHANGED <<pool, home, made, health, loop, cb, setting>> /\ InPool' = InPool
  BY DEF poolVars, InPool
<1>2. Homes'
  BY <1>1 DEF Homes
<1>3. Passing'
  BY <1>1 DEF Passing
<1>4. \A b \in Actors : Busy(b)' => Busy(b)
  BY DEF Busy
<1>5. ASSUME setting.serial PROVE OneAtATime' /\ StillTrue'
  <2>1. OneAtATime /\ StillTrue
    BY <1>5
  <2>2. cb = {}
    BY <2>1 DEF OneAtATime, NobodySwitches
  <2>3. CallbacksRest => CallbacksRest'
    BY <1>1, <1>4, Sizes DEF CallbacksRest
  <2>4. OneAtATime'
    BY <1>1, <1>4, <2>1, <2>2, <2>3, Sizes DEF OneAtATime
  <2>5. NoneWell => NoneWell'
    BY <1>1 DEF NoneWell
  <2>6. StillTrue'
    BY <1>1, <2>1, <2>5 DEF StillTrue
  <2>7. QED
    BY <2>4, <2>6
<1>6. ASSUME Calm PROVE Settled'
  <2>1. \A b \in Actors : b # a => sw'[b].op = "none"
    BY <1>6 DEF Calm, OneAtATime, Busy
  <2>2. \A b \in Actors : HalfWay(b)'
    BY <1>6, <2>1 DEF HalfWay
  <2>3. QED
    BY <1>6, <2>2 DEF Settled, NobodySwitches
<1>7. QED
  BY <1>1, <1>2, <1>3, <1>5, <1>6, SettingKept

\* A switch to a proxy goes to a backend with an address.
LEMMA Target ==
  ASSUME IInv, NEW a \in Actors, sw[a].op \in {"stop", "forward", "store"}
  PROVE  /\ sw[a].to \in 1 .. Gcp /\ home[sw[a].to] \in Names
         /\ sw[a].to \in 0 .. Gcp
<1>1. sw[a].to \in 0 .. Gcp
  BY Typed DEF IInv, SwitchState
<1>2. sw[a].to # 0 /\ home[sw[a].to] # "none"
  BY DEF IInv, Homes
<1>3. sw[a].to \in 1 .. Gcp
  BY <1>1, <1>2, Sizes
<1>4. QED
  BY <1>1, <1>2, <1>3 DEF IInv, TypeOK

LEMMA ProxySteps ==
  ASSUME IInv, NEW a \in Actors, ProxyStop(a) \/ ProxyForward(a) \/ ForwardFails(a) \/ ProxyStore(a)
  PROVE  IInv'
<1> USE DEF IInv
<1>1. UNCHANGED <<poolVars, health, loop, cb, panicked, listens, alive, event, flaps, setting>>
  BY DEF ProxyStop, ProxyForward, ForwardFails, ProxyStore, envVars
<1>2. Calm => HalfWay(a)
  BY DEF Settled
<1>3. UNCHANGED <<pool, home, made>> /\ InPool' = InPool
  BY <1>1 DEF poolVars, InPool
<1>4. Calm => cb = {} \/ ~Busy(a)
  BY DEF Calm, OneAtATime, NobodySwitches
<1>5. CASE ProxyStop(a)
  <2>1. /\ sw[a].op = "stop" /\ page' = "off" /\ primary' = sw[a].to /\ Steps(a, "forward")
        /\ UNCHANGED <<mode, https, dnat, faults>>
    BY <1>5 DEF ProxyStop, envVars
  <2>2. /\ sw' \in [Actors -> SwitchState] /\ sw'[a].op = "forward" /\ sw'[a].to = sw[a].to
        /\ \A b \in Actors : b # a => sw'[b] = sw[b]
    BY <2>1, StepsEffect
  <2>3. TypeOK'
    BY <1>1, <2>1, <2>2, Target DEF TypeOK, poolVars, SwitchState
  <2>4. Calm => HalfWay(a)'
    BY <1>2, <1>3, <2>1, <2>2 DEF HalfWay
  <2>5. Busy(a) /\ Busy(a)'
    BY <2>1, <2>2 DEF Busy
  <2>6. QED
    BY <1>1, <2>1, <2>2, <2>3, <2>4, <2>5, SwitchGoesOn
<1>6. CASE ProxyForward(a)
  <2>1. /\ sw[a].op = "forward" /\ https' = home[sw[a].to] /\ dnat' = home[sw[a].to] /\ Steps(a, "store")
        /\ UNCHANGED <<primary, mode, page, faults>>
    BY <1>6 DEF ProxyForward, envVars
  <2>2. /\ sw' \in [Actors -> SwitchState] /\ sw'[a].op = "store" /\ sw'[a].to = sw[a].to
        /\ \A b \in Actors : b # a => sw'[b] = sw[b]
    BY <2>1, StepsEffect
  <2>3. TypeOK'
    BY <1>1, <2>1, <2>2, Target DEF TypeOK, poolVars, SwitchState
  <2>4. Calm => HalfWay(a)'
    BY <1>2, <1>3, <2>1, <2>2 DEF HalfWay
  <2>5. Busy(a) /\ Busy(a)'
    BY <2>1, <2>2 DEF Busy
  <2>6. QED
    BY <1>1, <2>1, <2>2, <2>3, <2>4, <2>5, SwitchGoesOn
<1>7. CASE ForwardFails(a)
  <2>1. /\ sw[a].op = "forward" /\ Fault("forwarding") /\ https' = home[sw[a].to]
        /\ dnat' \in {dnat, "none", home[sw[a].to]} /\ Returns(a)
        /\ UNCHANGED <<primary, mode, page>>
    BY <1>7 DEF ForwardFails
  <2>2. /\ sw' \in [Actors -> SwitchState] /\ sw'[a].op = "none"
        /\ \A b \in Actors : b # a => sw'[b] = sw[b]
    BY <2>1, ReturnsEffect
  <2>3. faults' \in 0 .. MaxFaults /\ ~Calm
    BY <2>1, FaultTyped DEF Calm
  <2>4. TypeOK'
    <3>1. https' \in Names \cup {"page"} /\ dnat' \in Names \cup {"none"}
      BY <2>1, Target DEF TypeOK
    <3>2. QED
      BY <1>1, <2>1, <2>2, <2>3, <3>1 DEF TypeOK, poolVars, SwitchState
  <2>5. Busy(a)
    BY <2>1 DEF Busy
  <2>6. QED
    BY <1>1, <2>2, <2>3, <2>4, <2>5, SwitchGoesOn
<1>8. CASE ProxyStore(a)
  <2>1. /\ sw[a].op = "store" /\ mode' = "proxy" /\ Returns(a)
        /\ UNCHANGED <<primary, https, dnat, page, faults>>
    BY <1>8 DEF ProxyStore, envVars
  <2>2. /\ sw' \in [Actors -> SwitchState] /\ sw'[a].op = "none"
        /\ \A b \in Actors : b # a => sw'[b] = sw[b]
    BY <2>1, ReturnsEffect
  <2>3. TypeOK'
    BY <1>1, <2>1, <2>2 DEF TypeOK, poolVars, SwitchState
  <2>4. Calm => HalfWay(a)' /\ Agrees'
    BY <1>2, <1>3, <2>1, <2>2 DEF HalfWay, Agrees
  <2>5. Busy(a)
    BY <2>1 DEF Busy
  <2>6. QED
    BY <1>1, <2>2, <2>3, <2>4, <2>5, SwitchGoesOn
<1>9. QED
  BY <1>5, <1>6, <1>7, <1>8

LEMMA MaintenanceSteps ==
  ASSUME IInv, NEW a \in Actors, MaintenanceClear(a) \/ MaintenancePage(a) \/ PageFails(a)
  PROVE  IInv'
<1> USE DEF IInv
<1>1. UNCHANGED <<poolVars, health, loop, cb, panicked, listens, alive, event, flaps, setting>>
  BY DEF MaintenanceClear, MaintenancePage, PageFails, envVars
<1>2. Calm => HalfWay(a)
  BY DEF Settled
<1>3. CASE MaintenanceClear(a)
  <2>1. /\ sw[a].op = "clear" /\ dnat' = "none" /\ primary' = 0 /\ https' = "page" /\ Steps(a, "page")
        /\ UNCHANGED <<mode, page, faults>>
    BY <1>3 DEF MaintenanceClear, envVars
  <2>2. /\ sw' \in [Actors -> SwitchState] /\ sw'[a].op = "page"
        /\ \A b \in Actors : b # a => sw'[b] = sw[b]
    BY <2>1, StepsEffect
  <2>3. TypeOK'
    <3>1. primary' \in 0 .. Gcp /\ https' \in Names \cup {"page"} /\ dnat' \in Names \cup {"none"}
      BY <2>1, Sizes
    <3>2. QED
      BY <1>1, <2>1, <2>2, <3>1 DEF TypeOK, poolVars, SwitchState
  <2>4. Calm => HalfWay(a)'
    BY <2>1, <2>2, PageStarted DEF HalfWay
  <2>5. Busy(a) /\ Busy(a)'
    BY <2>1, <2>2 DEF Busy
  <2>6. QED
    BY <1>1, <2>1, <2>2, <2>3, <2>4, <2>5, SwitchGoesOn
<1>4. CASE MaintenancePage(a)
  <2>1. /\ sw[a].op = "page" /\ page' = (IF page = "off" THEN "up" ELSE page) /\ mode' = "maintenance" /\ Returns(a)
        /\ UNCHANGED <<primary, https, dnat, faults>>
    BY <1>4 DEF MaintenancePage, envVars
  <2>2. /\ sw' \in [Actors -> SwitchState] /\ sw'[a].op = "none"
        /\ \A b \in Actors : b # a => sw'[b] = sw[b]
    BY <2>1, ReturnsEffect
  <2>3. page \in {"off", "up", "failed"} /\ page' \in {"off", "up", "failed"} /\ (Calm => page' = "up" /\ page # "failed")
    BY <2>1, PageStarted DEF TypeOK
  <2>4. TypeOK'
    BY <1>1, <2>1, <2>2, <2>3 DEF TypeOK, poolVars, SwitchState
  <2>5. Calm => HalfWay(a)' /\ Agrees'
    BY <1>2, <2>1, <2>2, <2>3 DEF HalfWay, Agrees
  <2>6. Busy(a)
    BY <2>1 DEF Busy
  <2>7. QED
    BY <1>1, <2>2, <2>4, <2>5, <2>6, SwitchGoesOn
<1>5. CASE PageFails(a)
  <2>1. /\ sw[a].op = "page" /\ Fault("page") /\ Returns(a)
        /\ page' = "failed" /\ mode' = "maintenance" /\ UNCHANGED <<primary, https, dnat>>
    BY <1>5 DEF PageFails
  <2>2. /\ sw' \in [Actors -> SwitchState] /\ sw'[a].op = "none"
        /\ \A b \in Actors : b # a => sw'[b] = sw[b]
    BY <2>1, ReturnsEffect
  <2>3. faults' \in 0 .. MaxFaults /\ ~Calm
    BY <2>1, FaultTyped DEF Calm
  <2>4. TypeOK'
    BY <1>1, <2>1, <2>2, <2>3 DEF TypeOK, poolVars, modeVars, SwitchState
  <2>5. Busy(a)
    BY <2>1 DEF Busy
  <2>6. QED
    BY <1>1, <2>2, <2>3, <2>4, <2>5, SwitchGoesOn
<1>6. QED
  BY <1>3, <1>4, <1>5

---------------------------------------------------------------------------
(* The callbacks and the environment.                                      *)

LEMMA ConnectStep ==
  ASSUME IInv, NEW s \in Spots, OnTunnelConnect(s)
  PROVE  IInv'
<1> USE DEF IInv
<1>1. /\ made < setting.objs /\ (setting.supersedes \/ pool[s] = 0) /\ (setting.serial => LoopRests)
      /\ UNCHANGED <<health, modeVars, loop, cb, sw, panicked, alive, event, flaps, setting>>
  BY DEF OnTunnelConnect
<1>2. PICK m : m = made + 1
  OBVIOUS
<1>3. m \in Objs /\ m \in 1 .. Gcp /\ m # Gcp /\ made \in Nat /\ m \in 0 .. MaxObjs /\ ~(m <= made)
  <2>1. setting.objs \in 0 .. MaxObjs /\ made \in 0 .. MaxObjs
    BY Typed DEF Environments, TypeOK
  <2>2. QED
    BY <1>1, <1>2, <2>1, FailoverAssumption DEF Objs, Gcp
<1>4. /\ made' = m /\ pool' = [pool EXCEPT ![s] = m] /\ home' = [home EXCEPT ![m] = s]
      /\ listens' = [listens EXCEPT ![s] = TRUE] \/ listens' = [listens EXCEPT ![s] = FALSE]
      /\ UNCHANGED faults \/ Fault("listen")
  BY <1>2 DEF OnTunnelConnect
<1>5. /\ pool \in [Names -> 0 .. Gcp] /\ home \in [1 .. Gcp -> Names \cup {"none"}]
      /\ listens \in [Spots -> BOOLEAN] /\ s \in Names /\ faults \in 0 .. MaxFaults
  BY NamesAre DEF TypeOK
<1>6. /\ pool' \in [Names -> 0 .. Gcp] /\ home' \in [1 .. Gcp -> Names \cup {"none"}]
      /\ listens' \in [Spots -> BOOLEAN] /\ made' \in 0 .. MaxObjs /\ faults' \in 0 .. MaxFaults
  <2>1. faults' \in 0 .. MaxFaults
    BY <1>4, <1>5, FaultTyped
  <2>2. listens' \in [Spots -> BOOLEAN]
    BY <1>4, <1>5
  <2>3. pool' \in [Names -> 0 .. Gcp]
    BY <1>3, <1>4, <1>5, Sizes
  <2>4. home' \in [1 .. Gcp -> Names \cup {"none"}]
    BY <1>4, <1>5
  <2>5. QED
    BY <1>3, <1>4, <2>1, <2>2, <2>3, <2>4
<1>7. TypeOK'
  BY <1>1, <1>6 DEF TypeOK, modeVars
<1>8. /\ pool'[s] = m /\ \A n \in Names : n # s => pool'[n] = pool[n]
      /\ home'[m] = s /\ \A o \in 1 .. Gcp : o # m => home'[o] = home[o]
  BY <1>3, <1>4, <1>5
<1>9. \A n \in Names : pool[n] # m
  BY <1>3, NamesAre DEF Homes
<1>10. Homes'
  <2>1. \A n \in Names : pool'[n] # 0 => home'[pool'[n]] = n
    <3>1. \A n \in Names : pool[n] # 0 => pool[n] \in 1 .. Gcp
      BY <1>5, Sizes
    <3>2. QED
      BY <1>8, <1>9, <3>1 DEF Homes
  <2>2. \A r \in Spots : pool'[r] <= made'
    <3>1. \A r \in Spots : pool[r] <= made /\ pool[r] \in Nat /\ r \in Names
      BY <1>5, NamesAre, Sizes DEF Homes
    <3>2. QED
      BY <1>2, <1>3, <1>4, <1>8, <3>1
  <2>3. Hybrid => pool'["gcp"] = Gcp
    BY <1>8, NamesAre DEF Homes
  <2>4. \A a \in Actors : sw'[a].op \in {"stop", "forward", "store"} => sw'[a].to # 0 /\ home'[sw'[a].to] # "none"
    BY <1>1, <1>5, <1>8, NamesAre, Target
  <2>5. QED
    BY <2>1, <2>2, <2>3, <2>4 DEF Homes
<1>11. Passing'
  BY <1>1 DEF Passing
<1>12. ASSUME setting.serial PROVE OneAtATime' /\ StillTrue' /\ NobodySwitches /\ cb = {}
  <2>1. loop' = Rest /\ cb' = {} /\ \A a \in Actors : ~Busy(a)' /\ ~Busy(a)
    BY <1>1, <1>12, Sizes DEF LoopRests, CallbacksRest, Busy
  <2>2. \A a \in Actors : sw'[a].op = "none"
    BY <2>1 DEF Busy
  <2>3. QED
    BY <1>1, <2>1, <2>2, Sizes DEF OneAtATime, StillTrue, NobodySwitches
<1>13. ASSUME Calm PROVE Settled'
  <2>1. NobodySwitches /\ cb = {} /\ Agrees /\ pool[s] = 0
    BY <1>1, <1>12, <1>13 DEF Calm, Settled
  <2>2. \A a \in Actors : HalfWay(a)'
    BY <1>1, <2>1, <1>13, PageStarted DEF NobodySwitches, Busy, HalfWay, modeVars
  <2>3. \A x \in InPool : x \in InPool' /\ home'[x] = home[x]
    <3>1. \A n \in Names : pool[n] # 0 => n # s
      BY <2>1
    <3>2. \A x \in InPool : x # m /\ x \in 1 .. Gcp
      BY <1>9, Typed DEF InPool
    <3>3. QED
      BY <1>8, <3>1, <3>2 DEF InPool
  <2>4. Agrees'
    BY <1>1, <2>1, <2>3 DEF Agrees, modeVars
  <2>5. QED
    BY <2>2, <2>4 DEF Settled
<1>14. QED
  BY <1>1, <1>7, <1>10, <1>11, <1>12, <1>13, SettingKept

LEMMA DisconnectStep ==
  ASSUME IInv, NEW s \in Spots, OnTunnelDisconnect(s)
  PROVE  IInv'
<1> USE DEF IInv
<1>1. /\ pool[s] # 0 /\ (setting.serial => LoopRests) /\ cb' = cb \cup {pool[s]}
      /\ pool' = [pool EXCEPT ![s] = 0] 
      /\ UNCHANGED <<home, made, health, modeVars, loop, sw, panicked, envVars, setting>>
  BY DEF OnTunnelDisconnect
<1>2. pool \in [Names -> 0 .. Gcp] /\ s \in Names
  BY NamesAre DEF TypeOK
<1>3. pool[s] \in Objs
  <2>1. pool[s] <= made /\ made \in 0 .. MaxObjs /\ pool[s] \in 0 .. Gcp
    BY <1>2 DEF Homes, TypeOK
  <2>2. QED
    BY <1>1, <2>1, Sizes DEF Objs
<1>4. pool' \in [Names -> 0 .. Gcp] /\ cb' \subseteq Objs
  <2>1. 0 \in 0 .. Gcp
    BY Sizes
  <2>2. pool' \in [Names -> 0 .. Gcp]
    BY <1>1, <1>2, <2>1
  <2>3. cb' \subseteq Objs
    BY <1>1, <1>3 DEF TypeOK
  <2>4. QED
    BY <2>2, <2>3
<1>5. TypeOK'
  BY <1>1, <1>4 DEF TypeOK, modeVars, envVars
<1>6. pool'[s] = 0 /\ \A n \in Names : n # s => pool'[n] = pool[n]
  BY <1>1, <1>2
<1>7. Homes'
  <2>1. made \in Nat /\ \A r \in Spots : r \in Names
    BY NamesAre, Sizes DEF TypeOK
  <2>2. \A r \in Spots : pool'[r] <= made
    BY <1>6, <2>1 DEF Homes
  <2>3. QED
    BY <1>1, <1>6, <2>2, NamesAre DEF Homes
<1>8. Passing'
  BY <1>1 DEF Passing
<1>9. ASSUME setting.serial PROVE OneAtATime' /\ StillTrue' /\ NobodySwitches /\ cb = {}
  <2>1. loop' = Rest /\ cb = {} /\ \A a \in Actors : ~Busy(a)' /\ ~Busy(a)
    BY <1>1, <1>9, Sizes DEF LoopRests, CallbacksRest, Busy
  <2>2. \A a \in Actors : sw'[a].op = "none"
    BY <2>1 DEF Busy
  <2>3. QED
    BY <1>1, <2>1, <2>2, Sizes DEF OneAtATime, StillTrue, NobodySwitches
<1>10. ASSUME Calm PROVE Settled'
  <2>1. NobodySwitches /\ cb = {} /\ Agrees
    BY <1>9, <1>10 DEF Calm, Settled
  <2>2. \A a \in Actors : HalfWay(a)'
    BY <1>1, <2>1, <1>10, PageStarted DEF NobodySwitches, Busy, HalfWay, modeVars
  <2>3. \A x \in InPool : x \in InPool' \cup cb'
    BY <1>1, <1>6 DEF InPool
  <2>4. Agrees'
    BY <1>1, <2>1, <2>3 DEF Agrees, modeVars
  <2>5. QED
    BY <2>2, <2>4 DEF Settled
<1>11. QED
  BY <1>1, <1>5, <1>7, <1>8, <1>9, <1>10, SettingKept

LEMMA AfterDisconnectStep ==
  ASSUME IInv, NEW o \in Objs, AfterDisconnect(o)
  PROVE  IInv'
<1> USE DEF IInv
<1>1. /\ o \in cb /\ cb' = cb \ {o}
      /\ UNCHANGED <<poolVars, health, modeVars, loop, panicked, envVars, setting>>
  BY DEF AfterDisconnect
<1>2. setting.serial => cb' = {} /\ NobodySwitches /\ loop = Rest
  BY <1>1 DEF OneAtATime, CallbacksRest
<1>3. InPool' = InPool
  BY <1>1 DEF poolVars, InPool
<1>4. ASSUME /\ sw' \in [Actors -> SwitchState] /\ Homes'
             /\ setting.serial => OneAtATime' /\ \A b \in Actors : sw'[b].op \in {"clear", "page"} => NoneWell'
             /\ Calm => Settled'
      PROVE  IInv'
  <2>1. TypeOK' /\ Passing'
    BY <1>1, <1>4 DEF TypeOK, poolVars, modeVars, envVars, SwitchState, Passing
  <2>2. QED
    BY <1>1, <1>2, <1>4, <2>1, Concluding
<1>5. CASE primary = o /\ mode = "proxy"
  <2>1. PICK next \in 0 .. Gcp :
          /\ Selects(health, next)
          /\ IF next # 0 THEN Starts(o, "stop", next) ELSE Starts(o, "clear", 0)
    BY <1>5 DEF AfterDisconnect
  <2>2. (next # 0 => next \in InPool) /\ (next = 0 => NoneWell')
    BY <1>1, <1>3, <2>1, SelectsEffect DEF NoneWell
  <2>3. o \in Actors /\ o # 0
    BY Sizes
  <2>4. QED
    BY <1>1, <1>2, <1>4, <2>1, <2>2, <2>3, SwitchStarts
<1>6. CASE ~(primary = o /\ mode = "proxy")
  <2>1. UNCHANGED sw
    BY <1>6 DEF AfterDisconnect
  <2>2. Calm /\ NobodySwitches /\ mode = "proxy" => primary \in InPool \cup cb'
    BY <1>1, <1>6, StaysAgreed
  <2>3. QED
    BY <1>1, <1>2, <1>4, <2>1, <2>2, NoSwitchStarts
<1>7. QED
  BY <1>5, <1>6

LEMMA OutsideStep ==
  ASSUME IInv, TypeOK',
         UNCHANGED <<pool, home, made, health, primary, mode, https, dnat, page, loop, cb, sw, setting>>
  PROVE  IInv'
BY DEF IInv, Homes, Passing, OneAtATime, StillTrue, Settled, HalfWay, Agrees, NoneWell, NobodySwitches,
       Busy, CallbacksRest, InPool, Calm

LEMMA ListenerClosesStep ==
  ASSUME IInv, NEW s \in Spots, ListenerCloses(s)
  PROVE  IInv'
<1>1. /\ listens' = [listens EXCEPT ![s] = FALSE]
      /\ UNCHANGED <<poolVars, health, modeVars, loop, cb, sw, panicked, alive, event, flaps, faults, setting>>
  BY DEF ListenerCloses
<1>2. TypeOK'
  BY <1>1 DEF IInv, TypeOK, poolVars, modeVars
<1>3. QED
  BY <1>1, <1>2, OutsideStep DEF poolVars, modeVars

LEMMA FlapStep ==
  ASSUME IInv, NEW n \in Names, Flap(n)
  PROVE  IInv'
<1> USE DEF IInv
<1>1. /\ flaps < setting.flaps /\ flaps' = flaps + 1 /\ alive' = [alive EXCEPT ![n] = ~@]
      /\ event' \in {event, "preempted", "stopped"}
      /\ UNCHANGED <<poolVars, health, modeVars, loop, cb, sw, panicked, listens, faults, setting>>
  BY DEF Flap
<1>2. flaps' \in 0 .. MaxFlaps
  <2>1. setting.flaps \in 0 .. MaxFlaps /\ flaps \in 0 .. MaxFlaps
    BY Typed DEF Environments, TypeOK
  <2>2. QED
    BY <1>1, <2>1, FailoverAssumption
<1>3. alive' \in [Names -> BOOLEAN]
  BY <1>1 DEF TypeOK
<1>4. TypeOK'
  BY <1>1, <1>2, <1>3 DEF TypeOK, poolVars, modeVars
<1>5. QED
  BY <1>1, <1>4, OutsideStep DEF poolVars, modeVars

---------------------------------------------------------------------------
(* Theorems.                                                               *)

LEMMA IInvInit == Init => IInv
<1> SUFFICES ASSUME Init PROVE IInv
  OBVIOUS
<1> USE DEF Init
<1>1. TypeOK
  <2>1. /\ pool \in [Names -> 0 .. Gcp] /\ home \in [1 .. Gcp -> Names \cup {"none"}]
        /\ listens \in [Spots -> BOOLEAN] /\ alive \in [Names -> BOOLEAN]
    BY Sizes, NamesAre
  <2>2. health \in [1 .. Gcp -> HealthState] /\ sw \in [Actors -> SwitchState] /\ loop \in LoopState
    BY NewTyped, IdleTyped, RestTyped
  <2>3. 0 \in 0 .. Gcp /\ 0 \in 0 .. MaxObjs /\ 0 \in 0 .. MaxFlaps /\ 0 \in 0 .. MaxFaults
    BY Sizes, FailoverAssumption
  <2>4. QED
    BY <2>1, <2>2, <2>3 DEF TypeOK, HealthState, SwitchState, LoopState
<1>2. \A a \in Actors : sw[a].op = "none" /\ ~Busy(a)
  BY IdleTyped DEF Busy
<1>3. Homes
  <2>1. \A s \in Spots : pool[s] = 0 /\ s \in Names
    BY NamesAre
  <2>2. \A n \in Names : pool[n] # 0 => n = "gcp" /\ Hybrid /\ pool[n] = Gcp
    BY NamesAre
  <2>3. Hybrid => home[Gcp] = "gcp" /\ pool["gcp"] = Gcp
    BY Sizes, NamesAre
  <2>4. \A s \in Spots : pool[s] <= made
    BY <2>1
  <2>5. \A n \in Names : pool[n] # 0 => home[pool[n]] = n
    BY <2>2, <2>3
  <2>6. QED
    BY <1>2, <2>3, <2>4, <2>5 DEF Homes
<1>4. Passing
  BY RestTyped DEF Passing
<1>5. OneAtATime /\ StillTrue
  BY <1>2, Sizes DEF OneAtATime, StillTrue
<1>6. Settled
  BY <1>2 DEF Settled, HalfWay, Agrees
<1>7. QED
  BY <1>1, <1>3, <1>4, <1>5, <1>6 DEF IInv

LEMMA IInvNext == IInv /\ [Next]_vars => IInv'
<1> SUFFICES ASSUME IInv, [Next]_vars PROVE IInv'
  OBVIOUS
<1>1. CASE Tick \/ Recover \/ Decide \/ HandleEvent
  BY <1>1, TickStep, RecoverStep, DecideStep, HandleEventStep
<1>2. ASSUME NEW o \in 1 .. Gcp, Check(o) PROVE IInv'
  BY <1>2, CheckStep
<1>3. ASSUME NEW a \in Actors, Switch(a) \/ SwitchFails(a) PROVE IInv'
  BY <1>3, ProxySteps, MaintenanceSteps DEF Switch, SwitchFails
<1>4. ASSUME NEW s \in Spots, OnTunnelConnect(s) \/ ListenerCloses(s) \/ OnTunnelDisconnect(s) PROVE IInv'
  BY <1>4, ConnectStep, ListenerClosesStep, DisconnectStep
<1>5. ASSUME NEW o \in Objs, AfterDisconnect(o) PROVE IInv'
  BY <1>5, AfterDisconnectStep
<1>6. ASSUME NEW n \in Names, Flap(n) PROVE IInv'
  BY <1>6, FlapStep
<1>7. CASE UNCHANGED vars
  <2>1. TypeOK'
    BY <1>7 DEF IInv, TypeOK, vars, poolVars, modeVars, envVars
  <2>2. QED
    BY <1>7, <2>1, OutsideStep DEF vars, poolVars, modeVars
<1>8. QED
  BY <1>1, <1>2, <1>3, <1>4, <1>5, <1>6, <1>7 DEF Next

LEMMA IInvAlways == Spec => []IInv
BY IInvInit, IInvNext, PTL DEF Spec

\* Pointers point to objects, health counters stay within their thresholds
\* and each actor is at a step of a switch, whatever overlaps or fails: in
\* particular a switch never forwards to a backend without an address.
THEOREM FailoverTypeCorrect == Spec => []TypeOK
<1>1. IInv => TypeOK
  BY DEF IInv
<1>2. QED
  BY <1>1, IInvAlways, PTL

\* Between two passes the mode, m.primary, the HTTPS proxy, the DNAT rules
\* and the maintenance page agree, and the primary is a backend of the pool,
\* when callbacks do not overlap passes and switches succeed (switchToProxy,
\* switchToMaintenance, OnTunnelDisconnect).
THEOREM ModesAlwaysAgree == Spec => []ModesAgree
<1>1. IInv => ModesAgree
  BY Sizes DEF IInv, ModesAgree, Settled, Agrees, Quiet, LoopRests, CallbacksRest, NobodySwitches
<1>2. QED
  BY <1>1, IInvAlways, PTL

\* The maintenance page replaces a proxy only when no backend of the pool is
\* healthy: what failoverPrimary, the end of healthCheckAll and
\* OnTunnelDisconnect saw is still so when switchToMaintenance stores the
\* mode, also when switches fail and tunnels are replaced, as long as
\* callbacks do not overlap passes.
THEOREM MaintenanceOnlyAsLastResort == Spec => MaintenanceIsLastResort
<1>1. IInv /\ [Next]_vars =>
        [setting.serial /\ mode = "proxy" /\ mode' = "maintenance" => \A o \in InPool : ~health[o].ok]_vars
  <2> SUFFICES ASSUME IInv, [Next]_vars, setting.serial, mode = "proxy", mode' = "maintenance"
               PROVE  \A o \in InPool : ~health[o].ok
    OBVIOUS
  <2>1. PICK a \in Actors : MaintenancePage(a) \/ PageFails(a)
    <3>1. mode' # mode
      OBVIOUS
    <3>2. CASE UNCHANGED vars
      BY <3>1, <3>2 DEF vars, modeVars
    <3>3. CASE \/ Tick \/ Recover \/ Decide \/ HandleEvent
               \/ \E o \in 1 .. Gcp : Check(o)
               \/ \E s \in Spots : OnTunnelConnect(s) \/ ListenerCloses(s) \/ OnTunnelDisconnect(s)
               \/ \E o \in Objs : AfterDisconnect(o)
               \/ \E n \in Names : Flap(n)
      <4>1. UNCHANGED modeVars
        BY <3>3 DEF Tick, Recover, Decide, HandleEvent, Check, OnTunnelConnect, ListenerCloses,
                    OnTunnelDisconnect, AfterDisconnect, Flap
      <4>2. QED
        BY <3>1, <4>1 DEF modeVars
    <3>4. ASSUME NEW b \in Actors, Switch(b) \/ SwitchFails(b) PROVE MaintenancePage(b) \/ PageFails(b)
      BY <3>1, <3>4 DEF Switch, SwitchFails, ProxyStop, ProxyForward, ForwardFails, ProxyStore,
                        MaintenanceClear
    <3>5. QED
      BY <3>2, <3>3, <3>4 DEF Next
  <2>2. sw[a].op = "page" /\ StillTrue
    BY <2>1 DEF MaintenancePage, PageFails, IInv
  <2>3. QED
    BY <2>2 DEF StillTrue, NoneWell
<1>2. QED
  BY <1>1, IInvAlways, PTL DEF Spec, MaintenanceIsLastResort

=============================================================================
