-------------------------- MODULE TrackerDispatch --------------------------
(***************************************************************************)
(* The issue-triggered agent dispatcher of one tracker connection          *)
(* (internal/tracker/dispatch*.go with its production run starter,         *)
(* internal/server/tracker_dispatch_*.go).                                 *)
(*                                                                         *)
(* A tick is an RPC; several may run at once and any may be cancelled at   *)
(* any moment.  It sweeps stuck rows, lists the open issues and, for each  *)
(* dispatchable one, inserts a row, re-reads the issue, labels it, then    *)
(* provisions and launches a run.  A launched run goes on in a goroutine   *)
(* of its own and reports its end.  Sweeps, ticks, runs and humans meet on *)
(* the row (the store, atomic statements) and on the issue's labels (the   *)
(* forge, no transactions).  One action is one store or forge call         *)
(* together with the local code up to the next one.                        *)
(***************************************************************************)
EXTENDS RunLeases

CONSTANTS Ticks,       \* tick RPCs that may be in flight together
          Routed,      \* scopes with a route to a skill
          TooDeep,     \* issues whose lineage depth exceeds max_depth
          Timeout,     \* the policy's run_timeout
          Grace,       \* DefaultLeaseLostGrace
          Budget,      \* age a row may reach inside a bounded bookkeeping step
          Faults,      \* which faults this instance may suffer
          Humans,      \* which human edits of an issue this instance allows
          MaxCrashes,  \* bound on daemon restarts
          NoRow

FaultKinds == {"store", "forge", "lease", "cancel", "provision"}
HumanKinds == {"scope", "rerun", "gate", "close"}

ASSUME DispatchAssumption ==
  /\ Routed \subseteq Scopes
  /\ TooDeep \subseteq Issues
  /\ Timeout \in 1..MaxAge /\ Grace \in 1..MaxAge
  /\ Budget \in Nat /\ Budget < Grace  \* 30s per bookkeeping call, 5min grace
  /\ Faults \subseteq FaultKinds
  /\ Humans \subseteq HumanKinds
  /\ MaxCrashes \in Nat
  /\ NoRow \notin Rows

VARIABLES
  forge,      \* [Issues -> IssueState], the issue as the forge shows it
  posted,     \* [Issues \X Scopes -> 0..2], unrouted-scope warnings the
              \* forge took and acknowledged
  lost,       \* <<issue, scope>> of which the forge took a warning whose
              \* reply never came
  agent,      \* [Rows -> AgentStates], finishDispatchedRun's goroutine
  outcome,    \* [Rows -> {"ok", "err"}], what it will report
  observed,   \* [Rows -> 0..2], DispatchEnded events emitted
  pc,         \* [Ticks -> TickStates]
  cancelled,  \* ticks whose context is cancelled
  phase,      \* [Ticks -> ActiveStates], the state whose rows are swept
  toSweep,    \* [Ticks -> SUBSET Rows], listed rows not looked at yet
  why,        \* [Ticks -> Causes], the sweep's verdict on cur
  snap,       \* [Ticks -> [Issues -> SUBSET Scopes]], listed issues to do
  iss,        \* [Ticks -> Issues], the issue the tick is working on
  cur,        \* [Ticks -> Rows or NoRow], the row the tick is working on
  crashes

forgeVars == <<forge, posted, lost>>
runVars   == <<agent, outcome, observed>>
tickVars  == <<pc, cancelled, phase, toSweep, why, snap, iss, cur>>
vars      == <<storeVars, forgeVars, leaseVars, runVars, tickVars, crashes>>

StateLabels == {"queued", "running", "done", "failed"}
IssueState  == [open : BOOLEAN, gate : BOOLEAN, scopes : SUBSET Scopes, state : SUBSET StateLabels]
AgentStates == {"none", "working", "leaseEnd", "report", "project", "untrack", "over"}
TickStates  == {"idle", "listRows", "sweep", "failSwept", "endLease", "sweepProject", "list",
                "issue", "scan", "warnPost", "warnForget", "insert", "reread", "abandon", "label",
                "labelled", "provision", "seed", "runStarted", "projectRunning", "tearDown",
                "failStart", "failProject"}

\* The steps of a tick that work on the row cur.
RowSteps == {"failSwept", "endLease", "sweepProject", "reread", "abandon", "label", "labelled",
             "provision", "seed", "runStarted", "projectRunning", "tearDown",
             "failStart", "failProject"}

ForgeTypeOK ==
  /\ forge \in [Issues -> IssueState]
  /\ posted \in [Issues \X Scopes -> 0..2]
  /\ lost \subseteq Issues \X Scopes

RunTypeOK ==
  /\ agent \in [Rows -> AgentStates]
  /\ outcome \in [Rows -> {"ok", "err"}]
  /\ observed \in [Rows -> 0..2]

TickTypeOK ==
  /\ pc \in [Ticks -> TickStates]
  /\ cancelled \subseteq Ticks
  /\ phase \in [Ticks -> ActiveStates]
  /\ toSweep \in [Ticks -> SUBSET Rows]
  /\ why \in [Ticks -> Causes]
  /\ snap \in [Ticks -> [Issues -> SUBSET Scopes]]
  /\ iss \in [Ticks -> Issues]
  /\ cur \in [Ticks -> Rows \cup {NoRow}]
  /\ \A t \in Ticks : pc[t] \in RowSteps => cur[t] \in Rows

\* Every variable has its type; in particular a row is in one of the states
\* of the dispatch state machine and an age never passes its saturation.
TypeOK ==
  /\ StoreTypeOK
  /\ LeaseTypeOK
  /\ ForgeTypeOK
  /\ RunTypeOK
  /\ TickTypeOK
  /\ crashes \in 0..MaxCrashes

NoIssues == [i \in Issues |-> {}]
AnIssue  == CHOOSE i \in Issues : TRUE

Init ==
  /\ StoreInit
  /\ LeaseInit
  /\ forge = [i \in Issues |-> [open |-> TRUE, gate |-> FALSE, scopes |-> {}, state |-> {}]]
  /\ posted = [p \in Issues \X Scopes |-> 0]
  /\ lost = {}
  /\ agent = [r \in Rows |-> "none"]
  /\ outcome = [r \in Rows |-> "ok"]
  /\ observed = [r \in Rows |-> 0]
  /\ pc = [t \in Ticks |-> "idle"]
  /\ cancelled = {}
  /\ phase = [t \in Ticks |-> "running"]
  /\ toSweep = [t \in Ticks |-> {}]
  /\ why = [t \in Ticks |-> "none"]
  /\ snap = [t \in Ticks |-> NoIssues]
  /\ iss = [t \in Ticks |-> AnIssue]
  /\ cur = [t \in Ticks |-> NoRow]
  /\ crashes = 0

----------------------------------------------------------------------------
\* Local moves of a tick.

Goto(t, s) == pc' = [pc EXCEPT ![t] = s]

\* Tick returns: the RPC is over, a later one starts from nothing.
Return(t) ==
  /\ Goto(t, "idle")
  /\ cancelled' = cancelled \ {t}
  /\ phase' = [phase EXCEPT ![t] = "running"]
  /\ toSweep' = [toSweep EXCEPT ![t] = {}]
  /\ why' = [why EXCEPT ![t] = "none"]
  /\ snap' = [snap EXCEPT ![t] = NoIssues]
  /\ iss' = [iss EXCEPT ![t] = AnIssue]
  /\ cur' = [cur EXCEPT ![t] = NoRow]

\* The loop goes on to the next listed issue.
NextIssue(t) ==
  /\ Goto(t, "issue")
  /\ snap' = [snap EXCEPT ![t][iss[t]] = {}]
  /\ iss' = [iss EXCEPT ![t] = AnIssue]
  /\ cur' = [cur EXCEPT ![t] = NoRow]
  /\ UNCHANGED <<cancelled, phase, toSweep, why>>

\* The sweep goes on to the next listed row.
NextRow(t) ==
  /\ Goto(t, "sweep")
  /\ toSweep' = [toSweep EXCEPT ![t] = @ \ {cur[t]}]
  /\ cur' = [cur EXCEPT ![t] = NoRow]
  /\ why' = [why EXCEPT ![t] = "none"]
  /\ UNCHANGED <<cancelled, phase, snap, iss>>

Step(t, s) == Goto(t, s) /\ UNCHANGED <<cancelled, phase, toSweep, why, snap, iss, cur>>

MayFail(kind) == kind \in Faults
\* A call on the tick's own context fails when the tick is cancelled.
CallFails(t, kind) == MayFail(kind) \/ t \in cancelled
\* It may also be cancelled and still have gone through.
CallWorks(t) == t \notin cancelled

----------------------------------------------------------------------------
\* Label writes.

\* SetLabels that went through on issue i.
Relabelled(i, add, rem, drop) ==
  [forge EXCEPT ![i].state = (@ \cup add) \ rem, ![i].scopes = @ \ drop]

\* SetLabels that failed: GitHub takes one request that adds, then one per
\* removed label, so it stops anywhere, also after the last one when only a
\* reply is lost; the scope label is removed last.  (GitLab's single request
\* leaves nothing or everything done.)
TornLabels(i, add, rem, drop) ==
  {forge, Relabelled(i, add, rem, drop)} \cup {[forge EXCEPT ![i].state = (@ \cup add) \ gone] : gone \in SUBSET rem}

ActiveLabels == {"queued", "running"}

\* A projection of row r's state.  wrote: "ok", or a failed forge call that
\* set labels_pending ("pending"), or one whose labels_pending write returned
\* an error too ("silent").
Projects(r, add, rem, drop, wrote) ==
  \/ /\ wrote = "ok"
     /\ forge' = Relabelled(issueOf[r], add, rem, drop)
     /\ UNCHANGED storeVars
  \/ /\ wrote = "pending" /\ MayFail("forge")
     /\ forge' \in TornLabels(issueOf[r], add, rem, drop)
     /\ SetDispatchLabelsPending(r)
  \/ /\ wrote = "silent" /\ MayFail("forge") /\ MayFail("store")
     /\ forge' \in TornLabels(issueOf[r], add, rem, drop)
     /\ SetDispatchLabelsPending(r) \/ UNCHANGED storeVars

\* projectFailure: the labels and one comment; either failing is pending.
ProjectsFailure_QueuedOnly(r, wrote) == Projects(r, {"failed"}, {"queued"}, {}, wrote)
ProjectsFailure(r, wrote) ==
  \/ Projects(r, {"failed"}, ActiveLabels, {}, wrote)
  \/ /\ wrote = "pending" /\ MayFail("forge")
     /\ forge' = Relabelled(issueOf[r], {"failed"}, ActiveLabels, {})
     /\ SetDispatchLabelsPending(r)

Wrote == {"ok", "pending", "silent"}

Observe(r) == observed' = [observed EXCEPT ![r] = IF @ < 2 THEN @ + 1 ELSE 2]

----------------------------------------------------------------------------
\* Tick: the sweep.

\* DispatchTrackerIssues: ListRoutes, then the sweep lists RUNNING rows.
StartTick(t) ==
  /\ pc[t] = "idle"
  /\ Step(t, "listRows")
  /\ UNCHANGED <<storeVars, forgeVars, leaseVars, runVars, crashes>>

\* The caller's context is cancelled, or its deadline passes.
CancelTick(t) ==
  /\ MayFail("cancel")
  /\ pc[t] # "idle" /\ t \notin cancelled
  /\ cancelled' = cancelled \cup {t}
  /\ UNCHANGED <<storeVars, forgeVars, leaseVars, runVars, crashes>>
  /\ UNCHANGED <<pc, phase, toSweep, why, snap, iss, cur>>

\* A read on the tick's context fails: the tick returns the error.
TickAborts(t) ==
  /\ \/ pc[t] = "listRows" /\ CallFails(t, "store")
     \/ pc[t] = "list" /\ CallFails(t, "forge")
     \/ pc[t] = "sweep" /\ toSweep[t] # {} /\ t \in cancelled
     \/ pc[t] = "issue" /\ snap[t] # NoIssues /\ t \in cancelled
     \/ pc[t] = "scan" /\ CallFails(t, "store")
  /\ Return(t)
  /\ UNCHANGED <<storeVars, forgeVars, leaseVars, runVars, crashes>>

ListDispatches(t) ==
  /\ pc[t] = "listRows" /\ CallWorks(t)
  /\ Goto(t, "sweep")
  /\ toSweep' = [toSweep EXCEPT ![t] = RowsIn(phase[t])]
  /\ UNCHANGED <<storeVars, forgeVars, leaseVars, runVars, crashes>>
  /\ UNCHANGED <<cancelled, phase, why, snap, iss, cur>>

\* The verdict on one listed row; age is that of the listed state, so a
\* row that moved on since is judged either way and its CAS will lose.
SweepVerdict_NoTimeout(r) ==
  IF age[r] >= Grace /\ ~Live(r) THEN "lease_lost" ELSE "none"
SweepVerdict(r) ==
  IF age[r] >= Timeout THEN "timeout"
  ELSE IF age[r] >= Grace /\ ~Live(r) THEN "lease_lost" ELSE "none"

SweepRow(t) ==
  /\ pc[t] = "sweep" /\ CallWorks(t)
  /\ \E r \in toSweep[t] :
       IF SweepVerdict(r) = "none" \/ st[r] # phase[t]
       THEN /\ toSweep' = [toSweep EXCEPT ![t] = @ \ {r}]
            /\ UNCHANGED <<pc, cancelled, phase, why, snap, iss, cur>>
       ELSE /\ Goto(t, "failSwept")
            /\ cur' = [cur EXCEPT ![t] = r]
            /\ why' = [why EXCEPT ![t] = SweepVerdict(r)]
            /\ UNCHANGED <<cancelled, phase, toSweep, snap, iss>>
  /\ UNCHANGED <<storeVars, forgeVars, leaseVars, runVars, crashes>>

\* All rows of one list are done: the QUEUED list, or the issues, is next.
SweepListDone(t) ==
  /\ pc[t] = "sweep" /\ toSweep[t] = {}
  /\ \/ /\ phase[t] = "running"
        /\ Goto(t, "listRows")
        /\ phase' = [phase EXCEPT ![t] = "queued"]
     \/ /\ phase[t] = "queued"
        /\ Goto(t, "list")
        /\ UNCHANGED phase
  /\ UNCHANGED <<storeVars, forgeVars, leaseVars, runVars, crashes>>
  /\ UNCHANGED <<cancelled, toSweep, why, snap, iss, cur>>

\* failSwept: the compare-and-set, detached from the tick.  As for every
\* statement, a store error may hide an update that was committed.
FailSwept(t) ==
  /\ pc[t] = "failSwept"
  /\ \/ /\ FailDispatch(cur[t], phase[t], why[t])
        /\ Step(t, "endLease")
     \/ st[cur[t]] # phase[t] /\ NextRow(t) /\ UNCHANGED storeVars
     \/ /\ MayFail("store")
        /\ FailDispatch(cur[t], phase[t], why[t]) \/ UNCHANGED storeVars
        /\ Return(t)
  /\ UNCHANGED <<forgeVars, leaseVars, runVars, crashes>>

\* endLease, bounded and on its own goroutine, then observeEnd.  A lease
\* end that fails, hangs or panics leaves the credentials live.
EndLease(t) ==
  /\ pc[t] = "endLease"
  /\ \E revokes \in {TRUE} \cup (IF MayFail("lease") THEN {FALSE} ELSE {}) : End(cur[t], revokes)
  /\ Observe(cur[t])
  /\ Step(t, "sweepProject")
  /\ UNCHANGED <<storeVars, forgeVars, agent, outcome, crashes>>

SweepProject(t) ==
  /\ pc[t] = "sweepProject"
  /\ \E wrote \in Wrote :
       /\ ProjectsFailure(cur[t], wrote)
       /\ IF wrote = "silent" THEN Return(t) ELSE NextRow(t)
  /\ UNCHANGED <<posted, lost, leaseVars, runVars, crashes>>

----------------------------------------------------------------------------
\* Tick: the issues.

HasStateLabel(i) == forge[i].state # {}
\* The filters of Tick's loop that only read the listed issue.
Eligible(i) == /\ forge[i].open /\ ~forge[i].gate
               /\ ~HasStateLabel(i) /\ forge[i].scopes # {}

ListIssues(t) ==
  /\ pc[t] = "list" /\ CallWorks(t)
  /\ Goto(t, "issue")
  /\ snap' = [snap EXCEPT ![t] = [i \in Issues |-> IF Eligible(i) THEN forge[i].scopes ELSE {}]]
  /\ UNCHANGED <<storeVars, forgeVars, leaseVars, runVars, crashes>>
  /\ UNCHANGED <<cancelled, phase, toSweep, why, iss, cur>>

PickIssue(t) ==
  /\ pc[t] = "issue" /\ CallWorks(t)
  /\ \E i \in Issues : /\ snap[t][i] # {}
                       /\ iss' = [iss EXCEPT ![t] = i]
  /\ Goto(t, "scan")
  /\ UNCHANGED <<storeVars, forgeVars, leaseVars, runVars, crashes>>
  /\ UNCHANGED <<cancelled, phase, toSweep, why, snap, cur>>

TickDone(t) ==
  /\ pc[t] = "issue" /\ snap[t] = NoIssues
  /\ Return(t)
  /\ UNCHANGED <<storeVars, forgeVars, leaseVars, runVars, crashes>>

\* scopeLabels sorts: labels are taken in the scopes' order.
First(S) == {s \in S : \A u \in S : s <= u}
Unrouted(t) == snap[t][iss[t]] \ Routed
ScopeDone(t, s) == snap' = [snap EXCEPT ![t][iss[t]] = @ \ {s}]

\* warnUnrouted: record first, so that one dispatcher posts.  An error of the
\* insert ends the tick (TickAborts) and may hide a committed record.
WarnUnrouted(t) ==
  /\ pc[t] = "scan"
  /\ \E s \in First(Unrouted(t)) :
       \/ /\ CallWorks(t) /\ <<iss[t], s>> \in warned
          /\ ScopeDone(t, s)
          /\ UNCHANGED <<pc, cancelled, phase, toSweep, why, iss, cur, storeVars>>
       \/ /\ CallWorks(t) /\ <<iss[t], s>> \notin warned
          /\ RecordDispatchWarning(iss[t], s)
          /\ Step(t, "warnPost")
       \/ /\ CallFails(t, "store")
          /\ RecordDispatchWarning(iss[t], s)
          /\ Return(t)
  /\ UNCHANGED <<forgeVars, leaseVars, runVars, crashes>>

\* The comment.  An error does not say whether the forge took it: the request
\* may have been refused, or taken and its reply lost.
WarnPost_NoForget(t) ==
  /\ pc[t] = "warnPost"
  /\ \E s \in First(Unrouted(t)) : ScopeDone(t, s) /\ Goto(t, "scan")
  /\ CallFails(t, "forge")
  /\ UNCHANGED <<cancelled, phase, toSweep, why, iss, cur, storeVars>>
  /\ UNCHANGED <<forgeVars, leaseVars, runVars, crashes>>
WarnPost(t) ==
  /\ pc[t] = "warnPost"
  /\ \E s \in First(Unrouted(t)) :
       \/ /\ CallWorks(t)
          /\ posted' = [posted EXCEPT ![<<iss[t], s>>] = IF @ < 2 THEN @ + 1 ELSE 2]
          /\ ScopeDone(t, s) /\ Goto(t, "scan")
          /\ UNCHANGED <<cancelled, phase, toSweep, why, iss, cur, lost>>
       \/ /\ CallFails(t, "forge")
          /\ lost' \in {lost, lost \cup {<<iss[t], s>>}}
          /\ Step(t, "warnForget")
          /\ UNCHANGED posted
  /\ UNCHANGED <<storeVars, forge, leaseVars, runVars, crashes>>

\* A comment that returned an error is forgotten, so that the next tick posts
\* it again; this runs on the tick's own context too.
WarnForget(t) ==
  /\ pc[t] = "warnForget"
  /\ \E s \in First(Unrouted(t)) :
       \/ /\ CallWorks(t)
          /\ ForgetDispatchWarning(iss[t], s)
          /\ ScopeDone(t, s) /\ Goto(t, "scan")
          /\ UNCHANGED <<cancelled, phase, toSweep, why, iss, cur>>
       \/ /\ CallFails(t, "store")
          /\ ForgetDispatchWarning(iss[t], s) \/ UNCHANGED storeVars
          /\ Return(t)
  /\ UNCHANGED <<forgeVars, leaseVars, runVars, crashes>>

\* No unrouted label left: the first routed scope, the depth check.
ChooseRoute(t) ==
  /\ pc[t] = "scan" /\ CallWorks(t) /\ Unrouted(t) = {}
  /\ IF snap[t][iss[t]] = {} \/ iss[t] \in TooDeep
     THEN NextIssue(t)
     ELSE Step(t, "insert")
  /\ UNCHANGED <<storeVars, forgeVars, leaseVars, runVars, crashes>>

\* InsertDispatch, detached.  An error may hide a committed row.
Insert(t) ==
  /\ pc[t] = "insert"
  /\ \/ \E r \in Rows, s \in First(snap[t][iss[t]]) :
          /\ InsertDispatch(r, iss[t], s)
          /\ \/ /\ Goto(t, "reread")
                /\ cur' = [cur EXCEPT ![t] = r]
                /\ UNCHANGED <<cancelled, phase, toSweep, why, snap, iss>>
             \/ MayFail("store") /\ Return(t)
     \/ ~IndexAdmits(iss[t]) /\ NextIssue(t) /\ UNCHANGED storeVars
     \/ MayFail("store") /\ Return(t) /\ UNCHANGED storeVars
     \/ \* Bound: the model ran out of dispatch ids.
        RowsIn("absent") = {} /\ Return(t) /\ UNCHANGED storeVars
  /\ UNCHANGED <<forgeVars, leaseVars, runVars, crashes>>

\* stillDispatchable's condition on the issue as re-read.
Dispatchable_Unchecked(i, s) == TRUE
Dispatchable(i, s) == /\ forge[i].open /\ ~forge[i].gate
                      /\ s \in forge[i].scopes /\ ~HasStateLabel(i)

\* The context check after the insert, and stillDispatchable's re-read.
Reread(t) ==
  /\ pc[t] = "reread"
  /\ \/ CallWorks(t) /\ Dispatchable(issueOf[cur[t]], scopeOf[cur[t]]) /\ Step(t, "label")
     \/ CallWorks(t) /\ ~Dispatchable(issueOf[cur[t]], scopeOf[cur[t]]) /\ Step(t, "abandon")
     \/ CallFails(t, "forge") /\ Step(t, "abandon")
  /\ UNCHANGED <<storeVars, forgeVars, leaseVars, runVars, crashes>>

\* abandon, detached: the row was never started or labelled.
Abandon_Cancelled(t) ==
  /\ pc[t] = "abandon"
  /\ IF t \in cancelled THEN UNCHANGED storeVars ELSE DeleteQueuedDispatch(cur[t])
  /\ NextIssue(t)
  /\ UNCHANGED <<forgeVars, leaseVars, runVars, crashes>>
Abandon(t) ==
  /\ pc[t] = "abandon"
  /\ \/ DeleteQueuedDispatch(cur[t]) /\ NextIssue(t)
     \/ /\ MayFail("store")
        /\ DeleteQueuedDispatch(cur[t]) \/ UNCHANGED storeVars
        /\ Return(t)
  /\ UNCHANGED <<forgeVars, leaseVars, runVars, crashes>>

\* labelQueued, detached.  When labels_pending cannot be recorded either,
\* the row is failed and the tick returns the error.
LabelQueued(t) ==
  /\ pc[t] = "label"
  /\ \E wrote \in Wrote :
       /\ Projects(cur[t], {"queued"}, {}, {}, wrote)
       /\ IF wrote # "silent" THEN Step(t, "labelled")
          ELSE /\ Goto(t, "failStart")
               /\ snap' = [snap EXCEPT ![t] = NoIssues]
               /\ UNCHANGED <<cancelled, phase, toSweep, why, iss, cur>>
  /\ UNCHANGED <<posted, lost, leaseVars, runVars, crashes>>

\* A cancelled tick starts no new run; otherwise StartRun holds the run
\* from before provisioning.
BeginStart(t) ==
  /\ pc[t] = "labelled"
  /\ IF t \in cancelled
     THEN Step(t, "failStart") /\ UNCHANGED leaseVars
     ELSE Step(t, "provision") /\ Track(cur[t])
  /\ UNCHANGED <<storeVars, forgeVars, runVars, crashes>>

\* beginSkillRun: the box is deployed and the run's JWTs are minted.
Provision(t) ==
  /\ pc[t] = "provision"
  /\ \/ Mint(cur[t]) /\ Step(t, "seed")
     \/ CallFails(t, "provision") /\ ProvisionUnwinds(cur[t], TRUE) /\ Step(t, "failStart")
  /\ UNCHANGED <<storeVars, forgeVars, runVars, crashes>>

\* The box is seeded and the run registered; its lease is set, unless the
\* provisioning fails and ends its partial lease.
Seed(t) ==
  /\ pc[t] = "seed"
  /\ \/ SetLease(cur[t]) /\ Step(t, "runStarted")
     \/ /\ CallFails(t, "provision")
        /\ \E revokes \in {TRUE} \cup (IF MayFail("lease") THEN {FALSE} ELSE {}) :
             ProvisionUnwinds(cur[t], revokes)
        /\ Step(t, "failStart")
  /\ UNCHANGED <<storeVars, forgeVars, runVars, crashes>>

\* go finishDispatchedRun: the agent is launched and the tick goes on.
Launch(t) == agent' = [agent EXCEPT ![cur[t]] = "working"] /\ UNCHANGED <<outcome, observed>>

\* RunStarted's compare-and-set.  A store error lets the run proceed.
RunStarted_AlwaysProceeds(t) ==
  /\ pc[t] = "runStarted"
  /\ IF st[cur[t]] = "queued"
     THEN TransitionDispatch(cur[t], "queued", "running") /\ Step(t, "projectRunning") /\ UNCHANGED runVars
     ELSE UNCHANGED storeVars /\ Launch(t) /\ NextIssue(t)
  /\ UNCHANGED <<forgeVars, leaseVars, crashes>>
RunStarted(t) ==
  /\ pc[t] = "runStarted"
  /\ \/ /\ TransitionDispatch(cur[t], "queued", "running")
        /\ Step(t, "projectRunning") /\ UNCHANGED runVars
     \/ /\ st[cur[t]] # "queued"
        /\ Step(t, "tearDown") /\ UNCHANGED <<storeVars, runVars>>
     \/ /\ MayFail("store")
        /\ TransitionDispatch(cur[t], "queued", "running") \/ UNCHANGED storeVars
        /\ Launch(t) /\ NextIssue(t)
  /\ UNCHANGED <<forgeVars, leaseVars, crashes>>

\* agent:running, and only then the agent.
ProjectRunning(t) ==
  /\ pc[t] = "projectRunning"
  /\ \E wrote \in Wrote : Projects(cur[t], {"running"}, {"queued"}, {}, wrote)
  /\ Launch(t) /\ NextIssue(t)
  /\ UNCHANGED <<posted, lost, leaseVars, crashes>>

\* launchDispatchedRun's abort: the row ended while provisioning.
TearDownRun(t) ==
  /\ pc[t] = "tearDown"
  /\ \E revokes \in {TRUE} \cup (IF MayFail("lease") THEN {FALSE} ELSE {}) : TearDown(cur[t], revokes)
  /\ NextIssue(t)
  /\ UNCHANGED <<storeVars, forgeVars, runVars, crashes>>

\* failStart, detached: the compare-and-set, then observeEnd.
FailStart(t) ==
  /\ pc[t] = "failStart"
  /\ \/ /\ FailDispatch(cur[t], "queued", "start_error")
        /\ Observe(cur[t]) /\ Step(t, "failProject")
     \/ /\ st[cur[t]] # "queued"
        /\ NextIssue(t) /\ UNCHANGED <<storeVars, observed>>
     \/ /\ MayFail("store")
        /\ FailDispatch(cur[t], "queued", "start_error") \/ UNCHANGED storeVars
        /\ Return(t) /\ UNCHANGED observed
  /\ UNCHANGED <<forgeVars, leaseVars, agent, outcome, crashes>>

FailProject(t) ==
  /\ pc[t] = "failProject"
  /\ \E wrote \in Wrote :
       /\ ProjectsFailure(cur[t], wrote)
       /\ IF wrote = "silent" THEN Return(t) ELSE NextIssue(t)
  /\ UNCHANGED <<posted, lost, leaseVars, runVars, crashes>>

----------------------------------------------------------------------------
\* A launched run: finishDispatchedRun.

AgentAt(r, s) == agent' = [agent EXCEPT ![r] = s]

\* The in-box agent returns an artifact, or an error, an empty artifact, a
\* panic or a Goexit, which are all reported as failed.
AgentReturns(r) ==
  /\ agent[r] = "working"
  /\ AgentAt(r, "leaseEnd")
  /\ \E o \in {"ok", "err"} : outcome' = [outcome EXCEPT ![r] = o]
  /\ UNCHANGED <<storeVars, forgeVars, leaseVars, observed, tickVars, crashes>>

\* The deferred lease end; one that panics turns the outcome to failed.
RunEndsLease_AfterReport(r) ==
  /\ agent[r] = "leaseEnd"
  /\ AgentAt(r, "report")
  /\ UNCHANGED <<storeVars, forgeVars, leaseVars, outcome, observed, tickVars, crashes>>
RunEndsLease(r) ==
  /\ agent[r] = "leaseEnd"
  /\ AgentAt(r, "report")
  /\ \/ EndDispatchedLease(r, TRUE) /\ UNCHANGED outcome
     \/ /\ MayFail("lease")
        /\ EndDispatchedLease(r, FALSE)
        /\ outcome' \in {outcome, [outcome EXCEPT ![r] = "err"]}
  /\ UNCHANGED <<storeVars, forgeVars, observed, tickVars, crashes>>

\* RunEnded's compare-and-set, from RUNNING and then from QUEUED.
Closes(r) == \E from \in ActiveStates :
               IF outcome[r] = "ok" THEN TransitionDispatch(r, from, "done")
                                    ELSE FailDispatch(r, from, "run_error")
RunEnded_ReportsAnyway(r) ==
  /\ agent[r] = "report"
  /\ Closes(r) \/ (~Active(r) /\ UNCHANGED storeVars)
  /\ Observe(r) /\ AgentAt(r, "project")
  /\ UNCHANGED <<forgeVars, leaseVars, outcome, tickVars, crashes>>
RunEnded(r) ==
  /\ agent[r] = "report"
  /\ \/ Closes(r) /\ Observe(r) /\ AgentAt(r, "project")
     \/ /\ \/ ~Active(r) /\ UNCHANGED storeVars
           \/ MayFail("store") /\ (Closes(r) \/ UNCHANGED storeVars)
        /\ AgentAt(r, "untrack") /\ UNCHANGED observed
  /\ UNCHANGED <<forgeVars, leaseVars, outcome, tickVars, crashes>>

RunProjects(r) ==
  /\ agent[r] = "project"
  /\ \E wrote \in Wrote :
       IF outcome[r] = "ok"
       THEN Projects(r, {"done"}, ActiveLabels, {scopeOf[r]}, wrote)
       ELSE ProjectsFailure(r, wrote)
  /\ AgentAt(r, "untrack")
  /\ UNCHANGED <<posted, lost, leaseVars, outcome, observed, tickVars, crashes>>

RunUntracks(r) ==
  /\ agent[r] = "untrack"
  /\ AgentAt(r, "over")
  /\ Untrack(r)
  /\ UNCHANGED <<storeVars, forgeVars, outcome, observed, tickVars, crashes>>

----------------------------------------------------------------------------
\* The environment.

\* The budgets on bookkeeping calls (30s each, 10s for one forge request)
\* bound how old a row can get before its run is held, and between the
\* RUNNING transition and its projection.
BoundedSteps == {"reread", "abandon", "label", "labelled", "projectRunning"}

Clock ==
  /\ \E r \in Rows : Active(r) /\ age[r] < MaxAge
  /\ \A t \in Ticks : pc[t] \in BoundedSteps => age[cur[t]] < Budget
  /\ Ages
  /\ UNCHANGED <<forgeVars, leaseVars, runVars, tickVars, crashes>>

\* The daemon restarts: ticks, run goroutines and the registry are gone.
Crash ==
  /\ crashes < MaxCrashes
  /\ crashes' = crashes + 1
  /\ ProcessDies
  /\ agent' = [r \in Rows |-> IF agent[r] = "none" THEN "none" ELSE "over"]
  /\ pc' = [t \in Ticks |-> "idle"]
  /\ cancelled' = {}
  /\ phase' = [t \in Ticks |-> "running"]
  /\ toSweep' = [t \in Ticks |-> {}]
  /\ why' = [t \in Ticks |-> "none"]
  /\ snap' = [t \in Ticks |-> NoIssues]
  /\ iss' = [t \in Ticks |-> AnIssue]
  /\ cur' = [t \in Ticks |-> NoRow]
  /\ UNCHANGED <<storeVars, forgeVars, outcome, observed>>

\* Humans add a scope label, remove agent:done or agent:failed to re-run,
\* gate or release, close or reopen.  The agent:queued and agent:running
\* labels are the dispatcher's alone.
Human(i) ==
  /\ \/ \E s \in Scopes \ forge[i].scopes :
          "scope" \in Humans /\ forge' = [forge EXCEPT ![i].scopes = @ \cup {s}]
     \/ \E l \in forge[i].state \cap {"done", "failed"} :
          "rerun" \in Humans /\ forge' = [forge EXCEPT ![i].state = @ \ {l}]
     \/ "gate" \in Humans /\ forge' = [forge EXCEPT ![i].gate = ~@]
     \/ "close" \in Humans /\ forge' = [forge EXCEPT ![i].open = ~@]
  /\ UNCHANGED <<storeVars, posted, lost, leaseVars, runVars, tickVars, crashes>>

Sweeping(t) == \/ ListDispatches(t) \/ SweepRow(t) \/ SweepListDone(t)
               \/ FailSwept(t) \/ EndLease(t) \/ SweepProject(t)
Dispatching(t) == \/ ListIssues(t) \/ PickIssue(t) \/ TickDone(t)
                  \/ WarnUnrouted(t) \/ WarnPost(t) \/ WarnForget(t) \/ ChooseRoute(t)
                  \/ Insert(t) \/ Reread(t) \/ Abandon(t) \/ LabelQueued(t)
                  \/ BeginStart(t) \/ Provision(t) \/ Seed(t) \/ RunStarted(t)
                  \/ ProjectRunning(t) \/ TearDownRun(t) \/ FailStart(t) \/ FailProject(t)
TickStep(t) == StartTick(t) \/ TickAborts(t) \/ Sweeping(t) \/ Dispatching(t)
RunFinishes(r) == RunEndsLease(r) \/ RunEnded(r) \/ RunProjects(r) \/ RunUntracks(r)

Next == \/ \E t \in Ticks : TickStep(t) \/ CancelTick(t)
        \/ \E r \in Rows : AgentReturns(r) \/ RunFinishes(r)
        \/ \E i \in Issues : Human(i)
        \/ Clock \/ Crash

Spec == Init /\ [][Next]_vars

\* Ticks are called again and again and each runs to its end, a returned
\* agent's goroutine runs to its end, and time passes.  Nothing obliges an
\* agent to return or a human to act.
Fairness == /\ \A t \in Ticks : WF_vars(TickStep(t))
            /\ \A r \in Rows : WF_vars(RunFinishes(r))
            /\ WF_vars(Clock)

FairSpec == Spec /\ Fairness
----------------------------------------------------------------------------
\* Properties.

\* At most one dispatch of an issue is queued or running, whoever inserts,
\* sweeps or finishes (the "exactly-once index" of dispatch_store.go).
OneActivePerIssue ==
  \A q, r \in Rows : Active(q) /\ Active(r) /\ issueOf[q] = issueOf[r] => q = r

\* A terminal row never changes again: of a sweep, a failed start and the
\* run's own end, the first compare-and-set decides and the rest are no-ops.
TerminalIsFinal ==
  [][\A r \in Rows : st[r] \in TerminalStates => st'[r] = st[r] /\ cause'[r] = cause[r]]_vars

\* Each ended row is reported exactly once: never twice, and a terminal row
\* unreported only while the sweep that ended it is still ending its lease
\* (or if the daemon or the store died in between).
ReportedOnce ==
  \A r \in Rows :
    /\ observed[r] <= 1
    /\ st[r] \in TerminalStates /\ observed[r] = 0 =>
         crashes > 0 \/ MayFail("store") \/ \E t \in Ticks : cur[t] = r /\ pc[t] = "endLease"

Starting == {"provision", "seed", "runStarted", "projectRunning", "tearDown"}
InHand   == {"reread", "abandon", "label", "labelled", "failStart"} \cup Starting

\* No cancellation point leaves a row active with nobody behind it: a tick
\* has it in hand, or the daemon holds its run (dispatch.go, #2049).
ActiveRowsAreOwned ==
  \A r \in Rows : Active(r) => \/ r \in tracked
                               \/ \E t \in Ticks : cur[t] = r /\ pc[t] \in InHand

\* The agent is executing and the credentials it was given still work.
Acting(r) == agent[r] \in {"working", "leaseEnd"} /\ creds[r] = "live"

\* Two runs never act on one issue at once, although a sweep frees the issue
\* for the next tick before it has ended the timed-out run's lease.
OneActingRun ==
  \A q, r \in Rows : Acting(q) /\ Acting(r) /\ issueOf[q] = issueOf[r] => q = r

\* Credentials outlive their row only while the sweep is ending their lease
\* or the run is still provisioning and its start report is to come; in
\* particular a row is DONE only after its lease ended.
EndedRowsLoseCredentials ==
  \A r \in Rows : st[r] \in TerminalStates /\ creds[r] = "live" =>
    \E t \in Ticks : cur[t] = r /\ pc[t] \in {"endLease"} \cup Starting

\* An issue says agent:queued or agent:running only while a row of it is
\* active or its end is being projected: no label locks an issue for good.
NoStrandedLabel ==
  \A i \in Issues : forge[i].state \cap ActiveLabels # {} =>
    \/ ActiveRows(i) # {}
    \/ \E r \in Rows : issueOf[r] = i /\ agent[r] = "project"
    \/ \E t \in Ticks : /\ pc[t] \in {"endLease", "sweepProject", "failProject"}
                       /\ issueOf[cur[t]] = i

Launches(r) == agent[r] # "working" /\ agent'[r] = "working"

\* An agent is launched only for a row that is still active: a run swept
\* while it was provisioning never starts.
LaunchesOnlyActiveRows == [][\A r \in Rows : Launches(r) => st'[r] \in ActiveStates]_vars

\* A run is launched only on an issue that shows neither agent:done nor
\* agent:failed: however many ticks saw the issue in a stale list, each run
\* after the first was asked for by a human who removed that label.
RerunsAreAskedFor ==
  [][\A r \in Rows : Launches(r) => forge[issueOf[r]].state \cap {"done", "failed"} = {}]_vars

\* Every active row ends, also one whose agent never returns and one a
\* restart left behind: the issue is not locked for good.
ActiveRowsEnd == \A r \in Rows : Active(r) ~> ~Active(r)

\* Tick t recorded the warning of scope s on issue i and is posting it, or
\* taking the record back.
Warning(t, i, s) == pc[t] \in {"warnPost", "warnForget"} /\ iss[t] = i /\ s \in First(Unrouted(t))

\* Once the forge has acknowledged the unrouted-scope warning of an issue and
\* scope, it is not acknowledged a second time and no tick is at it again.
AcknowledgedOnce ==
  \A i \in Issues, s \in Scopes :
    /\ posted[<<i, s>>] <= 1
    /\ posted[<<i, s>>] = 1 => \A t \in Ticks : ~Warning(t, i, s)

\* An acknowledged warning is final, and a recorded one was acknowledged or the
\* tick that recorded it is still at it, unless the daemon died in between: no
\* failed comment leaves a record that silences every later tick.
WarnedOnce ==
  /\ AcknowledgedOnce
  /\ \A i \in Issues, s \in Scopes : <<i, s>> \in warned =>
       posted[<<i, s>>] = 1 \/ crashes > 0 \/ \E t \in Ticks : Warning(t, i, s)

\* The promise of Tick's comment, "one stamped warning comment, ever": the
\* issue never carries two, counting those whose reply was lost.
OneWarningEver == \A p \in Issues \X Scopes : posted[p] + (IF p \in lost THEN 1 ELSE 0) <= 1

----------------------------------------------------------------------------
\* The dispatcher keeps the promise of DispatchPromise: the holder of an
\* issue is its active row, a result is a terminal state, and told counts
\* the DispatchEnded events.
Holder == [i \in Issues |-> IF ActiveRows(i) = {} THEN NoRow ELSE CHOOSE r \in ActiveRows(i) : TRUE]
Result == [r \in Rows |-> IF st[r] \in TerminalStates THEN st[r] ELSE "none"]
Promise == INSTANCE DispatchPromise WITH holder <- Holder, result <- Result, told <- observed

\* Every step of the dispatcher, in every fault, is a step of the promise:
\* one holder per issue, one final result per row, reported at most once.
KeepsPromise == Promise!Spec
============================================================================
