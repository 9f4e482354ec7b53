----------------------- MODULE TrackerDispatchProofs -----------------------
(***************************************************************************)
(* Machine-checked proofs about TrackerDispatch, for any number of issues, *)
(* rows and concurrent ticks.  Types, the state machine of a row, its      *)
(* reports, the refinement of DispatchPromise and that no acknowledged     *)
(* warning is posted again hold for every combination of faults and        *)
(* restarts; the theorems about owners, credentials, labels and launches   *)
(* are for a dispatcher whose ticks may be cancelled and whose             *)
(* provisioning may fail (Orderly), and that recorded warnings get posted  *)
(* is for ticks that are not cancelled and a store that answers (Attended).*)
(***************************************************************************)
EXTENDS TrackerDispatch, TLAPS

----------------------------------------------------------------------------
(* Types: what the store's, the leases' and the tick's helpers preserve.   *)

\* InsertDispatch keeps the store well typed.
LEMMA InsertTyped ==
  ASSUME StoreTypeOK, NEW r \in Rows, NEW i \in Issues, NEW s \in Scopes, InsertDispatch(r, i, s)
  PROVE  StoreTypeOK'
BY StoreAssumption DEF StoreTypeOK, InsertDispatch, States, ActiveStates

\* A compare-and-set keeps the store well typed.
LEMMA MovesTyped ==
  ASSUME StoreTypeOK, NEW r, NEW from, NEW to \in States, Moves(r, from, to),
         cause' \in [Rows -> Causes]
  PROVE  StoreTypeOK'
<1>1. st' \in [Rows -> States]
  BY DEF StoreTypeOK, Moves
<1>2. age' \in [Rows -> 0..MaxAge]
  <2>1. 0 \in 0..MaxAge
    BY StoreAssumption
  <2> QED
    BY <2>1, Zenon DEF StoreTypeOK, Moves
<1> QED
  BY <1>1, <1>2 DEF StoreTypeOK, Moves

LEMMA TransitionTyped ==
  ASSUME StoreTypeOK, NEW r, NEW from, NEW to \in States, TransitionDispatch(r, from, to)
  PROVE  StoreTypeOK'
BY MovesTyped DEF TransitionDispatch, StoreTypeOK

LEMMA FailTyped ==
  ASSUME StoreTypeOK, NEW r, NEW from, NEW w \in Causes, FailDispatch(r, from, w)
  PROVE  StoreTypeOK'
<1>1. "failed" \in States
  BY DEF States, TerminalStates
<1>2. cause' \in [Rows -> Causes]
  BY DEF FailDispatch, StoreTypeOK
<1> QED
  BY <1>1, <1>2, MovesTyped DEF FailDispatch

LEMMA DeleteTyped ==
  ASSUME StoreTypeOK, NEW r, DeleteQueuedDispatch(r)
  PROVE  StoreTypeOK'
<1>1. st' \in [Rows -> States]
  BY DEF StoreTypeOK, DeleteQueuedDispatch, States
<1> QED
  BY <1>1 DEF StoreTypeOK, DeleteQueuedDispatch

LEMMA PendingTyped ==
  ASSUME StoreTypeOK, NEW r, SetDispatchLabelsPending(r)
  PROVE  StoreTypeOK'
BY DEF StoreTypeOK, SetDispatchLabelsPending

LEMMA AgesTyped ==
  ASSUME StoreTypeOK, Ages
  PROVE  StoreTypeOK'
BY StoreAssumption DEF StoreTypeOK, Ages

LEMMA StoreUnchangedTyped ==
  ASSUME StoreTypeOK, UNCHANGED storeVars
  PROVE  StoreTypeOK'
BY DEF StoreTypeOK, storeVars

\* The tick's local moves keep its variables well typed.
LEMMA ReturnTyped ==
  ASSUME TickTypeOK, NEW t \in Ticks, Return(t)
  PROVE  TickTypeOK'
<1>1. AnIssue \in Issues
  BY StoreAssumption DEF AnIssue
<1> QED
  BY <1>1 DEF TickTypeOK, Return, Goto, NoIssues, TickStates, RowSteps, ActiveStates, Causes

LEMMA NextIssueTyped ==
  ASSUME TickTypeOK, NEW t \in Ticks, NextIssue(t)
  PROVE  TickTypeOK'
<1>1. AnIssue \in Issues
  BY StoreAssumption DEF AnIssue
<1> QED
  BY <1>1 DEF TickTypeOK, NextIssue, Goto, TickStates, RowSteps

LEMMA NextRowTyped ==
  ASSUME TickTypeOK, NEW t \in Ticks, NextRow(t)
  PROVE  TickTypeOK'
BY DEF TickTypeOK, NextRow, Goto, TickStates, RowSteps, Causes

LEMMA StepTyped ==
  ASSUME TickTypeOK, NEW t \in Ticks, NEW s \in TickStates, Step(t, s),
         s \in RowSteps => pc[t] \in RowSteps
  PROVE  TickTypeOK'
BY DEF TickTypeOK, Step, Goto

LEMMA TickUnchangedTyped ==
  ASSUME TickTypeOK, UNCHANGED tickVars
  PROVE  TickTypeOK'
BY DEF TickTypeOK, tickVars

\* A label write, whole or torn, leaves well-typed labels.
LEMMA RelabelledTyped ==
  ASSUME ForgeTypeOK, NEW i, NEW add \in SUBSET StateLabels, NEW rem, NEW drop
  PROVE  /\ Relabelled(i, add, rem, drop) \in [Issues -> IssueState]
         /\ \A f \in TornLabels(i, add, rem, drop) : f \in [Issues -> IssueState]
<1>1. Relabelled(i, add, rem, drop) \in [Issues -> IssueState]
  BY DEF ForgeTypeOK, Relabelled, IssueState
<1>2. ASSUME NEW f \in TornLabels(i, add, rem, drop) PROVE f \in [Issues -> IssueState]
  <2>1. ASSUME NEW gone PROVE [forge EXCEPT ![i].state = (@ \cup add) \ gone] \in [Issues -> IssueState]
    BY DEF ForgeTypeOK, IssueState
  <2> QED
    BY <1>1, <2>1 DEF TornLabels, ForgeTypeOK
<1> QED
  BY <1>1, <1>2

LEMMA ProjectsTyped ==
  ASSUME StoreTypeOK, ForgeTypeOK, NEW r, NEW add \in SUBSET StateLabels, NEW rem, NEW drop,
         NEW wrote, Projects(r, add, rem, drop, wrote), UNCHANGED <<posted, lost>>
  PROVE  StoreTypeOK' /\ ForgeTypeOK'
<1>1. forge' \in [Issues -> IssueState]
  BY RelabelledTyped DEF Projects
<1>2. StoreTypeOK'
  BY PendingTyped, StoreUnchangedTyped DEF Projects
<1> QED
  BY <1>1, <1>2 DEF ForgeTypeOK

LEMMA ProjectsFailureTyped ==
  ASSUME StoreTypeOK, ForgeTypeOK, NEW r, NEW wrote, ProjectsFailure(r, wrote), UNCHANGED <<posted, lost>>
  PROVE  StoreTypeOK' /\ ForgeTypeOK'
<1>1. {"failed"} \in SUBSET StateLabels
  BY DEF StateLabels
<1>2. CASE Projects(r, {"failed"}, ActiveLabels, {}, wrote)
  BY <1>1, <1>2, ProjectsTyped
<1>3. CASE /\ forge' = Relabelled(issueOf[r], {"failed"}, ActiveLabels, {})
           /\ SetDispatchLabelsPending(r)
  BY <1>1, <1>3, RelabelledTyped, PendingTyped DEF ForgeTypeOK
<1> QED
  BY <1>2, <1>3 DEF ProjectsFailure

LEMMA ForgeUnchangedTyped == ForgeTypeOK /\ UNCHANGED forgeVars => ForgeTypeOK'
BY DEF ForgeTypeOK, forgeVars

LEMMA LeaseUnchangedTyped == LeaseTypeOK /\ UNCHANGED leaseVars => LeaseTypeOK'
BY DEF LeaseTypeOK, leaseVars

LEMMA RunUnchangedTyped == RunTypeOK /\ UNCHANGED runVars => RunTypeOK'
BY DEF RunTypeOK, runVars

\* Every operation on a run's lease keeps the registry well typed.
LEMMA LeaseOpsTyped ==
  ASSUME LeaseTypeOK, NEW r \in Rows, NEW revokes,
         \/ Track(r) \/ Mint(r) \/ SetLease(r) \/ Untrack(r) \/ End(r, revokes)
         \/ ProvisionUnwinds(r, revokes) \/ TearDown(r, revokes) \/ EndDispatchedLease(r, revokes)
  PROVE  LeaseTypeOK'
<1> USE DEF LeaseTypeOK, LeaseStates, CredStates
<1>1. CASE Track(r) BY <1>1 DEF Track
<1>2. CASE Mint(r) BY <1>2 DEF Mint
<1>3. CASE SetLease(r) BY <1>3 DEF SetLease
<1>4. CASE Untrack(r) BY <1>4 DEF Untrack
<1>5. CASE EndDispatchedLease(r, revokes) BY <1>5 DEF EndDispatchedLease
<1>6. CASE End(r, revokes) BY <1>5, <1>6 DEF End, EndDispatchedLease, leaseVars
<1>7. CASE ProvisionUnwinds(r, revokes) BY <1>7 DEF ProvisionUnwinds
<1>8. CASE TearDown(r, revokes) BY <1>8 DEF TearDown
<1> QED
  BY <1>1, <1>2, <1>3, <1>4, <1>5, <1>6, <1>7, <1>8

LEMMA ObserveTyped ==
  ASSUME RunTypeOK, NEW r, Observe(r)
  PROVE  observed' \in [Rows -> 0..2]
<1>1. \A n \in 0..2 : (IF n < 2 THEN n + 1 ELSE 2) \in 0..2
  OBVIOUS
<1> QED
  BY <1>1, Zenon DEF RunTypeOK, Observe

\* The steps of a sweep preserve the types.
LEMMA SweepingTyped ==
  ASSUME TypeOK, NEW t \in Ticks, StartTick(t) \/ TickAborts(t) \/ CancelTick(t) \/ Sweeping(t)
  PROVE  TypeOK'
<1> USE DEF TypeOK
<1>1. CASE StartTick(t)
  BY <1>1, StepTyped, StoreUnchangedTyped, ForgeUnchangedTyped, LeaseUnchangedTyped, RunUnchangedTyped
  DEF StartTick, TickStates, RowSteps
<1>2. CASE TickAborts(t)
  BY <1>2, ReturnTyped, StoreUnchangedTyped, ForgeUnchangedTyped, LeaseUnchangedTyped, RunUnchangedTyped
  DEF TickAborts
<1>3. CASE CancelTick(t)
  <2>1. TickTypeOK'
    BY <1>3 DEF CancelTick, TickTypeOK
  <2> QED
    BY <1>3, <2>1, StoreUnchangedTyped, ForgeUnchangedTyped, LeaseUnchangedTyped, RunUnchangedTyped
    DEF CancelTick
<1>4. CASE ListDispatches(t)
  <2>1. TickTypeOK'
    BY <1>4 DEF ListDispatches, TickTypeOK, Goto, TickStates, RowSteps, RowsIn
  <2> QED
    BY <1>4, <2>1, StoreUnchangedTyped, ForgeUnchangedTyped, LeaseUnchangedTyped, RunUnchangedTyped
    DEF ListDispatches
<1>5. CASE SweepRow(t)
  <2>1. PICK r \in toSweep[t] :
          IF SweepVerdict(r) = "none" \/ st[r] # phase[t]
          THEN /\ toSweep' = [toSweep EXCEPT ![t] = @ \ {r}]
               /\ UNCHANGED <<pc, cancelled, phase, why, snap, iss, cur>>
          ELSE /\ Goto(t, "failSwept")
               /\ cur' = [cur EXCEPT ![t] = r]
               /\ why' = [why EXCEPT ![t] = SweepVerdict(r)]
               /\ UNCHANGED <<cancelled, phase, toSweep, snap, iss>>
    BY <1>5 DEF SweepRow
  <2>2. r \in Rows /\ SweepVerdict(r) \in Causes
    BY DEF TickTypeOK, SweepVerdict, Causes, Failures
  <2>3. TickTypeOK'
    <3>1. CASE SweepVerdict(r) = "none" \/ st[r] # phase[t]
      BY <2>1, <3>1 DEF TickTypeOK
    <3>2. CASE ~(SweepVerdict(r) = "none" \/ st[r] # phase[t])
      BY <2>1, <2>2, <3>2 DEF TickTypeOK, Goto, TickStates
    <3> QED
      BY <3>1, <3>2
  <2> QED
    BY <1>5, <2>3, StoreUnchangedTyped, ForgeUnchangedTyped, LeaseUnchangedTyped, RunUnchangedTyped
    DEF SweepRow
<1>6. CASE SweepListDone(t)
  <2>1. TickTypeOK'
    BY <1>6 DEF SweepListDone, TickTypeOK, Goto, TickStates, RowSteps, ActiveStates
  <2> QED
    BY <1>6, <2>1, StoreUnchangedTyped, ForgeUnchangedTyped, LeaseUnchangedTyped, RunUnchangedTyped
    DEF SweepListDone
<1>7. CASE FailSwept(t)
  <2>1. why[t] \in Causes
    BY DEF TickTypeOK
  <2>2. StoreTypeOK'
    BY <1>7, <2>1, FailTyped, StoreUnchangedTyped DEF FailSwept
  <2>3. TickTypeOK'
    BY <1>7, StepTyped, NextRowTyped, ReturnTyped DEF FailSwept, TickStates, RowSteps
  <2> QED
    BY <1>7, <2>2, <2>3, ForgeUnchangedTyped, LeaseUnchangedTyped, RunUnchangedTyped DEF FailSwept
<1>8. CASE EndLease(t)
  <2>1. cur[t] \in Rows
    BY <1>8 DEF EndLease, TickTypeOK, RowSteps
  <2>2. LeaseTypeOK'
    BY <1>8, <2>1, LeaseOpsTyped DEF EndLease
  <2>3. RunTypeOK'
    BY <1>8, ObserveTyped DEF EndLease, RunTypeOK
  <2>4. TickTypeOK'
    BY <1>8, StepTyped DEF EndLease, TickStates, RowSteps
  <2> QED
    BY <1>8, <2>2, <2>3, <2>4, StoreUnchangedTyped, ForgeUnchangedTyped DEF EndLease
<1>9. CASE SweepProject(t)
  <2>1. StoreTypeOK' /\ ForgeTypeOK'
    BY <1>9, ProjectsFailureTyped DEF SweepProject
  <2>2. TickTypeOK'
    BY <1>9, ReturnTyped, NextRowTyped DEF SweepProject
  <2> QED
    BY <1>9, <2>1, <2>2, LeaseUnchangedTyped, RunUnchangedTyped DEF SweepProject
<1> QED
  BY <1>1, <1>2, <1>3, <1>4, <1>5, <1>6, <1>7, <1>8, <1>9 DEF Sweeping

\* The steps of a tick over the listed issues, up to the row's insert.
LEMMA ListingTyped ==
  ASSUME TypeOK, NEW t \in Ticks,
         \/ ListIssues(t) \/ PickIssue(t) \/ TickDone(t) \/ WarnUnrouted(t) \/ WarnPost(t)
         \/ WarnForget(t) \/ ChooseRoute(t) \/ Insert(t)
  PROVE  TypeOK'
<1> USE DEF TypeOK
<1>1. CASE ListIssues(t)
  <2>1. TickTypeOK'
    BY <1>1 DEF ListIssues, TickTypeOK, ForgeTypeOK, IssueState, Goto, TickStates, RowSteps
  <2> QED
    BY <1>1, <2>1, StoreUnchangedTyped, ForgeUnchangedTyped, LeaseUnchangedTyped, RunUnchangedTyped DEF ListIssues
<1>2. CASE PickIssue(t)
  <2>1. TickTypeOK'
    BY <1>2 DEF PickIssue, TickTypeOK, Goto, TickStates, RowSteps
  <2> QED
    BY <1>2, <2>1, StoreUnchangedTyped, ForgeUnchangedTyped, LeaseUnchangedTyped, RunUnchangedTyped DEF PickIssue
<1>3. CASE TickDone(t)
  BY <1>3, ReturnTyped, StoreUnchangedTyped, ForgeUnchangedTyped, LeaseUnchangedTyped, RunUnchangedTyped DEF TickDone
<1>4. ASSUME NEW s, ScopeDone(t, s), UNCHANGED pc \/ Goto(t, "scan"),
             UNCHANGED <<cancelled, phase, toSweep, why, iss, cur>>
      PROVE  TickTypeOK'
  BY <1>4 DEF ScopeDone, TickTypeOK, Goto, TickStates, RowSteps
<1>a. ASSUME NEW s \in First(Unrouted(t)), RecordDispatchWarning(iss[t], s) \/ ForgetDispatchWarning(iss[t], s)
      PROVE  StoreTypeOK'
  <2>1. <<iss[t], s>> \in Issues \X Scopes
    BY DEF First, Unrouted, TickTypeOK
  <2> QED
    BY <1>a, <2>1 DEF StoreTypeOK, RecordDispatchWarning, ForgetDispatchWarning
<1>5. CASE WarnUnrouted(t)
  <2>1. StoreTypeOK'
    BY <1>5, <1>a, StoreUnchangedTyped DEF WarnUnrouted
  <2>2. TickTypeOK'
    BY <1>4, <1>5, StepTyped, ReturnTyped DEF WarnUnrouted, TickStates, RowSteps
  <2> QED
    BY <1>5, <2>1, <2>2, ForgeUnchangedTyped, LeaseUnchangedTyped, RunUnchangedTyped DEF WarnUnrouted
<1>6. CASE WarnPost(t)
  <2>1. PICK s \in First(Unrouted(t)) :
          \/ /\ posted' = [posted EXCEPT ![<<iss[t], s>>] = IF @ < 2 THEN @ + 1 ELSE 2]
             /\ ScopeDone(t, s) /\ Goto(t, "scan")
             /\ UNCHANGED <<cancelled, phase, toSweep, why, iss, cur, lost>>
          \/ /\ lost' \in {lost, lost \cup {<<iss[t], s>>}}
             /\ Step(t, "warnForget")
             /\ UNCHANGED posted
    BY <1>6 DEF WarnPost
  <2>2. TickTypeOK'
    BY <1>4, <2>1, StepTyped DEF TickStates, RowSteps
  <2>3. lost' \subseteq Issues \X Scopes
    <3>1. <<iss[t], s>> \in Issues \X Scopes
      BY DEF First, Unrouted, TickTypeOK
    <3> QED
      BY <2>1, <3>1 DEF ForgeTypeOK
  <2>4. posted' \in [Issues \X Scopes -> 0..2]
    <3>1. \A n \in 0..2 : (IF n < 2 THEN n + 1 ELSE 2) \in 0..2
      OBVIOUS
    <3> QED
      BY <2>1, <3>1, Zenon DEF ForgeTypeOK
  <2> QED
    BY <1>6, <2>2, <2>3, <2>4, StoreUnchangedTyped, LeaseUnchangedTyped, RunUnchangedTyped DEF WarnPost, ForgeTypeOK
<1>9. CASE WarnForget(t)
  <2>1. StoreTypeOK'
    BY <1>9, <1>a, StoreUnchangedTyped DEF WarnForget
  <2>2. TickTypeOK'
    BY <1>4, <1>9, ReturnTyped DEF WarnForget
  <2> QED
    BY <1>9, <2>1, <2>2, ForgeUnchangedTyped, LeaseUnchangedTyped, RunUnchangedTyped DEF WarnForget
<1>7. CASE ChooseRoute(t)
  BY <1>7, NextIssueTyped, StepTyped, StoreUnchangedTyped, ForgeUnchangedTyped, LeaseUnchangedTyped, RunUnchangedTyped DEF ChooseRoute, TickStates, RowSteps
<1>8. CASE Insert(t)
  <2>1. CASE \E r \in Rows, s \in First(snap[t][iss[t]]) :
               /\ InsertDispatch(r, iss[t], s)
               /\ \/ /\ Goto(t, "reread")
                     /\ cur' = [cur EXCEPT ![t] = r]
                     /\ UNCHANGED <<cancelled, phase, toSweep, why, snap, iss>>
                  \/ Return(t)
    <3>1. PICK r \in Rows, s \in First(snap[t][iss[t]]) :
               /\ InsertDispatch(r, iss[t], s)
               /\ \/ /\ Goto(t, "reread")
                     /\ cur' = [cur EXCEPT ![t] = r]
                     /\ UNCHANGED <<cancelled, phase, toSweep, why, snap, iss>>
                  \/ Return(t)
      BY <2>1
    <3>2. iss[t] \in Issues /\ s \in Scopes
      BY DEF TickTypeOK, First
    <3>3. StoreTypeOK'
      BY <3>1, <3>2, InsertTyped
    <3>4. TickTypeOK'
      <4>1. CASE /\ Goto(t, "reread")
                 /\ cur' = [cur EXCEPT ![t] = r]
                 /\ UNCHANGED <<cancelled, phase, toSweep, why, snap, iss>>
        BY <4>1 DEF TickTypeOK, Goto, TickStates
      <4> QED
        BY <3>1, <4>1, ReturnTyped
    <3> QED
      BY <1>8, <3>3, <3>4, ForgeUnchangedTyped, LeaseUnchangedTyped, RunUnchangedTyped DEF Insert
  <2>2. CASE (NextIssue(t) \/ Return(t)) /\ UNCHANGED storeVars
    BY <1>8, <2>2, NextIssueTyped, ReturnTyped, StoreUnchangedTyped, ForgeUnchangedTyped, LeaseUnchangedTyped, RunUnchangedTyped DEF Insert
  <2> QED
    BY <1>8, <2>1, <2>2 DEF Insert
<1> QED
  BY <1>1, <1>2, <1>3, <1>5, <1>6, <1>7, <1>8, <1>9

\* The steps of a tick on the row it inserted, up to the launch.
LEMMA StartingTyped ==
  ASSUME TypeOK, NEW t \in Ticks,
         \/ Reread(t) \/ Abandon(t) \/ LabelQueued(t) \/ BeginStart(t) \/ Provision(t) \/ Seed(t)
         \/ RunStarted(t) \/ ProjectRunning(t) \/ TearDownRun(t) \/ FailStart(t) \/ FailProject(t)
  PROVE  TypeOK'
<1> USE DEF TypeOK
<1>0. cur[t] \in Rows
  BY DEF TickTypeOK, RowSteps, Reread, Abandon, LabelQueued, BeginStart, Provision, Seed,
         RunStarted, ProjectRunning, TearDownRun, FailStart, FailProject
<1>a. {"queued"} \in SUBSET StateLabels /\ {"running"} \in SUBSET StateLabels
  BY DEF StateLabels
<1>b. "start_error" \in Causes /\ "running" \in States
  BY DEF Causes, Failures, States, ActiveStates
<1>c. Launch(t) => RunTypeOK'
  BY DEF Launch, RunTypeOK, AgentStates
<1>1. CASE Reread(t)
  BY <1>1, StepTyped, StoreUnchangedTyped, ForgeUnchangedTyped, LeaseUnchangedTyped, RunUnchangedTyped DEF Reread, TickStates, RowSteps
<1>2. CASE Abandon(t)
  <2>1. StoreTypeOK' /\ TickTypeOK'
    BY <1>2, DeleteTyped, StoreUnchangedTyped, NextIssueTyped, ReturnTyped DEF Abandon
  <2> QED
    BY <1>2, <2>1, ForgeUnchangedTyped, LeaseUnchangedTyped, RunUnchangedTyped DEF Abandon
<1>3. CASE LabelQueued(t)
  <2>1. StoreTypeOK' /\ ForgeTypeOK'
    BY <1>3, <1>a, ProjectsTyped DEF LabelQueued
  <2>2. TickTypeOK'
    <3>1. CASE Step(t, "labelled")
      BY <1>3, <3>1, StepTyped DEF LabelQueued, TickStates, RowSteps
    <3>2. CASE /\ Goto(t, "failStart")
               /\ snap' = [snap EXCEPT ![t] = NoIssues]
               /\ UNCHANGED <<cancelled, phase, toSweep, why, iss, cur>>
      BY <1>0, <3>2 DEF TickTypeOK, Goto, TickStates, NoIssues
    <3> QED
      BY <1>3, <3>1, <3>2 DEF LabelQueued
  <2> QED
    BY <1>3, <2>1, <2>2, LeaseUnchangedTyped, RunUnchangedTyped DEF LabelQueued
<1>4. CASE BeginStart(t)
  <2>1. LeaseTypeOK'
    BY <1>0, <1>4, LeaseOpsTyped, LeaseUnchangedTyped DEF BeginStart
  <2>2. TickTypeOK'
    BY <1>4, StepTyped DEF BeginStart, TickStates, RowSteps
  <2> QED
    BY <1>4, <2>1, <2>2, StoreUnchangedTyped, ForgeUnchangedTyped, RunUnchangedTyped DEF BeginStart
<1>5. CASE Provision(t)
  <2>1. LeaseTypeOK'
    BY <1>0, <1>5, LeaseOpsTyped DEF Provision
  <2>2. TickTypeOK'
    BY <1>5, StepTyped DEF Provision, TickStates, RowSteps
  <2> QED
    BY <1>5, <2>1, <2>2, StoreUnchangedTyped, ForgeUnchangedTyped, RunUnchangedTyped DEF Provision
<1>6. CASE Seed(t)
  <2>1. LeaseTypeOK'
    BY <1>0, <1>6, LeaseOpsTyped DEF Seed
  <2>2. TickTypeOK'
    BY <1>6, StepTyped DEF Seed, TickStates, RowSteps
  <2> QED
    BY <1>6, <2>1, <2>2, StoreUnchangedTyped, ForgeUnchangedTyped, RunUnchangedTyped DEF Seed
<1>7. CASE RunStarted(t)
  <2>1. StoreTypeOK'
    BY <1>7, <1>b, TransitionTyped, StoreUnchangedTyped DEF RunStarted
  <2>2. TickTypeOK'
    BY <1>7, StepTyped, NextIssueTyped DEF RunStarted, TickStates, RowSteps
  <2>3. RunTypeOK'
    BY <1>7, <1>c, RunUnchangedTyped DEF RunStarted
  <2> QED
    BY <1>7, <2>1, <2>2, <2>3, ForgeUnchangedTyped, LeaseUnchangedTyped DEF RunStarted
<1>8. CASE ProjectRunning(t)
  <2>1. StoreTypeOK' /\ ForgeTypeOK'
    BY <1>8, <1>a, ProjectsTyped DEF ProjectRunning
  <2> QED
    BY <1>8, <1>c, <2>1, NextIssueTyped, LeaseUnchangedTyped DEF ProjectRunning
<1>9. CASE TearDownRun(t)
  <2>1. LeaseTypeOK'
    BY <1>0, <1>9, LeaseOpsTyped DEF TearDownRun
  <2> QED
    BY <1>9, <2>1, NextIssueTyped, StoreUnchangedTyped, ForgeUnchangedTyped, RunUnchangedTyped
    DEF TearDownRun
<1>10. CASE FailStart(t)
  <2>1. StoreTypeOK'
    BY <1>10, <1>b, FailTyped, StoreUnchangedTyped DEF FailStart
  <2>2. TickTypeOK'
    BY <1>10, StepTyped, NextIssueTyped, ReturnTyped DEF FailStart, TickStates, RowSteps
  <2>3. RunTypeOK'
    BY <1>10, ObserveTyped DEF FailStart, RunTypeOK
  <2> QED
    BY <1>10, <2>1, <2>2, <2>3, ForgeUnchangedTyped, LeaseUnchangedTyped DEF FailStart
<1>11. CASE FailProject(t)
  <2>1. StoreTypeOK' /\ ForgeTypeOK'
    BY <1>11, ProjectsFailureTyped DEF FailProject
  <2> QED
    BY <1>11, <2>1, NextIssueTyped, ReturnTyped, LeaseUnchangedTyped, RunUnchangedTyped DEF FailProject
<1> QED
  BY <1>1, <1>2, <1>3, <1>4, <1>5, <1>6, <1>7, <1>8, <1>9, <1>10, <1>11

\* The steps of a launched run.
LEMMA RunTyped ==
  ASSUME TypeOK, NEW r \in Rows, AgentReturns(r) \/ RunFinishes(r)
  PROVE  TypeOK'
<1> USE DEF TypeOK
<1>a. \A s \in AgentStates : AgentAt(r, s) => agent' \in [Rows -> AgentStates]
  BY DEF AgentAt, RunTypeOK
<1>b. "run_error" \in Causes /\ "done" \in States
  BY DEF Causes, Failures, States, TerminalStates
<1>1. CASE AgentReturns(r)
  <2>1. RunTypeOK'
    BY <1>1, <1>a DEF AgentReturns, RunTypeOK, AgentStates
  <2> QED
    BY <1>1, <2>1, StoreUnchangedTyped, ForgeUnchangedTyped, LeaseUnchangedTyped, TickUnchangedTyped
    DEF AgentReturns
<1>2. CASE RunEndsLease(r)
  <2>1. RunTypeOK'
    BY <1>2, <1>a DEF RunEndsLease, RunTypeOK, AgentStates
  <2>2. LeaseTypeOK'
    BY <1>2, LeaseOpsTyped DEF RunEndsLease
  <2> QED
    BY <1>2, <2>1, <2>2, StoreUnchangedTyped, ForgeUnchangedTyped, TickUnchangedTyped DEF RunEndsLease
<1>3. CASE RunEnded(r)
  <2>1. Closes(r) => StoreTypeOK'
    BY <1>b, TransitionTyped, FailTyped DEF Closes
  <2>2. StoreTypeOK'
    BY <1>3, <2>1, StoreUnchangedTyped DEF RunEnded
  <2>3. RunTypeOK'
    BY <1>3, <1>a, ObserveTyped DEF RunEnded, RunTypeOK, AgentStates
  <2> QED
    BY <1>3, <2>2, <2>3, ForgeUnchangedTyped, LeaseUnchangedTyped, TickUnchangedTyped DEF RunEnded
<1>4. CASE RunProjects(r)
  <2>1. {"done"} \in SUBSET StateLabels
    BY DEF StateLabels
  <2>2. StoreTypeOK' /\ ForgeTypeOK'
    BY <1>4, <2>1, ProjectsTyped, ProjectsFailureTyped DEF RunProjects
  <2>3. RunTypeOK'
    BY <1>4, <1>a DEF RunProjects, RunTypeOK, AgentStates
  <2> QED
    BY <1>4, <2>2, <2>3, LeaseUnchangedTyped, TickUnchangedTyped DEF RunProjects
<1>5. CASE RunUntracks(r)
  <2>1. RunTypeOK'
    BY <1>5, <1>a DEF RunUntracks, RunTypeOK, AgentStates
  <2> QED
    BY <1>5, <2>1, LeaseOpsTyped, StoreUnchangedTyped, ForgeUnchangedTyped, TickUnchangedTyped
    DEF RunUntracks
<1> QED
  BY <1>1, <1>2, <1>3, <1>4, <1>5 DEF RunFinishes

\* Time, restarts and humans.
LEMMA EnvironmentTyped ==
  ASSUME TypeOK, Clock \/ Crash \/ \E i \in Issues : Human(i)
  PROVE  TypeOK'
<1> USE DEF TypeOK
<1>1. CASE Clock
  BY <1>1, AgesTyped, ForgeUnchangedTyped, LeaseUnchangedTyped, RunUnchangedTyped, TickUnchangedTyped
  DEF Clock
<1>2. CASE Crash
  <2>1. LeaseTypeOK'
    BY <1>2 DEF Crash, ProcessDies, LeaseTypeOK, LeaseStates, CredStates
  <2>2. RunTypeOK'
    BY <1>2 DEF Crash, RunTypeOK, AgentStates
  <2>3. TickTypeOK'
    <3>1. AnIssue \in Issues
      BY StoreAssumption DEF AnIssue
    <3> QED
      BY <1>2, <3>1 DEF Crash, TickTypeOK, TickStates, RowSteps, ActiveStates, Causes, NoIssues
  <2>4. crashes' \in 0..MaxCrashes
    BY <1>2, DispatchAssumption DEF Crash
  <2> QED
    BY <1>2, <2>1, <2>2, <2>3, <2>4, StoreUnchangedTyped, ForgeUnchangedTyped DEF Crash
<1>3. CASE \E i \in Issues : Human(i)
  <2>1. PICK i \in Issues : Human(i)
    BY <1>3
  <2>2. forge' \in [Issues -> IssueState]
    <3>0. forge \in [Issues -> IssueState] /\ forge[i] \in IssueState
      BY <2>1 DEF ForgeTypeOK
    <3>1. CASE \E s \in Scopes \ forge[i].scopes : forge' = [forge EXCEPT ![i].scopes = @ \cup {s}]
      BY <2>1, <3>0, <3>1 DEF IssueState
    <3>2. CASE \E l \in forge[i].state \cap {"done", "failed"} : forge' = [forge EXCEPT ![i].state = @ \ {l}]
      BY <2>1, <3>0, <3>2 DEF IssueState
    <3>3. CASE forge' = [forge EXCEPT ![i].gate = ~@]
      BY <2>1, <3>0, <3>3 DEF IssueState
    <3>4. CASE forge' = [forge EXCEPT ![i].open = ~@]
      BY <2>1, <3>0, <3>4 DEF IssueState
    <3> QED
      BY <2>1, <3>1, <3>2, <3>3, <3>4 DEF Human
  <2> QED
    BY <2>1, <2>2, StoreUnchangedTyped, LeaseUnchangedTyped, RunUnchangedTyped, TickUnchangedTyped
    DEF Human, ForgeTypeOK
<1> QED
  BY <1>1, <1>2, <1>3

LEMMA InitTyped == Init => TypeOK
<1> SUFFICES ASSUME Init PROVE TypeOK
  OBVIOUS
<1>1. StoreTypeOK
  BY StoreAssumption DEF Init, StoreInit, StoreTypeOK, States, Causes
<1>2. LeaseTypeOK
  BY DEF Init, LeaseInit, LeaseTypeOK, LeaseStates, CredStates
<1>3. ForgeTypeOK
  BY DEF Init, ForgeTypeOK, IssueState
<1>4. RunTypeOK
  BY DEF Init, RunTypeOK, AgentStates
<1>5. TickTypeOK
  BY StoreAssumption DEF Init, TickTypeOK, TickStates, RowSteps, ActiveStates, Causes, NoIssues, AnIssue
<1>6. crashes \in 0..MaxCrashes
  BY DispatchAssumption DEF Init
<1> QED
  BY <1>1, <1>2, <1>3, <1>4, <1>5, <1>6 DEF TypeOK

\* No step of any actor breaks a type.
LEMMA NextTyped == TypeOK /\ [Next]_vars => TypeOK'
<1> SUFFICES ASSUME TypeOK, [Next]_vars PROVE TypeOK'
  OBVIOUS
<1>1. CASE \E t \in Ticks : TickStep(t) \/ CancelTick(t)
  BY <1>1, SweepingTyped, ListingTyped, StartingTyped DEF TickStep, Dispatching
<1>2. CASE \E r \in Rows : AgentReturns(r) \/ RunFinishes(r)
  BY <1>2, RunTyped
<1>3. CASE Clock \/ Crash \/ \E i \in Issues : Human(i)
  BY <1>3, EnvironmentTyped
<1>4. CASE UNCHANGED vars
  BY <1>4, StoreUnchangedTyped, ForgeUnchangedTyped, LeaseUnchangedTyped, RunUnchangedTyped, TickUnchangedTyped
  DEF vars, TypeOK
<1> QED
  BY <1>1, <1>2, <1>3, <1>4 DEF Next

\* Type correctness, for any number of issues, rows, ticks and restarts.
THEOREM TypeCorrect == Spec => []TypeOK
BY InitTyped, NextTyped, PTL DEF Spec

----------------------------------------------------------------------------
(* What one step may do to the rows: at most one SQL statement.            *)

StoreStep ==
  \/ UNCHANGED <<st, issueOf, cause>>
  \/ \E r \in Rows :
       \/ \E i \in Issues, s \in Scopes : InsertDispatch(r, i, s)
       \/ \E from \in ActiveStates, to \in States : TransitionDispatch(r, from, to)
       \/ \E from \in ActiveStates, w \in Causes : FailDispatch(r, from, w)
       \/ DeleteQueuedDispatch(r)

LEMMA ProjectionIsQuiet ==
  ASSUME NEW r, NEW add, NEW rem, NEW drop, NEW wrote, Projects(r, add, rem, drop, wrote)
  PROVE  UNCHANGED <<st, issueOf, cause>>
BY DEF Projects, SetDispatchLabelsPending, storeVars

LEMMA FailureProjectionIsQuiet ==
  ASSUME NEW r, NEW wrote, ProjectsFailure(r, wrote)
  PROVE  UNCHANGED <<st, issueOf, cause>>
BY ProjectionIsQuiet DEF ProjectsFailure, SetDispatchLabelsPending

LEMMA TickRows == ASSUME TypeOK, NEW t \in Ticks, TickStep(t) \/ CancelTick(t) PROVE StoreStep
<1>a. pc[t] \in RowSteps => cur[t] \in Rows
  BY DEF TypeOK, TickTypeOK
<1>b. phase[t] \in ActiveStates /\ why[t] \in Causes /\ iss[t] \in Issues
  BY DEF TypeOK, TickTypeOK
<1>1. CASE UNCHANGED storeVars
  BY <1>1 DEF StoreStep, storeVars
<1>2. CASE FailSwept(t)
  <2>1. cur[t] \in Rows
    BY <1>2, <1>a DEF FailSwept, RowSteps
  <2> QED
    BY <1>1, <1>2, <1>b, <2>1 DEF FailSwept, StoreStep
<1>3. CASE SweepProject(t) \/ FailProject(t) \/ LabelQueued(t) \/ ProjectRunning(t)
  BY <1>3, ProjectionIsQuiet, FailureProjectionIsQuiet
  DEF SweepProject, FailProject, LabelQueued, ProjectRunning, StoreStep
<1>4. CASE WarnUnrouted(t)
  BY <1>1, <1>4 DEF WarnUnrouted, RecordDispatchWarning, StoreStep
<1>5. CASE WarnPost(t) \/ WarnForget(t)
  BY <1>1, <1>5 DEF WarnPost, WarnForget, ForgetDispatchWarning, StoreStep, storeVars
<1>6. CASE Insert(t)
  <2>1. snap[t][iss[t]] \subseteq Scopes
    BY <1>b DEF TypeOK, TickTypeOK
  <2>2. First(snap[t][iss[t]]) \subseteq Scopes
    BY <2>1 DEF First
  <2> QED
    BY <1>1, <1>6, <1>b, <2>2 DEF Insert, StoreStep
<1>7. CASE Abandon(t)
  <2>1. cur[t] \in Rows
    BY <1>7, <1>a DEF Abandon, RowSteps
  <2> QED
    BY <1>1, <1>7, <2>1 DEF Abandon, StoreStep
<1>8. CASE RunStarted(t)
  <2>1. cur[t] \in Rows
    BY <1>8, <1>a DEF RunStarted, RowSteps
  <2>2. "queued" \in ActiveStates /\ "running" \in States
    BY DEF ActiveStates, States
  <2> QED
    BY <1>1, <1>8, <2>1, <2>2 DEF RunStarted, StoreStep
<1>9. CASE FailStart(t)
  <2>1. cur[t] \in Rows
    BY <1>9, <1>a DEF FailStart, RowSteps
  <2>2. "queued" \in ActiveStates /\ "start_error" \in Causes
    BY DEF ActiveStates, Causes, Failures
  <2> QED
    BY <1>1, <1>9, <2>1, <2>2 DEF FailStart, StoreStep
<1>10. CASE StartTick(t) \/ CancelTick(t) \/ TickAborts(t) \/ ListDispatches(t) \/ SweepRow(t)
            \/ SweepListDone(t) \/ EndLease(t) \/ ListIssues(t) \/ PickIssue(t) \/ TickDone(t)
            \/ ChooseRoute(t) \/ Reread(t) \/ BeginStart(t) \/ Provision(t) \/ Seed(t) \/ TearDownRun(t)
  BY <1>1, <1>10 DEF StartTick, CancelTick, TickAborts, ListDispatches, SweepRow, SweepListDone,
     EndLease, ListIssues, PickIssue, TickDone, ChooseRoute, Reread, BeginStart, Provision, Seed, TearDownRun
<1> QED
  BY <1>2, <1>3, <1>4, <1>5, <1>6, <1>7, <1>8, <1>9, <1>10 DEF TickStep, Sweeping, Dispatching

LEMMA ClosesRows == ASSUME NEW r \in Rows, Closes(r) PROVE StoreStep
<1>1. "done" \in States /\ "run_error" \in Causes
  BY DEF States, TerminalStates, Causes, Failures
<1> QED
  BY <1>1 DEF Closes, StoreStep

\* Every step of every actor runs at most one statement on the rows.
LEMMA NextRows == TypeOK /\ [Next]_vars => StoreStep
<1> SUFFICES ASSUME TypeOK, [Next]_vars PROVE StoreStep
  OBVIOUS
<1>0. CASE UNCHANGED storeVars
  BY <1>0 DEF StoreStep, storeVars
<1>1. CASE \E t \in Ticks : TickStep(t) \/ CancelTick(t)
  BY <1>1, TickRows
<1>2. CASE \E r \in Rows : AgentReturns(r) \/ RunFinishes(r)
  <2>1. PICK r \in Rows : AgentReturns(r) \/ RunFinishes(r)
    BY <1>2
  <2>2. CASE AgentReturns(r) \/ RunEndsLease(r) \/ RunUntracks(r)
    BY <1>0, <2>2 DEF AgentReturns, RunEndsLease, RunUntracks
  <2>3. CASE RunEnded(r)
    BY <1>0, <2>3, ClosesRows DEF RunEnded
  <2>4. CASE RunProjects(r)
    <3>1. UNCHANGED <<st, issueOf, cause>>
      BY <2>4, ProjectionIsQuiet, FailureProjectionIsQuiet DEF RunProjects
    <3> QED
      BY <3>1 DEF StoreStep
  <2> QED
    BY <2>1, <2>2, <2>3, <2>4 DEF RunFinishes
<1>3. CASE Clock
  BY <1>3 DEF Clock, Ages, StoreStep
<1>4. CASE Crash \/ \E i \in Issues : Human(i)
  BY <1>0, <1>4 DEF Crash, Human
<1>5. CASE UNCHANGED vars
  BY <1>0, <1>5 DEF vars
<1> QED
  BY <1>1, <1>2, <1>3, <1>4, <1>5 DEF Next

----------------------------------------------------------------------------
(* The exactly-once index and the state machine.                           *)

\* A statement on the rows keeps one active row per issue: an insert because
\* the index found none, the others because they activate nothing.
LEMMA OneActiveStep == StoreTypeOK /\ OneActivePerIssue /\ StoreStep => OneActivePerIssue'
<1> SUFFICES ASSUME StoreTypeOK, OneActivePerIssue, StoreStep PROVE OneActivePerIssue'
  OBVIOUS
<1> USE DEF OneActivePerIssue, Active
<1>1. CASE UNCHANGED <<st, issueOf, cause>>
  BY <1>1
<1>2. CASE \E r \in Rows, i \in Issues, s \in Scopes : InsertDispatch(r, i, s)
  <2>1. PICK r \in Rows, i \in Issues, s \in Scopes : InsertDispatch(r, i, s)
    BY <1>2
  <2>2. \A q \in Rows : issueOf[q] = i => st[q] \notin ActiveStates
    BY <2>1 DEF InsertDispatch, IndexAdmits, ActiveRows
  <2>3. \A q \in Rows \ {r} : st'[q] = st[q] /\ issueOf'[q] = issueOf[q]
    BY <2>1 DEF InsertDispatch, StoreTypeOK
  <2>4. issueOf'[r] = i
    BY <2>1 DEF InsertDispatch, StoreTypeOK
  <2> QED
    BY <2>2, <2>3, <2>4
<1>3. CASE \E r \in Rows, from \in ActiveStates, to \in States : Moves(r, from, to)
  BY <1>3 DEF Moves, StoreTypeOK, ActiveStates
<1>4. CASE \E r \in Rows : DeleteQueuedDispatch(r)
  BY <1>4 DEF DeleteQueuedDispatch, StoreTypeOK, ActiveStates
<1>5. "failed" \in States
  BY DEF States, TerminalStates
<1> QED
  BY <1>1, <1>2, <1>3, <1>4, <1>5 DEF StoreStep, TransitionDispatch, FailDispatch

\* At most one dispatch of an issue is active, for every number of
\* concurrent ticks, sweeps and runs and in every fault: what the partial
\* unique index of dispatch_store.go is for.
THEOREM OneActiveDispatch == Spec => []OneActivePerIssue
<1>1. Init => OneActivePerIssue
  BY DEF Init, StoreInit, OneActivePerIssue, Active, ActiveStates
<1>2. TypeOK /\ OneActivePerIssue /\ [Next]_vars => OneActivePerIssue'
  BY NextRows, OneActiveStep DEF TypeOK
<1> QED
  BY <1>1, <1>2, TypeCorrect, PTL DEF Spec

\* A statement leaves terminal rows alone.
LEMMA TerminalStep ==
  ASSUME StoreTypeOK, StoreStep, NEW r \in Rows, st[r] \in TerminalStates
  PROVE  st'[r] = st[r] /\ cause'[r] = cause[r]
<1>1. st[r] \notin ActiveStates \cup {"absent"}
  BY DEF TerminalStates, ActiveStates
<1>2. CASE \E q \in Rows, i \in Issues, s \in Scopes : InsertDispatch(q, i, s)
  BY <1>1, <1>2 DEF InsertDispatch, StoreTypeOK
<1>3. CASE \E q \in Rows, from \in ActiveStates, to \in States : TransitionDispatch(q, from, to)
  BY <1>1, <1>3 DEF TransitionDispatch, Moves, StoreTypeOK
<1>4. CASE \E q \in Rows, from \in ActiveStates, w \in Causes : FailDispatch(q, from, w)
  BY <1>1, <1>4 DEF FailDispatch, Moves, StoreTypeOK
<1>5. CASE \E q \in Rows : DeleteQueuedDispatch(q)
  BY <1>1, <1>5 DEF DeleteQueuedDispatch, StoreTypeOK, ActiveStates
<1> QED
  BY <1>2, <1>3, <1>4, <1>5 DEF StoreStep

\* The first compare-and-set to end a row is the last: neither a sweep, nor
\* a failed start, nor the run's own report changes it again.
THEOREM TerminalRowsAreFinal == Spec => TerminalIsFinal
<1>1. TypeOK /\ [Next]_vars =>
        [\A r \in Rows : st[r] \in TerminalStates => st'[r] = st[r] /\ cause'[r] = cause[r]]_vars
  BY NextRows, TerminalStep DEF TypeOK
<1> QED
  BY <1>1, TypeCorrect, PTL DEF Spec, TerminalIsFinal

----------------------------------------------------------------------------
(* Each end is reported once.  ReportedOnce is not inductive: a second     *)
(* report is impossible because only the statement that ends a row earns   *)
(* one, and the sweep that won it reports only after the lease end.        *)

Ended(r) == st[r] \in TerminalStates

ReportInv ==
  /\ \A r \in Rows : observed[r] \in {0, 1}
  /\ \A r \in Rows : ~Ended(r) => observed[r] = 0
  /\ \A t \in Ticks : pc[t] = "endLease" => Ended(cur[t]) /\ observed[cur[t]] = 0
  /\ \A t, u \in Ticks : pc[t] = "endLease" /\ pc[u] = "endLease" /\ cur[t] = cur[u] => t = u
  /\ \A r \in Rows : Ended(r) /\ observed[r] = 0 =>
       crashes > 0 \/ MayFail("store") \/ \E t \in Ticks : cur[t] = r /\ pc[t] = "endLease"

\* No tick enters or leaves the lease end of a swept row.
KeepsEnding ==
  \A t \in Ticks : /\ pc'[t] = "endLease" <=> pc[t] = "endLease"
                   /\ pc[t] = "endLease" => cur'[t] = cur[t]

\* Ended rows stay ended, and only a store that may fail ends one unseen.
KeepsEnds ==
  /\ \A r \in Rows : Ended(r) => Ended(r)'
  /\ MayFail("store") \/ \A r \in Rows : Ended(r)' => Ended(r)

Silent == KeepsEnding /\ KeepsEnds /\ UNCHANGED <<observed, crashes>>

\* Row r ends and is reported in one step.
Reports(r) ==
  /\ ~Ended(r) /\ Ended(r)'
  /\ \A q \in Rows \ {r} : Ended(q)' <=> Ended(q)
  /\ Observe(r) /\ KeepsEnding /\ UNCHANGED crashes

\* A row ends and the sweep of tick t will report it.
Sweeps(t) ==
  /\ cur[t] \in Rows /\ ~Ended(cur[t]) /\ Ended(cur[t])'
  /\ \A q \in Rows \ {cur[t]} : Ended(q)' <=> Ended(q)
  /\ pc[t] # "endLease" /\ pc' = [pc EXCEPT ![t] = "endLease"]
  /\ UNCHANGED <<cur, observed, crashes>>

LEMMA SilentKeeps == TypeOK /\ ReportInv /\ Silent => ReportInv'
<1> SUFFICES ASSUME TypeOK, ReportInv, Silent PROVE ReportInv'
  OBVIOUS
<1>0. \A t \in Ticks : pc[t] = "endLease" => cur[t] \in Rows
  BY DEF TypeOK, TickTypeOK, RowSteps
<1> QED
  BY <1>0 DEF ReportInv, Silent, KeepsEnding, KeepsEnds, Ended, MayFail

LEMMA ReportsKeeps == ASSUME TypeOK, ReportInv, NEW r \in Rows, Reports(r) PROVE ReportInv'
<1>0. \A t \in Ticks : pc[t] = "endLease" => cur[t] \in Rows
  BY DEF TypeOK, TickTypeOK, RowSteps
<1>1. observed[r] = 0
  BY DEF ReportInv, Reports
<1>2. observed' = [observed EXCEPT ![r] = 1]
  BY <1>1 DEF Reports, Observe
<1>3. observed'[r] = 1 /\ \A q \in Rows \ {r} : observed'[q] = observed[q]
  BY <1>2 DEF TypeOK, RunTypeOK
<1>4. \A t \in Ticks : pc[t] = "endLease" => cur[t] # r
  BY DEF ReportInv, Reports
<1> QED
  BY <1>0, <1>1, <1>3, <1>4 DEF ReportInv, Reports, KeepsEnding, Ended, MayFail

LEMMA SweepsKeeps == ASSUME TypeOK, ReportInv, NEW t \in Ticks, Sweeps(t) PROVE ReportInv'
<1>0. \A u \in Ticks : pc[u] = "endLease" => cur[u] \in Rows
  BY DEF TypeOK, TickTypeOK, RowSteps
<1>1. pc'[t] = "endLease" /\ \A u \in Ticks \ {t} : pc'[u] = pc[u]
  BY DEF Sweeps, TypeOK, TickTypeOK
<1>2. \A u \in Ticks : pc[u] = "endLease" => cur[u] # cur[t]
  BY DEF ReportInv, Sweeps
<1> QED
  BY <1>0, <1>1, <1>2 DEF ReportInv, Sweeps, Ended, MayFail

LEMMA EndLeaseKeeps == ASSUME TypeOK, ReportInv, NEW t \in Ticks, EndLease(t) PROVE ReportInv'
<1>0. \A u \in Ticks : pc[u] = "endLease" => cur[u] \in Rows
  BY DEF TypeOK, TickTypeOK, RowSteps
<1>1. pc'[t] = "sweepProject" /\ \A u \in Ticks \ {t} : pc'[u] = pc[u]
  BY DEF EndLease, Step, Goto, TypeOK, TickTypeOK
<1>2. UNCHANGED <<st, cur, crashes>>
  BY DEF EndLease, storeVars, Step
<1>3. pc[t] = "endLease" /\ cur[t] \in Rows /\ observed[cur[t]] = 0 /\ Ended(cur[t])
  BY <1>0 DEF EndLease, ReportInv
<1>4. observed'[cur[t]] = 1 /\ \A q \in Rows \ {cur[t]} : observed'[q] = observed[q]
  BY <1>3 DEF EndLease, Observe, TypeOK, RunTypeOK
<1>5. \A u \in Ticks : pc'[u] = "endLease" => pc[u] = "endLease" /\ cur[u] # cur[t]
  BY <1>1, <1>3 DEF ReportInv
<1> QED
  BY <1>0, <1>1, <1>2, <1>3, <1>4, <1>5 DEF ReportInv, Ended, MayFail

LEMMA CrashKeeps == TypeOK /\ ReportInv /\ Crash => ReportInv'
<1> SUFFICES ASSUME TypeOK, ReportInv, Crash PROVE ReportInv'
  OBVIOUS
<1>1. crashes' > 0
  BY DispatchAssumption DEF Crash, TypeOK
<1>2. \A t \in Ticks : pc'[t] = "idle"
  BY DEF Crash
<1>3. UNCHANGED <<st, observed>>
  BY DEF Crash, storeVars
<1> QED
  BY <1>1, <1>2, <1>3 DEF ReportInv, Ended

----------------------------------------------------------------------------
\* A tick that moves between two other steps enters and leaves no lease end.
LEMMA LocalMoves ==
  ASSUME TickTypeOK, NEW t \in Ticks, pc[t] # "endLease",
         \/ Return(t) \/ NextIssue(t) \/ NextRow(t)
         \/ \E s \in TickStates \ {"endLease"} : Goto(t, s) /\ UNCHANGED cur
  PROVE  KeepsEnding
BY DEF Return, NextIssue, NextRow, Goto, KeepsEnding, TickTypeOK

\* What the statements do to ended rows.
LEMMA QuietKeepsEnds == UNCHANGED st => KeepsEnds
BY DEF KeepsEnds, Ended

LEMMA InsertKeepsEnds ==
  ASSUME StoreTypeOK, NEW r \in Rows, NEW i, NEW s, InsertDispatch(r, i, s) PROVE KeepsEnds
BY DEF InsertDispatch, KeepsEnds, Ended, StoreTypeOK, TerminalStates

LEMMA DeleteKeepsEnds ==
  ASSUME StoreTypeOK, NEW r \in Rows, DeleteQueuedDispatch(r) PROVE KeepsEnds
BY DEF DeleteQueuedDispatch, KeepsEnds, Ended, StoreTypeOK, TerminalStates

LEMMA StartKeepsEnds ==
  ASSUME StoreTypeOK, NEW r \in Rows, TransitionDispatch(r, "queued", "running") PROVE KeepsEnds
BY DEF TransitionDispatch, Moves, KeepsEnds, Ended, StoreTypeOK, TerminalStates

LEMMA MovesEnds ==
  ASSUME StoreTypeOK, NEW r \in Rows, NEW from, NEW to \in TerminalStates, Moves(r, from, to)
  PROVE  /\ ~Ended(r) /\ Ended(r)'
         /\ \A q \in Rows \ {r} : Ended(q)' <=> Ended(q)
         /\ MayFail("store") => KeepsEnds
<1>1. from \notin TerminalStates
  BY DEF Moves, ValidDispatchTransition, TerminalStates
<1> QED
  BY <1>1 DEF Moves, Ended, KeepsEnds, StoreTypeOK

LEMMA FailEnds ==
  ASSUME StoreTypeOK, NEW r \in Rows, NEW from, NEW w, FailDispatch(r, from, w)
  PROVE  /\ ~Ended(r) /\ Ended(r)'
         /\ \A q \in Rows \ {r} : Ended(q)' <=> Ended(q)
         /\ MayFail("store") => KeepsEnds
<1>1. "failed" \in TerminalStates /\ Moves(r, from, "failed")
  BY DEF TerminalStates, FailDispatch
<1> QED
  BY <1>1, MovesEnds

LEMMA ClosesEnds ==
  ASSUME StoreTypeOK, NEW r \in Rows, Closes(r)
  PROVE  /\ ~Ended(r) /\ Ended(r)'
         /\ \A q \in Rows \ {r} : Ended(q)' <=> Ended(q)
         /\ MayFail("store") => KeepsEnds
<1>1. "done" \in TerminalStates
  BY DEF TerminalStates
<1> QED
  BY <1>1, MovesEnds, FailEnds DEF Closes, TransitionDispatch

\* A tick's step, in terms of ends and reports.
LEMMA TickReports ==
  ASSUME TypeOK, NEW t \in Ticks, TickStep(t) \/ CancelTick(t)
  PROVE  Silent \/ Sweeps(t) \/ EndLease(t) \/ \E r \in Rows : Reports(r)
<1> USE DEF TypeOK
<1>a. pc[t] \in RowSteps => cur[t] \in Rows
  BY DEF TickTypeOK
<1>b. ASSUME pc[t] # "endLease", NEW s \in TickStates \ {"endLease"}, Step(t, s)
      PROVE  KeepsEnding
  BY <1>b, LocalMoves DEF Step
<1>1. CASE FailSwept(t)
  <2>1. cur[t] \in Rows /\ pc[t] # "endLease" /\ UNCHANGED <<observed, crashes>>
    BY <1>1, <1>a DEF FailSwept, RowSteps, runVars
  <2>2. CASE FailDispatch(cur[t], phase[t], why[t]) /\ Step(t, "endLease")
    BY <2>1, <2>2, FailEnds DEF Sweeps, Step, Goto
  <2>3. CASE st[cur[t]] # phase[t] /\ NextRow(t) /\ UNCHANGED storeVars
    BY <2>1, <2>3, LocalMoves, QuietKeepsEnds DEF Silent, storeVars
  <2>4. CASE /\ MayFail("store")
             /\ FailDispatch(cur[t], phase[t], why[t]) \/ UNCHANGED storeVars
             /\ Return(t)
    BY <2>1, <2>4, LocalMoves, QuietKeepsEnds, FailEnds DEF Silent, storeVars
  <2> QED
    BY <1>1, <2>2, <2>3, <2>4 DEF FailSwept
<1>2. CASE SweepProject(t) \/ FailProject(t)
  <2>1. pc[t] # "endLease" /\ UNCHANGED <<st, observed, crashes>>
    BY <1>2, FailureProjectionIsQuiet DEF SweepProject, FailProject, runVars
  <2>2. Return(t) \/ NextRow(t) \/ NextIssue(t)
    BY <1>2 DEF SweepProject, FailProject
  <2> QED
    BY <2>1, <2>2, LocalMoves, QuietKeepsEnds DEF Silent
<1>3. CASE LabelQueued(t)
  <2>1. pc[t] # "endLease" /\ UNCHANGED <<st, observed, crashes>>
    BY <1>3, ProjectionIsQuiet DEF LabelQueued, runVars
  <2>2. \E s \in TickStates \ {"endLease"} : Goto(t, s) /\ UNCHANGED cur
    BY <1>3 DEF LabelQueued, Step, TickStates
  <2> QED
    BY <2>1, <2>2, LocalMoves, QuietKeepsEnds DEF Silent
<1>4. CASE ProjectRunning(t)
  <2>1. pc[t] # "endLease" /\ UNCHANGED <<st, observed, crashes>>
    BY <1>4, ProjectionIsQuiet DEF ProjectRunning, Launch
  <2> QED
    BY <1>4, <2>1, LocalMoves, QuietKeepsEnds DEF Silent, ProjectRunning
<1>5. CASE WarnUnrouted(t) \/ WarnPost(t) \/ WarnForget(t)
  <2>1. pc[t] # "endLease" /\ UNCHANGED <<st, observed, crashes>>
    BY <1>5 DEF WarnUnrouted, WarnPost, WarnForget, RecordDispatchWarning, ForgetDispatchWarning, storeVars, runVars
  <2>2. Return(t) \/ \E s \in TickStates \ {"endLease"} : Goto(t, s) /\ UNCHANGED cur
    <3>1. pc \in [Ticks -> TickStates]
      BY DEF TickTypeOK
    <3>2. UNCHANGED pc => Goto(t, pc[t])
      BY <3>1 DEF Goto
    <3>3. {"warnPost", "warnForget", "scan"} \subseteq TickStates \ {"endLease"}
      BY DEF TickStates
    <3>4. CASE WarnUnrouted(t)
      BY <3>1, <3>2, <3>3, <3>4, <2>1 DEF WarnUnrouted, Step
    <3>5. CASE WarnPost(t) \/ WarnForget(t)
      BY <3>3, <3>5 DEF WarnPost, WarnForget, Step
    <3> QED
      BY <1>5, <3>4, <3>5
  <2> QED
    BY <2>1, <2>2, LocalMoves, QuietKeepsEnds DEF Silent
<1>6. CASE Insert(t)
  <2>1. pc[t] # "endLease" /\ UNCHANGED <<observed, crashes>>
    BY <1>6 DEF Insert, runVars
  <2>2. "reread" \in TickStates \ {"endLease"}
    BY DEF TickStates
  <2>3. KeepsEnds
    BY <1>6, InsertKeepsEnds, QuietKeepsEnds DEF Insert, storeVars
  <2>4. CASE \E r \in Rows : Goto(t, "reread") /\ cur' = [cur EXCEPT ![t] = r]
    BY <2>1, <2>3, <2>4 DEF Goto, KeepsEnding, TickTypeOK, Silent
  <2>5. CASE Return(t) \/ NextIssue(t)
    BY <2>1, <2>3, <2>5, LocalMoves DEF Silent
  <2> QED
    BY <1>6, <2>4, <2>5 DEF Insert
<1>7. CASE Abandon(t)
  <2>1. cur[t] \in Rows /\ pc[t] # "endLease" /\ UNCHANGED <<observed, crashes>>
    BY <1>7, <1>a DEF Abandon, RowSteps, runVars
  <2> QED
    BY <1>7, <2>1, LocalMoves, DeleteKeepsEnds, QuietKeepsEnds DEF Abandon, Silent, storeVars
<1>8. CASE RunStarted(t)
  <2>1. cur[t] \in Rows /\ pc[t] # "endLease" /\ UNCHANGED <<observed, crashes>>
    BY <1>8, <1>a DEF RunStarted, RowSteps, runVars, Launch
  <2>2. KeepsEnds
    BY <1>8, <2>1, StartKeepsEnds, QuietKeepsEnds DEF RunStarted, storeVars
  <2>3. {"projectRunning", "tearDown"} \subseteq TickStates \ {"endLease"}
    BY DEF TickStates
  <2>4. KeepsEnding
    BY <1>8, <1>b, <2>1, <2>3, LocalMoves DEF RunStarted
  <2> QED
    BY <2>1, <2>2, <2>4 DEF Silent
<1>9. CASE FailStart(t)
  <2>1. cur[t] \in Rows /\ pc[t] # "endLease" /\ UNCHANGED crashes
    BY <1>9, <1>a DEF FailStart, RowSteps
  <2>2. "failProject" \in TickStates \ {"endLease"}
    BY DEF TickStates
  <2>3. CASE FailDispatch(cur[t], "queued", "start_error") /\ Observe(cur[t]) /\ Step(t, "failProject")
    BY <1>b, <2>1, <2>2, <2>3, FailEnds DEF Reports
  <2>4. CASE st[cur[t]] # "queued" /\ NextIssue(t) /\ UNCHANGED <<storeVars, observed>>
    BY <2>1, <2>4, LocalMoves, QuietKeepsEnds DEF Silent, storeVars
  <2>5. CASE /\ MayFail("store")
             /\ FailDispatch(cur[t], "queued", "start_error") \/ UNCHANGED storeVars
             /\ Return(t) /\ UNCHANGED observed
    BY <2>1, <2>5, LocalMoves, QuietKeepsEnds, FailEnds DEF Silent, storeVars
  <2> QED
    BY <1>9, <2>3, <2>4, <2>5 DEF FailStart
<1>10. CASE StartTick(t) \/ Reread(t) \/ BeginStart(t) \/ Provision(t) \/ Seed(t)
  <2>1. pc[t] # "endLease" /\ UNCHANGED <<st, observed, crashes>>
    BY <1>10 DEF StartTick, Reread, BeginStart, Provision, Seed, runVars, storeVars
  <2>2. \E s \in TickStates \ {"endLease"} : Goto(t, s) /\ UNCHANGED cur
    BY <1>10 DEF StartTick, Reread, BeginStart, Provision, Seed, Step, TickStates
  <2> QED
    BY <2>1, <2>2, LocalMoves, QuietKeepsEnds DEF Silent
<1>11. CASE TickAborts(t) \/ TickDone(t) \/ TearDownRun(t) \/ ChooseRoute(t)
  <2>1. pc[t] # "endLease" /\ UNCHANGED <<st, observed, crashes>>
    BY <1>11 DEF TickAborts, TickDone, TearDownRun, ChooseRoute, runVars, storeVars
  <2>2. Return(t) \/ NextIssue(t) \/ \E s \in TickStates \ {"endLease"} : Goto(t, s) /\ UNCHANGED cur
    BY <1>11 DEF TickAborts, TickDone, TearDownRun, ChooseRoute, Step, TickStates
  <2> QED
    BY <2>1, <2>2, LocalMoves, QuietKeepsEnds DEF Silent
<1>12. CASE ListDispatches(t) \/ SweepListDone(t) \/ ListIssues(t) \/ PickIssue(t)
  <2>1. pc[t] # "endLease" /\ UNCHANGED <<st, observed, crashes>>
    BY <1>12 DEF ListDispatches, SweepListDone, ListIssues, PickIssue, runVars, storeVars
  <2>2. \E s \in TickStates \ {"endLease"} : Goto(t, s) /\ UNCHANGED cur
    BY <1>12 DEF ListDispatches, SweepListDone, ListIssues, PickIssue, TickStates
  <2> QED
    BY <2>1, <2>2, LocalMoves, QuietKeepsEnds DEF Silent
<1>13. CASE SweepRow(t)
  <2>1. pc[t] # "endLease" /\ UNCHANGED <<st, observed, crashes>>
    BY <1>13 DEF SweepRow, runVars, storeVars
  <2>2. KeepsEnding
    BY <1>13 DEF SweepRow, Goto, KeepsEnding, TickTypeOK
  <2> QED
    BY <2>1, <2>2, QuietKeepsEnds DEF Silent
<1>14. CASE CancelTick(t)
  BY <1>14, QuietKeepsEnds DEF CancelTick, Silent, KeepsEnding, runVars, storeVars
<1> QED
  BY <1>1, <1>2, <1>3, <1>4, <1>5, <1>6, <1>7, <1>8, <1>9, <1>10, <1>11, <1>12, <1>13, <1>14
  DEF TickStep, Sweeping, Dispatching

\* A run's step, in terms of ends and reports.
LEMMA RunReports ==
  ASSUME TypeOK, NEW r \in Rows, AgentReturns(r) \/ RunFinishes(r)
  PROVE  Silent \/ Reports(r)
<1>1. KeepsEnding /\ UNCHANGED crashes
  BY DEF AgentReturns, RunFinishes, RunEndsLease, RunEnded, RunProjects, RunUntracks, KeepsEnding, tickVars
<1>2. CASE AgentReturns(r) \/ RunEndsLease(r) \/ RunUntracks(r)
  BY <1>1, <1>2, QuietKeepsEnds DEF AgentReturns, RunEndsLease, RunUntracks, Silent, storeVars
<1>3. CASE RunProjects(r)
  <2>1. UNCHANGED <<st, observed>>
    BY <1>3, ProjectionIsQuiet, FailureProjectionIsQuiet DEF RunProjects
  <2> QED
    BY <1>1, <2>1, QuietKeepsEnds DEF Silent
<1>4. CASE RunEnded(r)
  BY <1>1, <1>4, ClosesEnds, QuietKeepsEnds DEF RunEnded, Reports, Silent, storeVars, TypeOK
<1> QED
  BY <1>2, <1>3, <1>4 DEF RunFinishes

LEMMA ReportInvInit == Init => ReportInv
BY DEF Init, StoreInit, ReportInv, Ended, TerminalStates

LEMMA ReportInvNext == TypeOK /\ ReportInv /\ [Next]_vars => ReportInv'
<1> SUFFICES ASSUME TypeOK, ReportInv, [Next]_vars PROVE ReportInv'
  OBVIOUS
<1>1. CASE \E t \in Ticks : TickStep(t) \/ CancelTick(t)
  BY <1>1, TickReports, SilentKeeps, SweepsKeeps, EndLeaseKeeps, ReportsKeeps
<1>2. CASE \E r \in Rows : AgentReturns(r) \/ RunFinishes(r)
  BY <1>2, RunReports, SilentKeeps, ReportsKeeps
<1>3. CASE Crash
  BY <1>3, CrashKeeps
<1>4. CASE Clock \/ (\E i \in Issues : Human(i)) \/ UNCHANGED vars
  <2>1. UNCHANGED <<st, observed, crashes, pc, cur>>
    BY <1>4 DEF Clock, Ages, Human, vars, storeVars, runVars, tickVars
  <2> QED
    BY <2>1, QuietKeepsEnds, SilentKeeps DEF Silent, KeepsEnding
<1> QED
  BY <1>1, <1>2, <1>3, <1>4 DEF Next

\* Of the sweep, the failed start and the run's own end, exactly the one
\* whose compare-and-set ended the row reports it: never two reports, and
\* none is missing unless the daemon died or the store failed in between.
THEOREM EndsAreReportedOnce == Spec => []ReportedOnce
<1>1. ReportInv => ReportedOnce
  BY DEF ReportInv, ReportedOnce, Ended
<1> QED
  BY <1>1, ReportInvInit, ReportInvNext, TypeCorrect, PTL DEF Spec

----------------------------------------------------------------------------
(* The dispatcher implements DispatchPromise.  The refinement mapping       *)
(* chooses the issue's active row; OneActivePerIssue makes the choice the   *)
(* only one, in this state and in the next.                                 *)

LEMMA ChosenIsMember == ASSUME NEW S, S # {} PROVE (CHOOSE r \in S : TRUE) \in S
OBVIOUS

\* The holder of an issue, as the mapping sees it.
HoldersKnown ==
  /\ \A r \in Rows : Active(r) => Holder[issueOf[r]] = r
  /\ \A i \in Issues : Holder[i] # NoRow => Holder[i] \in ActiveRows(i)

LEMMA HolderIsTheActiveRow == StoreTypeOK /\ OneActivePerIssue => HoldersKnown
<1> SUFFICES ASSUME StoreTypeOK, OneActivePerIssue PROVE HoldersKnown
  OBVIOUS
<1>1. ASSUME NEW i \in Issues, ActiveRows(i) # {} PROVE Holder[i] \in ActiveRows(i)
  <2>1. Holder[i] = CHOOSE r \in ActiveRows(i) : TRUE
    BY <1>1 DEF Holder
  <2> QED
    BY <1>1, <2>1, ChosenIsMember
<1>2. ASSUME NEW i \in Issues, ActiveRows(i) = {} PROVE Holder[i] = NoRow
  BY <1>2 DEF Holder
<1>3. ASSUME NEW r \in Rows, Active(r) PROVE Holder[issueOf[r]] = r
  <2>1. issueOf[r] \in Issues /\ r \in ActiveRows(issueOf[r])
    BY <1>3 DEF StoreTypeOK, ActiveRows
  <2>2. Holder[issueOf[r]] \in ActiveRows(issueOf[r])
    BY <1>1, <2>1
  <2> QED
    BY <1>3, <2>2 DEF ActiveRows, OneActivePerIssue
<1> QED
  BY <1>1, <1>2, <1>3 DEF HoldersKnown

\* The same of the next state.
LEMMA NextHolderIsTheActiveRow == StoreTypeOK' /\ OneActivePerIssue' => HoldersKnown'
<1> SUFFICES ASSUME StoreTypeOK', OneActivePerIssue' PROVE HoldersKnown'
  OBVIOUS
<1>1. ASSUME NEW i \in Issues, ActiveRows(i)' # {} PROVE Holder'[i] \in ActiveRows(i)'
  <2>1. Holder'[i] = CHOOSE r \in ActiveRows(i)' : TRUE
    BY <1>1 DEF Holder
  <2> QED
    BY <1>1, <2>1, ChosenIsMember
<1>2. ASSUME NEW i \in Issues, ActiveRows(i)' = {} PROVE Holder'[i] = NoRow
  BY <1>2 DEF Holder
<1>3. ASSUME NEW r \in Rows, Active(r)' PROVE Holder'[issueOf'[r]] = r
  <2>1. PICK i \in Issues : i = issueOf'[r]
    BY DEF StoreTypeOK
  <2>2. r \in ActiveRows(i)'
    BY <1>3, <2>1 DEF ActiveRows
  <2>3. Holder'[i] \in ActiveRows(i)'
    BY <1>1, <2>2
  <2> QED
    BY <1>3, <2>1, <2>3 DEF ActiveRows, OneActivePerIssue
<1> QED
  BY <1>1, <1>2, <1>3 DEF HoldersKnown

\* A step that touches neither a state nor an issue column changes no
\* holder and no result.
LEMMA QuietMaps == UNCHANGED <<st, issueOf>> => UNCHANGED <<Holder, Result>>
BY DEF Holder, Result, ActiveRows, Active

\* An issue whose active rows stay the same keeps its holder.
LEMMA SameRowsSameHolder ==
  ASSUME NEW i \in Issues, ActiveRows(i)' = ActiveRows(i)
  PROVE  Holder'[i] = Holder[i]
<1>1. Holder[i] = IF ActiveRows(i) = {} THEN NoRow ELSE CHOOSE r \in ActiveRows(i) : TRUE
  BY DEF Holder
<1>2. Holder'[i] = IF ActiveRows(i)' = {} THEN NoRow ELSE CHOOSE r \in ActiveRows(i)' : TRUE
  BY DEF Holder
<1> QED
  BY <1>1, <1>2

\* The mapping, changed at one issue.
LEMMA HolderExcept ==
  ASSUME NEW i \in Issues, NEW x, Holder'[i] = x,
         \A j \in Issues : j # i => Holder'[j] = Holder[j]
  PROVE  Holder' = [Holder EXCEPT ![i] = x]
<1>1. PICK f : f = Holder
  OBVIOUS
<1>2. PICK g : g = Holder'
  OBVIOUS
<1>3. f = [j \in Issues |-> f[j]]
  BY <1>1 DEF Holder
<1>4. g = [j \in Issues |-> g[j]]
  BY <1>2 DEF Holder
<1>5. g = [f EXCEPT ![i] = x]
  BY <1>1, <1>2, <1>3, <1>4
<1> QED
  BY <1>1, <1>2, <1>5

\* An insert takes the issue.
LEMMA InsertTakes ==
  ASSUME StoreTypeOK, StoreTypeOK', OneActivePerIssue, OneActivePerIssue', UNCHANGED observed,
         NEW r \in Rows, NEW i \in Issues, NEW s \in Scopes, InsertDispatch(r, i, s)
  PROVE  Promise!Take(i, r)
<1>1. HoldersKnown /\ HoldersKnown'
  BY HolderIsTheActiveRow, NextHolderIsTheActiveRow
<1>2. /\ st'[r] = "queued" /\ issueOf'[r] = i /\ st[r] = "absent"
      /\ \A q \in Rows \ {r} : st'[q] = st[q] /\ issueOf'[q] = issueOf[q]
  BY DEF InsertDispatch, StoreTypeOK
<1>3. Holder[i] = NoRow
  BY DEF InsertDispatch, IndexAdmits, Holder
<1>4. Result[r] = "none"
  BY <1>2 DEF Result, TerminalStates
<1>5. \A j \in Issues : Holder[j] # r
  BY <1>1, <1>2, DispatchAssumption DEF HoldersKnown, ActiveRows, Active, ActiveStates
<1>6. Holder'[i] = r
  BY <1>1, <1>2 DEF HoldersKnown, Active, ActiveStates
<1>7. ASSUME NEW j \in Issues, j # i PROVE Holder'[j] = Holder[j]
  <2>1. ActiveRows(j)' = ActiveRows(j)
    BY <1>2, <1>7 DEF ActiveRows, Active, ActiveStates
  <2> QED
    BY <2>1, SameRowsSameHolder
<1>8. Holder' = [Holder EXCEPT ![i] = r]
  BY <1>6, <1>7, HolderExcept
<1>9. Result' = Result
  BY <1>2 DEF Result, TerminalStates
<1> QED
  BY <1>3, <1>4, <1>5, <1>8, <1>9 DEF Promise!Take

\* An active row that leaves the active states frees its issue, and none
\* other.
LEMMA LeavingFrees ==
  ASSUME StoreTypeOK, OneActivePerIssue, NEW r \in Rows, Active(r),
         NEW x \in States, x \notin ActiveStates, st' = [st EXCEPT ![r] = x], UNCHANGED issueOf
  PROVE  /\ Holder[issueOf[r]] = r
         /\ Holder' = [Holder EXCEPT ![issueOf[r]] = NoRow]
<1> DEFINE i == issueOf[r]
<1>1. HoldersKnown /\ i \in Issues
  BY HolderIsTheActiveRow DEF StoreTypeOK
<1>2. Holder[i] = r
  BY <1>1 DEF HoldersKnown
<1>3. /\ st'[r] = x
      /\ \A q \in Rows \ {r} : st'[q] = st[q] /\ issueOf'[q] = issueOf[q]
  BY DEF StoreTypeOK
<1>4. Holder'[i] = NoRow
  <2>1. ActiveRows(issueOf[r]) \subseteq {r}
    BY DEF ActiveRows, OneActivePerIssue
  <2>2. PICK k \in Issues : k = i
    BY <1>1
  <2>3. ActiveRows(k)' = {}
    BY <1>3, <2>1, <2>2 DEF ActiveRows, Active
  <2> QED
    BY <2>2, <2>3 DEF Holder
<1>5. ASSUME NEW j \in Issues, j # i PROVE Holder'[j] = Holder[j]
  <2>1. ActiveRows(j)' = ActiveRows(j)
    BY <1>3, <1>5 DEF ActiveRows, Active
  <2> QED
    BY <2>1, SameRowsSameHolder
<1>6. Holder' = [Holder EXCEPT ![i] = NoRow]
  BY <1>1, <1>4, <1>5, HolderExcept
<1> QED
  BY <1>2, <1>6

\* A compare-and-set to a terminal state settles the issue, reported or not.
LEMMA EndSettles ==
  ASSUME StoreTypeOK, OneActivePerIssue, ReportInv,
         NEW r \in Rows, NEW from, NEW to \in TerminalStates, Moves(r, from, to),
         observed' = [observed EXCEPT ![r] = 1] \/ UNCHANGED observed
  PROVE  Promise!Settle(issueOf[r], to)
<1>1. Active(r) /\ to \in States \ ActiveStates /\ st' = [st EXCEPT ![r] = to] /\ UNCHANGED issueOf
  BY DEF Moves, ValidDispatchTransition, Active, ActiveStates, TerminalStates, States
<1>2. /\ Holder[issueOf[r]] = r
      /\ Holder' = [Holder EXCEPT ![issueOf[r]] = NoRow]
  BY <1>1, LeavingFrees
<1>3. r # NoRow
  BY DispatchAssumption
<1>4. observed[r] = 0
  BY <1>1 DEF ReportInv, Ended, Active, ActiveStates, TerminalStates
<1>5. Result' = [Result EXCEPT ![r] = to]
  BY <1>1 DEF Result, StoreTypeOK
<1> QED
  BY <1>2, <1>3, <1>4, <1>5 DEF Promise!Settle

\* An abandoned row lets go of the issue; one that moved on is left alone.
LEMMA DeleteLetsGo ==
  ASSUME StoreTypeOK, OneActivePerIssue, UNCHANGED observed, NEW r \in Rows, DeleteQueuedDispatch(r)
  PROVE  Promise!LetGo(issueOf[r]) \/ UNCHANGED <<Holder, Result, observed>>
<1>1. CASE st[r] # "queued"
  BY <1>1, QuietMaps DEF DeleteQueuedDispatch
<1>2. CASE st[r] = "queued"
  <2>1. Active(r) /\ st' = [st EXCEPT ![r] = "deleted"] /\ UNCHANGED issueOf
    BY <1>2 DEF DeleteQueuedDispatch, Active, ActiveStates
  <2>2. "deleted" \in States \ ActiveStates
    BY DEF States, ActiveStates
  <2>3. /\ Holder[issueOf[r]] = r
        /\ Holder' = [Holder EXCEPT ![issueOf[r]] = NoRow]
    BY <2>1, <2>2, LeavingFrees
  <2>4. r # NoRow
    BY DispatchAssumption
  <2>5. Result' = Result
    BY <1>2, <2>1 DEF Result, StoreTypeOK, TerminalStates
  <2> QED
    BY <2>3, <2>4, <2>5 DEF Promise!LetGo
<1> QED
  BY <1>1, <1>2

\* QUEUED to RUNNING is nothing to the promise.
LEMMA StartIsQuiet ==
  ASSUME StoreTypeOK, NEW r \in Rows, NEW from, Moves(r, from, "running")
  PROVE  UNCHANGED <<Holder, Result>>
<1>1. /\ st[r] = "queued" /\ st'[r] = "running" /\ UNCHANGED issueOf
      /\ \A q \in Rows \ {r} : st'[q] = st[q]
  BY DEF Moves, ValidDispatchTransition, StoreTypeOK
<1>2. ASSUME NEW j \in Issues PROVE Holder'[j] = Holder[j]
  <2>1. ActiveRows(j)' = ActiveRows(j)
    BY <1>1 DEF ActiveRows, Active, ActiveStates
  <2> QED
    BY <2>1, SameRowsSameHolder
<1>3. Holder' = Holder
  BY <1>2 DEF Holder
<1>4. Result' = Result
  BY <1>1 DEF Result, TerminalStates
<1> QED
  BY <1>3, <1>4

promiseVars == <<Holder, Result, observed>>

\* A statement on the rows with no report is a step of the promise.
LEMMA StatementMaps ==
  ASSUME StoreTypeOK, StoreTypeOK', OneActivePerIssue, OneActivePerIssue', ReportInv,
         StoreStep, UNCHANGED observed
  PROVE  [Promise!Next]_promiseVars
<1>0. \A r \in Rows : issueOf[r] \in Issues
  BY DEF StoreTypeOK
<1>1. CASE UNCHANGED <<st, issueOf, cause>>
  BY <1>1, QuietMaps DEF promiseVars
<1>2. CASE \E r \in Rows, i \in Issues, s \in Scopes : InsertDispatch(r, i, s)
  BY <1>2, InsertTakes DEF Promise!Next
<1>3. CASE \E r \in Rows, from \in ActiveStates, to \in States : Moves(r, from, to)
  <2>1. PICK r \in Rows, from \in ActiveStates, to \in States : Moves(r, from, to)
    BY <1>3
  <2>2. to = "running" \/ to \in TerminalStates
    BY <2>1 DEF Moves, ValidDispatchTransition, TerminalStates
  <2>3. CASE to = "running"
    BY <2>1, <2>3, StartIsQuiet DEF promiseVars
  <2>4. CASE to \in TerminalStates
    BY <1>0, <2>1, <2>4, EndSettles DEF Promise!Next, TerminalStates
  <2> QED
    BY <2>2, <2>3, <2>4
<1>4. CASE \E r \in Rows : DeleteQueuedDispatch(r)
  BY <1>0, <1>4, DeleteLetsGo DEF Promise!Next, promiseVars
<1>5. "failed" \in States
  BY DEF States, TerminalStates
<1> QED
  BY <1>1, <1>2, <1>3, <1>4, <1>5 DEF StoreStep, TransitionDispatch, FailDispatch

\* The statement that ends a row with its report is one settlement.
LEMMA ReportsMaps ==
  ASSUME StoreTypeOK, OneActivePerIssue, ReportInv, StoreStep, NEW r \in Rows, Reports(r)
  PROVE  Promise!Next
<1>1. st[r] \notin TerminalStates /\ st'[r] \in TerminalStates
  BY DEF Reports, Ended
<1>2. PICK from \in ActiveStates, to \in States : Moves(r, from, to)
  <2>1. ASSUME NEW q \in Rows, NEW x \in States \ TerminalStates, st' = [st EXCEPT ![q] = x] PROVE FALSE
    BY <1>1, <2>1 DEF StoreTypeOK
  <2>2. {"queued", "deleted"} \subseteq States \ TerminalStates /\ "failed" \in States
    BY DEF States, ActiveStates, TerminalStates
  <2>3. ASSUME NEW q \in Rows, NEW from, NEW to \in States, Moves(q, from, to) PROVE q = r
    BY <1>1, <2>3 DEF Moves, StoreTypeOK
  <2>4. ~ \E q \in Rows, i \in Issues, s \in Scopes : InsertDispatch(q, i, s)
    BY <2>1, <2>2 DEF InsertDispatch
  <2>5. ~ \E q \in Rows : DeleteQueuedDispatch(q)
    BY <1>1, <2>1, <2>2 DEF DeleteQueuedDispatch
  <2>6. PICK q \in Rows, from \in ActiveStates, to \in States : Moves(q, from, to)
    BY <1>1, <2>2, <2>4, <2>5 DEF StoreStep, TransitionDispatch, FailDispatch
  <2> QED
    BY <2>3, <2>6
<1>3. to \in TerminalStates
  BY <1>1, <1>2 DEF Moves, StoreTypeOK
<1>4. observed' = [observed EXCEPT ![r] = 1]
  <2>1. observed[r] = 0
    BY <1>1 DEF ReportInv, Ended
  <2> QED
    BY <2>1 DEF Reports, Observe
<1>5. issueOf[r] \in Issues
  BY DEF StoreTypeOK
<1> QED
  BY <1>2, <1>3, <1>4, <1>5, EndSettles DEF Promise!Next, TerminalStates

\* The sweep that ended a row reports it after the lease end.
LEMMA EndLeaseMaps == ASSUME TypeOK, ReportInv, NEW t \in Ticks, EndLease(t) PROVE Promise!Next
<1>1. cur[t] \in Rows /\ Ended(cur[t]) /\ observed[cur[t]] = 0
  BY DEF EndLease, TypeOK, TickTypeOK, RowSteps, ReportInv
<1>2. UNCHANGED <<Holder, Result>>
  BY QuietMaps DEF EndLease, storeVars
<1>3. observed' = [observed EXCEPT ![cur[t]] = 1]
  BY <1>1 DEF EndLease, Observe
<1>4. Result[cur[t]] # "none"
  BY <1>1 DEF Result, Ended, TerminalStates
<1> QED
  BY <1>1, <1>2, <1>3, <1>4 DEF Promise!Next, Promise!Report

\* Every step of the dispatcher is a step of the promise or a stutter.
LEMMA StepMaps ==
  TypeOK /\ TypeOK' /\ OneActivePerIssue /\ OneActivePerIssue' /\ ReportInv /\ [Next]_vars
    => [Promise!Next]_promiseVars
<1> SUFFICES ASSUME TypeOK, TypeOK', OneActivePerIssue, OneActivePerIssue', ReportInv, [Next]_vars
             PROVE  [Promise!Next]_promiseVars
  OBVIOUS
<1>1. StoreStep /\ StoreTypeOK /\ StoreTypeOK'
  BY NextRows DEF TypeOK
<1>2. CASE UNCHANGED observed
  BY <1>1, <1>2, StatementMaps
<1>3. CASE \E t \in Ticks : EndLease(t)
  BY <1>3, EndLeaseMaps
<1>4. CASE \E r \in Rows : Reports(r)
  BY <1>1, <1>4, ReportsMaps
<1>5. CASE \E t \in Ticks : TickStep(t) \/ CancelTick(t)
  BY <1>2, <1>3, <1>4, <1>5, TickReports DEF Silent, Sweeps
<1>6. CASE \E r \in Rows : AgentReturns(r) \/ RunFinishes(r)
  BY <1>2, <1>4, <1>6, RunReports DEF Silent
<1>7. CASE Clock \/ Crash \/ (\E i \in Issues : Human(i)) \/ UNCHANGED vars
  BY <1>2, <1>7 DEF Clock, Crash, Human, vars, runVars
<1> QED
  BY <1>5, <1>6, <1>7 DEF Next

\* The dispatcher implements DispatchPromise for any number of issues, rows,
\* ticks and restarts and under every fault: an issue has one holder at a
\* time, which lets go of it untouched or settles it with one final result,
\* reported at most once.
THEOREM DispatcherKeepsPromise == Spec => KeepsPromise
<1>1. Init => Promise!Init
  <2> SUFFICES ASSUME Init PROVE Promise!Init
    OBVIOUS
  <2>1. \A r \in Rows : st[r] = "absent"
    BY DEF Init, StoreInit
  <2>2. Holder = [i \in Issues |-> NoRow]
    BY <2>1 DEF Holder, ActiveRows, Active, ActiveStates
  <2>3. Result = [r \in Rows |-> "none"]
    BY <2>1 DEF Result, TerminalStates
  <2> QED
    BY <2>2, <2>3 DEF Init, Promise!Init
<1>2. TypeOK /\ TypeOK' /\ OneActivePerIssue /\ OneActivePerIssue' /\ ReportInv /\ [Next]_vars
        => [Promise!Next]_<<Holder, Result, observed>>
  BY StepMaps DEF promiseVars
<1>3. Spec => []ReportInv
  BY ReportInvInit, ReportInvNext, TypeCorrect, PTL DEF Spec
<1> QED
  BY <1>1, <1>2, <1>3, TypeCorrect, OneActiveDispatch, PTL DEF Spec, KeepsPromise, Promise!Spec

----------------------------------------------------------------------------
(* The life of a row when calls may only be cancelled or provisioning fail: *)
(* no store, forge or lease error and no restart.  A row is in the hands of *)
(* the tick that inserted it, then of its run's goroutine, and whoever ends *)
(* it owes the issue its labels.                                            *)

\* The setting of these theorems.  The policy's run_timeout must exceed the
\* bookkeeping budgets: a shorter one may fail a row that is being labelled.
Orderly == Faults \subseteq {"cancel", "provision"} /\ MaxCrashes = 0 /\ Budget < Timeout

\* Tick t is at one of the steps S on row r.
At(t, S, r) == pc[t] \in S /\ cur[t] = r
Held(S, r)  == \E t \in Ticks : At(t, S, r)

Fresh      == {"reread", "abandon", "label", "labelled"}
Labelled   == {"labelled", "provision", "seed", "runStarted", "projectRunning", "failStart"}
Projecting == {"endLease", "sweepProject", "failProject"}
Executing  == {"working", "leaseEnd", "report"}

\* The lease is set and its credentials work, or it has ended with them.
LeaseIntact(r) == lease[r] = "held" /\ creds[r] = "live"
LeaseOver(r)   == lease[r] = "ended" /\ creds[r] = "revoked"

\* One tick has the row in hand.
OneStarter ==
  \A t, u \in Ticks : pc[t] \in InHand /\ pc[u] \in InHand /\ cur[t] = cur[u] => t = u

\* How far the start of row r has come.
StartAt(t, r) ==
  /\ agent[r] = "none"
  /\ pc[t] \in Fresh => st[r] = "queued" /\ r \notin tracked /\ lease[r] = "nil" /\ creds[r] = "none"
  /\ pc[t] \in Fresh \cup {"projectRunning"} => age[r] <= Budget
  /\ pc[t] \in {"provision", "seed", "runStarted", "failStart"} => st[r] = "queued" \/ Ended(r)
  /\ pc[t] \in Starting => r \in tracked
  /\ pc[t] = "provision" => lease[r] = "nil" /\ creds[r] = "none"
  /\ pc[t] = "seed" => lease[r] = "nil" /\ creds[r] = "live"
  /\ pc[t] = "runStarted" => LeaseIntact(r) \/ (LeaseOver(r) /\ Ended(r))
  /\ pc[t] = "projectRunning" => st[r] = "running" /\ LeaseIntact(r)
  /\ pc[t] = "tearDown" => Ended(r) /\ (LeaseIntact(r) \/ LeaseOver(r))
  /\ pc[t] = "failStart" => r \notin tracked /\ creds[r] # "live"
Starts == \A t \in Ticks : pc[t] \in InHand => StartAt(t, cur[t])

\* How far the launched run of row r has come.
RunAt(r) ==
  /\ agent[r] = "none" /\ creds[r] = "live" => Held(InHand, r)
  /\ agent[r] \in Executing => r \in tracked /\ (st[r] = "running" \/ Ended(r))
  /\ agent[r] \in {"working", "leaseEnd"} =>
       \/ LeaseIntact(r) /\ (st[r] = "running" \/ Held({"endLease"}, r))
       \/ LeaseOver(r) /\ Ended(r)
  /\ agent[r] \notin {"none", "working", "leaseEnd"} => creds[r] # "live" /\ lease[r] # "held"
  /\ agent[r] \in {"project", "untrack", "over"} => Ended(r)
Runs == \A r \in Rows : RunAt(r)

\* Somebody works on every active row, and nobody on an absent one.
RowAt(r) ==
  /\ st[r] = "absent" => agent[r] = "none" /\ r \notin tracked /\ lease[r] = "nil" /\ creds[r] = "none"
  /\ st[r] = "absent" => ~Held(RowSteps, r)
  /\ st[r] = "queued" => Held(InHand, r)
  /\ st[r] = "running" => Held({"projectRunning"}, r) \/ agent[r] \in Executing
RowsAttended == \A r \in Rows : RowAt(r)

\* A sweep fails no row that is in a bounded step: a row it is about to fail
\* is old, or has moved on since.
SweepAt(t, r) == /\ st[r] = phase[t] => age[r] > Budget
                 /\ st[r] = "queued" => phase[t] = "queued"
SweepsOld == \A t \in Ticks : pc[t] = "failSwept" => SweepAt(t, cur[t])

\* One actor projects the end of a row.
EndsProjectedOnce ==
  /\ \A t \in Ticks : pc[t] \in Projecting => Ended(cur[t]) /\ agent[cur[t]] # "project"
  /\ \A t, u \in Ticks : pc[t] \in Projecting /\ pc[u] \in Projecting /\ cur[t] = cur[u] => t = u

\* The row's dispatch has labelled the issue and its end is not projected yet.
Owes(r) == \/ Active(r) /\ (Held(Labelled, r) \/ agent[r] \in Executing)
           \/ agent[r] = "project"
           \/ Held(Projecting, r)
\* It has passed the re-read, or owes a projection.
Claims(r) == Owes(r) \/ Held({"label"}, r)

\* agent:queued and agent:running are on the issues of the rows that owe a
\* projection, and on no other.
LabelsOwed ==
  \A i \in Issues : forge[i].state \cap ActiveLabels # {} <=> \E r \in Rows : issueOf[r] = i /\ Owes(r)

\* One row at a time claims an issue ...
OneClaim == \A q, r \in Rows : Claims(q) /\ Claims(r) /\ issueOf[q] = issueOf[r] => q = r
\* ... and as long as it is active the issue shows no earlier end.
ClaimsClean ==
  \A r \in Rows : Claims(r) /\ Active(r) => forge[issueOf[r]].state \cap {"done", "failed"} = {}

\* A step of tick t moves no other tick.
Others(t) == \A u \in Ticks \ {t} : /\ pc'[u] = pc[u] /\ cur'[u] = cur[u] /\ phase'[u] = phase[u]
                                    /\ iss'[u] = iss[u] /\ snap'[u] = snap[u]

LEMMA LocalOthers ==
  ASSUME TickTypeOK, NEW t \in Ticks,
         \/ Return(t) \/ NextIssue(t) \/ NextRow(t) \/ \E s \in TickStates : Step(t, s)
  PROVE  Others(t)
BY DEF TickTypeOK, Others, Return, NextIssue, NextRow, Step, Goto

LEMMA OthersStay ==
  ASSUME TypeOK, NEW t \in Ticks, TickStep(t) \/ CancelTick(t)
  PROVE  Others(t)
<1>0. TickTypeOK
  BY DEF TypeOK
<1>1. CASE StartTick(t) \/ TickAborts(t) \/ FailSwept(t) \/ EndLease(t) \/ SweepProject(t)
           \/ TickDone(t) \/ ChooseRoute(t) \/ Reread(t) \/ Abandon(t)
           \/ BeginStart(t) \/ Provision(t) \/ Seed(t) \/ RunStarted(t) \/ ProjectRunning(t)
           \/ TearDownRun(t) \/ FailStart(t) \/ FailProject(t)
  <2>1. \/ Return(t) \/ NextIssue(t) \/ NextRow(t) \/ \E s \in TickStates : Step(t, s)
    BY <1>1 DEF StartTick, TickAborts, FailSwept, EndLease, SweepProject, TickDone, ChooseRoute,
       Reread, Abandon, BeginStart, Provision, Seed, RunStarted, ProjectRunning, TearDownRun,
       FailStart, FailProject, TickStates
  <2> QED
    BY <1>0, <2>1, LocalOthers
<1>2. CASE ListDispatches(t) \/ SweepListDone(t) \/ ListIssues(t) \/ PickIssue(t)
  BY <1>0, <1>2 DEF ListDispatches, SweepListDone, ListIssues, PickIssue, Goto, Others, TickTypeOK
<1>3. CASE SweepRow(t)
  BY <1>0, <1>3 DEF SweepRow, Goto, Others, TickTypeOK
<1>4. ASSUME NEW s, ScopeDone(t, s), UNCHANGED pc \/ Goto(t, "scan"), UNCHANGED <<phase, iss, cur>>
      PROVE  Others(t)
  BY <1>0, <1>4 DEF ScopeDone, Goto, Others, TickTypeOK
<1>5. CASE WarnUnrouted(t) \/ WarnPost(t) \/ WarnForget(t)
  <2>1. {"warnPost", "warnForget"} \subseteq TickStates
    BY DEF TickStates
  <2> QED
    BY <1>0, <1>4, <1>5, <2>1, LocalOthers DEF WarnUnrouted, WarnPost, WarnForget
<1>6. CASE Insert(t)
  <2>1. CASE Return(t) \/ NextIssue(t)
    BY <1>0, <2>1, LocalOthers
  <2>2. CASE /\ \E r \in Rows : cur' = [cur EXCEPT ![t] = r]
             /\ Goto(t, "reread") /\ UNCHANGED <<phase, snap, iss>>
    BY <1>0, <2>2 DEF Goto, Others, TickTypeOK
  <2> QED
    BY <1>6, <2>1, <2>2 DEF Insert
<1>7. CASE LabelQueued(t)
  <2>1. CASE Step(t, "labelled")
    BY <1>0, <2>1, LocalOthers DEF TickStates
  <2>2. CASE Goto(t, "failStart") /\ snap' = [snap EXCEPT ![t] = NoIssues] /\ UNCHANGED <<phase, iss, cur>>
    BY <1>0, <2>2 DEF Goto, Others, TickTypeOK
  <2> QED
    BY <1>7, <2>1, <2>2 DEF LabelQueued
<1>8. CASE CancelTick(t)
  BY <1>8 DEF CancelTick, Others
<1> QED
  BY <1>1, <1>2, <1>3, <1>4, <1>5, <1>6, <1>7, <1>8 DEF TickStep, Sweeping, Dispatching

LifeInv == OneStarter /\ Starts /\ Runs /\ RowsAttended /\ SweepsOld /\ EndsProjectedOnce

\* A step changes nothing of the rows but r.
RowsSame(r) ==
  \A q \in Rows \ {r} : /\ st'[q] = st[q] /\ age'[q] = age[q] /\ agent'[q] = agent[q]
                        /\ lease'[q] = lease[q] /\ creds'[q] = creds[q] /\ (q \in tracked' <=> q \in tracked)

\* What is left to show of a step of tick t on row r: the facts about r.
LEMMA TickFrame ==
  ASSUME TypeOK, LifeInv, NEW t \in Ticks, NEW r \in Rows, Others(t), RowsSame(r),
         pc[t] \in RowSteps => cur[t] = r,
         pc'[t] \in RowSteps => cur'[t] = r,
         pc'[t] \in InHand => StartAt(t, r)' /\ (pc[t] \in InHand \/ ~Held(InHand, r)),
         \A u \in Ticks \ {t} : At(u, InHand, r) => StartAt(u, r)',
         RunAt(r)', RowAt(r)',
         \A u \in Ticks : pc'[u] = "failSwept" /\ cur'[u] = r => SweepAt(u, r)',
         Held(Projecting, r)' => Ended(r)' /\ agent'[r] # "project",
         pc'[t] \in Projecting => pc[t] \in Projecting \/ ~Held(Projecting, r)
  PROVE  LifeInv'
<1> USE DEF LifeInv
<1>1. InHand \subseteq RowSteps /\ Projecting \subseteq RowSteps /\ "failSwept" \in RowSteps
  BY DEF InHand, Starting, Projecting, RowSteps
<1>2. \A u \in Ticks : pc[u] \in RowSteps => cur[u] \in Rows
  BY DEF TypeOK, TickTypeOK
<1>3. OneStarter'
  BY <1>1 DEF OneStarter, Others, Held, At
<1>4. Starts'
  <2> SUFFICES ASSUME NEW u \in Ticks, pc'[u] \in InHand PROVE StartAt(u, cur[u])'
    BY DEF Starts
  <2>1. CASE u = t
    <3>1. cur'[t] = r
      BY <1>1, <2>1
    <3> QED
      BY <2>1, <3>1 DEF StartAt, Ended, LeaseIntact, LeaseOver
  <2>2. CASE u # t /\ cur[u] = r
    <3>1. StartAt(u, r)' /\ cur'[u] = r
      BY <2>2 DEF Others, At
    <3> QED
      BY <3>1 DEF StartAt, Ended, LeaseIntact, LeaseOver
  <2>3. CASE u # t /\ cur[u] # r
    <3>1. pc[u] = pc'[u] /\ cur[u] = cur'[u] /\ cur[u] \in Rows \ {r} /\ StartAt(u, cur[u])
      BY <1>1, <1>2, <2>3 DEF Others, Starts
    <3> QED
      BY <3>1 DEF StartAt, Ended, LeaseIntact, LeaseOver, RowsSame
  <2> QED
    BY <2>1, <2>2, <2>3
<1>5. ASSUME NEW q \in Rows \ {r}, NEW S \in SUBSET RowSteps PROVE Held(S, q)' <=> Held(S, q)
  BY <1>5 DEF Held, At, Others
<1>6. Runs'
  <2>1. {"endLease"} \subseteq RowSteps
    BY DEF RowSteps
  <2> SUFFICES ASSUME NEW q \in Rows \ {r} PROVE RunAt(q)'
    BY DEF Runs
  <2>2. RunAt(q)
    BY DEF Runs
  <2> QED
    BY <1>1, <1>5, <2>1, <2>2 DEF RunAt, RowsSame, LeaseIntact, LeaseOver, Ended
<1>7. RowsAttended'
  <2>1. {"projectRunning"} \subseteq RowSteps
    BY DEF RowSteps
  <2> SUFFICES ASSUME NEW q \in Rows \ {r} PROVE RowAt(q)'
    BY DEF RowsAttended
  <2>2. RowAt(q)
    BY DEF RowsAttended
  <2> QED
    BY <1>1, <1>5, <2>1, <2>2 DEF RowAt, RowsSame
<1>8. SweepsOld'
  BY <1>1, <1>2 DEF SweepsOld, SweepAt, Others, RowsSame
<1>9. EndsProjectedOnce'
  <2>1. ASSUME NEW u \in Ticks, pc'[u] \in Projecting PROVE Ended(cur[u])' /\ agent'[cur'[u]] # "project"
    <3>1. CASE cur'[u] = r
      BY <2>1, <3>1 DEF Held, At, Ended
    <3>2. CASE cur'[u] # r
      <4>1. pc[u] = pc'[u] /\ cur[u] = cur'[u] /\ cur[u] \in Rows \ {r}
        BY <1>1, <1>2, <2>1, <3>2 DEF Others
      <4>2. Ended(cur[u]) /\ agent[cur[u]] # "project"
        BY <2>1, <4>1 DEF EndsProjectedOnce
      <4> QED
        BY <4>1, <4>2 DEF RowsSame, Ended
    <3> QED
      BY <3>1, <3>2
  <2>2. \A u, v \in Ticks : pc'[u] \in Projecting /\ pc'[v] \in Projecting /\ cur'[u] = cur'[v] => u = v
    BY <1>1 DEF EndsProjectedOnce, Others, Held, At
  <2> QED
    BY <2>1, <2>2 DEF EndsProjectedOnce
<1> QED
  BY <1>3, <1>4, <1>6, <1>7, <1>8, <1>9

\* The same for a step of the run of row r, which moves no tick.
LEMMA RunFrame ==
  ASSUME TypeOK, LifeInv, NEW r \in Rows, UNCHANGED tickVars, RowsSame(r), agent[r] # "none",
         RunAt(r)', RowAt(r)', (age'[r] = age[r] /\ st'[r] = st[r]) \/ Ended(r)',
         Held(Projecting, r) => Ended(r)' /\ agent'[r] # "project"
  PROVE  LifeInv'
<1> USE DEF LifeInv
<1>0. UNCHANGED <<pc, cur, phase>>
  BY DEF tickVars
<1>2. \A u \in Ticks : pc[u] \in RowSteps => cur[u] \in Rows
  BY DEF TypeOK, TickTypeOK
<1>1. InHand \subseteq RowSteps /\ Projecting \subseteq RowSteps /\ "failSwept" \in RowSteps
  BY DEF InHand, Starting, Projecting, RowSteps
<1>3. OneStarter'
  BY <1>0 DEF OneStarter
<1>4. Starts'
  <2> SUFFICES ASSUME NEW u \in Ticks, pc[u] \in InHand PROVE StartAt(u, cur[u])'
    BY <1>0 DEF Starts
  <2>1. StartAt(u, cur[u]) /\ cur[u] \in Rows
    BY <1>1, <1>2 DEF Starts
  <2>2. cur[u] # r
    BY <2>1 DEF StartAt
  <2> QED
    BY <1>0, <2>1, <2>2 DEF StartAt, Ended, LeaseIntact, LeaseOver, RowsSame
<1>5. ASSUME NEW q \in Rows, NEW S PROVE Held(S, q)' <=> Held(S, q)
  BY <1>0 DEF Held, At
<1>6. Runs'
  <2> SUFFICES ASSUME NEW q \in Rows \ {r} PROVE RunAt(q)'
    BY DEF Runs
  <2>2. RunAt(q)
    BY DEF Runs
  <2> QED
    BY <1>5, <2>2 DEF RunAt, RowsSame, LeaseIntact, LeaseOver, Ended
<1>7. RowsAttended'
  <2> SUFFICES ASSUME NEW q \in Rows \ {r} PROVE RowAt(q)'
    BY DEF RowsAttended
  <2>2. RowAt(q)
    BY DEF RowsAttended
  <2> QED
    BY <1>5, <2>2 DEF RowAt, RowsSame
<1>8. SweepsOld'
  <2>1. \A u \in Ticks : phase[u] \notin TerminalStates
    BY DEF TypeOK, TickTypeOK, ActiveStates, TerminalStates
  <2> QED
    BY <1>0, <1>1, <1>2, <2>1 DEF SweepsOld, SweepAt, RowsSame, Ended, TerminalStates
<1>9. EndsProjectedOnce'
  <2>1. ASSUME NEW u \in Ticks, pc[u] \in Projecting PROVE Ended(cur[u])' /\ agent'[cur'[u]] # "project"
    <3>1. CASE cur[u] = r
      BY <1>0, <2>1, <3>1 DEF Held, At, Ended
    <3>2. CASE cur[u] # r
      <4>2. Ended(cur[u]) /\ agent[cur[u]] # "project" /\ cur[u] \in Rows
        BY <1>1, <1>2, <2>1 DEF EndsProjectedOnce
      <4> QED
        BY <1>0, <3>2, <4>2 DEF RowsSame, Ended
    <3> QED
      BY <3>1, <3>2
  <2> QED
    BY <1>0, <2>1 DEF EndsProjectedOnce
<1> QED
  BY <1>3, <1>4, <1>6, <1>7, <1>8, <1>9

\* A tick that lets go of no row in hand and of no lease end, and takes none.
LEMMA LeaveFrame ==
  ASSUME TypeOK, LifeInv, NEW t \in Ticks, Others(t),
         UNCHANGED <<st, age, agent, tracked, lease, creds>>,
         pc[t] \notin InHand \cup {"endLease"}, pc'[t] \notin RowSteps
  PROVE  LifeInv'
<1> USE DEF LifeInv
<1>1. InHand \subseteq RowSteps /\ Projecting \subseteq RowSteps /\ {"failSwept", "endLease"} \subseteq RowSteps
      /\ "projectRunning" \in InHand
  BY DEF InHand, Starting, Projecting, RowSteps
<1>2. OneStarter'
  BY <1>1 DEF OneStarter, Others
<1>3. Starts'
  BY <1>1 DEF Starts, StartAt, Others, LeaseIntact, LeaseOver, Ended
<1>4. ASSUME NEW q \in Rows, NEW S \in SUBSET (InHand \cup {"endLease"}) PROVE Held(S, q)' <=> Held(S, q)
  BY <1>1, <1>4 DEF Held, At, Others
<1>5. Runs'
  <2>1. \A q \in Rows : /\ Held(InHand, q)' <=> Held(InHand, q)
                        /\ Held({"endLease"}, q)' <=> Held({"endLease"}, q)
    BY <1>4
  <2> QED
    BY <2>1 DEF Runs, RunAt, LeaseIntact, LeaseOver, Ended
<1>6. RowsAttended'
  <2>1. \A q \in Rows : /\ Held(InHand, q)' <=> Held(InHand, q)
                        /\ Held({"projectRunning"}, q)' <=> Held({"projectRunning"}, q)
    BY <1>1, <1>4
  <2>2. \A q \in Rows : Held(RowSteps, q)' => Held(RowSteps, q)
    BY DEF Held, At, Others
  <2> QED
    BY <2>1, <2>2 DEF RowsAttended, RowAt
<1>7. SweepsOld'
  BY <1>1 DEF SweepsOld, SweepAt, Others
<1>8. EndsProjectedOnce'
  BY <1>1 DEF EndsProjectedOnce, Others, Ended
<1> QED
  BY <1>2, <1>3, <1>5, <1>6, <1>7, <1>8

\* A tick that goes on with the row it has in hand, or lets go of it.
LEMMA StarterFrame ==
  ASSUME TypeOK, LifeInv, NEW t \in Ticks, NEW r \in Rows, Others(t), RowsSame(r),
         pc[t] \in InHand, cur[t] = r,
         pc'[t] \in RowSteps => cur'[t] = r /\ pc'[t] \in InHand \cup {"failProject"},
         pc'[t] \in InHand => StartAt(t, r)',
         RunAt(r)', RowAt(r)', st[r] # "absent",
         \/ st'[r] = st[r] /\ age'[r] = age[r]
         \/ st[r] = "queued" /\ st'[r] # "queued",
         Ended(r) => Ended(r)', agent'[r] # "project",
         pc'[t] = "failProject" => ~Ended(r) /\ Ended(r)'
  PROVE  LifeInv'
<1>1. \A u \in Ticks \ {t} : ~At(u, InHand, r)
  BY DEF LifeInv, OneStarter, At
<1>2. Held(Projecting, r) => Ended(r)
  BY DEF LifeInv, EndsProjectedOnce, Held, At
<1>3. InHand \cap Projecting = {} /\ InHand \subseteq RowSteps /\ "failSwept" \notin InHand \cup {"failProject"}
      /\ Projecting \subseteq RowSteps /\ "failProject" \in Projecting /\ "failSwept" \in RowSteps
  BY DEF InHand, Starting, Projecting, RowSteps
<1>4. ASSUME NEW u \in Ticks, pc'[u] = "failSwept", cur'[u] = r PROVE SweepAt(u, r)'
  <2>1. u # t
    BY <1>3, <1>4
  <2>2. pc[u] = "failSwept" /\ cur[u] = r /\ SweepAt(u, r) /\ phase'[u] = phase[u] /\ phase[u] \in ActiveStates
    BY <1>4, <2>1 DEF Others, LifeInv, SweepsOld, TypeOK, TickTypeOK
  <2> QED
    BY <2>2 DEF SweepAt, ActiveStates
<1>5. Held(Projecting, r)' => Ended(r)' /\ agent'[r] # "project"
  BY <1>2, <1>3 DEF Held, At, Others
<1>6. pc'[t] \in Projecting => pc[t] \in Projecting \/ ~Held(Projecting, r)
  BY <1>2, <1>3
<1> QED
  BY <1>1, <1>4, <1>5, <1>6, TickFrame

LEMMA StarterFacts ==
  ASSUME TypeOK, LifeInv, NEW t \in Ticks, pc[t] \in InHand
  PROVE  /\ cur[t] \in Rows /\ StartAt(t, cur[t]) /\ RunAt(cur[t]) /\ RowAt(cur[t])
         /\ st[cur[t]] # "absent"
<1>1. cur[t] \in Rows /\ pc[t] \in RowSteps
  BY DEF TypeOK, TickTypeOK, InHand, Starting, RowSteps
<1>2. StartAt(t, cur[t]) /\ RunAt(cur[t]) /\ RowAt(cur[t])
  BY <1>1 DEF LifeInv, Starts, Runs, RowsAttended
<1> QED
  BY <1>1, <1>2 DEF RowAt, Held, At

\* The first steps on a fresh row, up to its start.
LEMMA LifeFresh ==
  ASSUME Orderly, TypeOK, LifeInv, NEW t \in Ticks,
         Reread(t) \/ Abandon(t) \/ LabelQueued(t) \/ BeginStart(t)
  PROVE  LifeInv'
<1>1. pc[t] \in Fresh /\ pc[t] \in InHand
  BY DEF Reread, Abandon, LabelQueued, BeginStart, InHand, Fresh
<1>2. PICK r \in Rows : r = cur[t]
  BY <1>1, StarterFacts
<1>3. cur[t] = r /\ StartAt(t, r) /\ RunAt(r) /\ RowAt(r) /\ st[r] = "queued" /\ agent[r] = "none"
  BY <1>1, <1>2, StarterFacts DEF StartAt
<1>4. Others(t) /\ ~MayFail("store") /\ ~MayFail("forge")
  BY OthersStay DEF Orderly, MayFail, TickStep, Dispatching
<1>a. TypeOK /\ LifeInv /\ Ended(r) = FALSE
  BY <1>3 DEF Ended, TerminalStates
<1>5. CASE Reread(t) \/ LabelQueued(t) \/ (BeginStart(t) /\ t \in cancelled)
  <2>1. UNCHANGED <<st, age, agent, tracked, lease, creds, cur>>
    BY <1>4, <1>5 DEF Reread, LabelQueued, BeginStart, storeVars, leaseVars, runVars, Step, Projects, SetDispatchLabelsPending
  <2>2. pc'[t] \in (Fresh \cap InHand) \cup {"failStart"}
    BY <1>4, <1>5 DEF Reread, LabelQueued, BeginStart, Step, Goto, TypeOK, TickTypeOK, Projects, Fresh, InHand
  <2>3. RowsSame(r) /\ cur'[t] = r
    BY <1>3, <2>1 DEF RowsSame
  <2>4. pc'[t] \in InHand
    BY <2>2 DEF InHand
  <2>5. StartAt(t, r)'
    BY <1>1, <1>3, <2>1, <2>2 DEF StartAt, Fresh, Starting, Ended
  <2>6. Held(InHand, r)'
    BY <2>3, <2>4 DEF Held, At
  <2>7. RunAt(r)' /\ RowAt(r)'
    BY <1>3, <2>1, <2>6 DEF RunAt, RowAt, Executing
  <2> QED
    BY <1>1, <1>3, <1>4, <1>a, <2>1, <2>3, <2>4, <2>5, <2>7, StarterFrame DEF InHand, Starting
<1>6. CASE BeginStart(t) /\ t \notin cancelled
  <2>1. /\ UNCHANGED <<st, age, agent, lease, creds, cur>> /\ tracked' = tracked \cup {r}
        /\ pc'[t] = "provision" /\ pc[t] = "labelled"
    BY <1>3, <1>6 DEF BeginStart, storeVars, runVars, Step, Goto, Track, TypeOK, TickTypeOK
  <2>3. RowsSame(r) /\ cur'[t] = r /\ pc'[t] \in InHand
    BY <1>3, <2>1 DEF RowsSame, InHand, Starting
  <2>5. StartAt(t, r)'
    BY <1>1, <1>3, <2>1 DEF StartAt, Fresh, Starting, Ended
  <2>6. Held(InHand, r)'
    BY <2>3 DEF Held, At
  <2>7. RunAt(r)' /\ RowAt(r)'
    BY <1>3, <2>1, <2>6 DEF RunAt, RowAt, Executing
  <2> QED
    BY <1>1, <1>3, <1>4, <1>a, <2>1, <2>3, <2>5, <2>7, StarterFrame DEF InHand, Starting
<1>7. CASE Abandon(t)
  <2>1. /\ UNCHANGED <<age, agent, tracked, lease, creds>>
        /\ st' = [st EXCEPT ![r] = "deleted"] /\ pc'[t] = "issue"
    BY <1>3, <1>4, <1>7 DEF Abandon, DeleteQueuedDispatch, leaseVars, runVars, NextIssue, Goto, TypeOK, TickTypeOK
  <2>2. st'[r] = "deleted" /\ RowsSame(r)
    BY <2>1 DEF RowsSame, TypeOK, StoreTypeOK
  <2>3. pc'[t] \notin RowSteps /\ pc'[t] \notin InHand
    BY <2>1 DEF RowSteps, InHand, Starting
  <2>4. creds'[r] = "none"
    BY <1>1, <1>3, <2>1 DEF StartAt
  <2>5. RunAt(r)' /\ RowAt(r)'
    BY <1>3, <2>1, <2>2, <2>4 DEF RunAt, RowAt, Executing
  <2> QED
    BY <1>1, <1>3, <1>4, <1>a, <2>1, <2>2, <2>3, <2>5, StarterFrame
<1> QED
  BY <1>5, <1>6, <1>7

\* Provisioning, the start report and the launch.
LEMMA LifeStarting ==
  ASSUME Orderly, TypeOK, LifeInv, NEW t \in Ticks,
         \/ Provision(t) \/ Seed(t) \/ RunStarted(t) \/ ProjectRunning(t)
         \/ TearDownRun(t) \/ FailStart(t)
  PROVE  LifeInv'
<1>1. pc[t] \in Starting \cup {"failStart"} /\ pc[t] \in InHand
  BY DEF Provision, Seed, RunStarted, ProjectRunning, TearDownRun, FailStart, InHand, Starting
<1>2. PICK r \in Rows : r = cur[t]
  BY <1>1, StarterFacts
<1>3. cur[t] = r /\ StartAt(t, r) /\ RunAt(r) /\ RowAt(r) /\ st[r] # "absent" /\ agent[r] = "none"
  BY <1>1, <1>2, StarterFacts DEF StartAt
<1>4. Others(t) /\ ~MayFail("store") /\ ~MayFail("forge") /\ ~MayFail("lease")
  BY OthersStay DEF Orderly, MayFail, TickStep, Dispatching
<1>5. /\ pc \in [Ticks -> TickStates] /\ st \in [Rows -> States] /\ age \in [Rows -> 0..MaxAge]
      /\ lease \in [Rows -> LeaseStates] /\ creds \in [Rows -> CredStates] /\ agent \in [Rows -> AgentStates]
  BY DEF TypeOK, TickTypeOK, StoreTypeOK, LeaseTypeOK, RunTypeOK
\* A step that keeps the row in hand.
<1>6. ASSUME UNCHANGED <<agent, cur>>, RowsSame(r), pc'[t] \in InHand, StartAt(t, r)',
             \/ st'[r] = st[r] /\ age'[r] = age[r]
             \/ st[r] = "queued" /\ st'[r] = "running" /\ pc'[t] = "projectRunning"
      PROVE  LifeInv'
  <2>1. Held(InHand, r)' /\ (pc'[t] = "projectRunning" => Held({"projectRunning"}, r)')
    BY <1>3, <1>6 DEF Held, At
  <2>2. RunAt(r)'
    BY <1>3, <1>6, <2>1 DEF RunAt, Executing
  <2>3. st[r] = "running" => pc[t] = "projectRunning"
    BY <1>1, <1>3 DEF StartAt, Starting, Ended, TerminalStates
  <2>4. st'[r] = "running" => pc'[t] = "projectRunning"
    BY <1>6 DEF StartAt, Starting, Ended, TerminalStates, InHand, Fresh
  <2>5. RowAt(r)'
    BY <1>3, <1>6, <2>1, <2>4 DEF RowAt
  <2>6. Ended(r) => Ended(r)'
    BY <1>6 DEF Ended, TerminalStates
  <2>7. "failProject" \notin InHand
    BY DEF InHand, Starting
  <2> QED
    BY <1>1, <1>3, <1>4, <1>6, <2>2, <2>5, <2>6, <2>7, StarterFrame
\* A step that lets go of the row.
<1>7. ASSUME RowsSame(r), pc'[t] \notin RowSteps, RunAt(r)', RowAt(r)', UNCHANGED <<st, age>>,
             agent'[r] # "project"
      PROVE  LifeInv'
  <2>1. pc'[t] \notin InHand /\ pc'[t] # "failProject"
    BY <1>7 DEF RowSteps, InHand, Starting
  <2>2. Ended(r) => Ended(r)'
    BY <1>7 DEF Ended
  <2> QED
    BY <1>1, <1>3, <1>4, <1>7, <2>1, <2>2, StarterFrame
<1>8. CASE Provision(t)
  <2>0. pc[t] = "provision" /\ UNCHANGED <<st, age, agent>>
    BY <1>8 DEF Provision, storeVars, runVars
  <2>1. CASE Mint(cur[t]) /\ Step(t, "seed")
    <3>1. /\ pc'[t] = "seed" /\ UNCHANGED <<cur, tracked, lease>> /\ creds' = [creds EXCEPT ![r] = "live"]
      BY <1>3, <1>5, <2>1 DEF Mint, Step, Goto
    <3>2. creds'[r] = "live" /\ RowsSame(r)
      BY <1>5, <2>0, <3>1 DEF RowsSame
    <3>3. StartAt(t, r)' /\ pc'[t] \in InHand
      BY <1>3, <2>0, <3>1, <3>2 DEF StartAt, Fresh, Starting, Ended, InHand
    <3> QED
      BY <1>6, <2>0, <3>1, <3>2, <3>3
  <2>2. CASE ProvisionUnwinds(cur[t], TRUE) /\ Step(t, "failStart")
    <3>1. pc'[t] = "failStart" /\ UNCHANGED <<cur, lease, creds>> /\ tracked' = tracked \ {r}
      BY <1>3, <1>5, <2>0, <2>2 DEF ProvisionUnwinds, Step, Goto, StartAt
    <3>2. RowsSame(r)
      BY <1>5, <2>0, <3>1 DEF RowsSame
    <3>3. StartAt(t, r)' /\ pc'[t] \in InHand
      BY <1>3, <2>0, <3>1 DEF StartAt, Fresh, Starting, Ended, InHand
    <3> QED
      BY <1>6, <2>0, <3>1, <3>2, <3>3
  <2> QED
    BY <1>8, <2>1, <2>2 DEF Provision
<1>9. CASE Seed(t)
  <2>0. pc[t] = "seed" /\ UNCHANGED <<st, age, agent>>
    BY <1>9 DEF Seed, storeVars, runVars
  <2>1. CASE SetLease(cur[t]) /\ Step(t, "runStarted")
    <3>1. /\ pc'[t] = "runStarted" /\ UNCHANGED <<cur, tracked, creds>> /\ lease' = [lease EXCEPT ![r] = "held"]
      BY <1>3, <1>5, <2>1 DEF SetLease, Step, Goto
    <3>2. lease'[r] = "held" /\ RowsSame(r)
      BY <1>5, <2>0, <3>1 DEF RowsSame
    <3>3. StartAt(t, r)' /\ pc'[t] \in InHand
      BY <1>3, <2>0, <3>1, <3>2 DEF StartAt, Fresh, Starting, Ended, InHand, LeaseIntact
    <3> QED
      BY <1>6, <2>0, <3>1, <3>2, <3>3
  <2>2. CASE ProvisionUnwinds(cur[t], TRUE) /\ Step(t, "failStart")
    <3>1. /\ pc'[t] = "failStart" /\ UNCHANGED <<cur, lease>> /\ tracked' = tracked \ {r}
          /\ creds' = [creds EXCEPT ![r] = "revoked"]
      BY <1>3, <1>5, <2>0, <2>2 DEF ProvisionUnwinds, Step, Goto, StartAt
    <3>2. RowsSame(r) /\ creds'[r] = "revoked"
      BY <1>5, <2>0, <3>1 DEF RowsSame
    <3>3. StartAt(t, r)' /\ pc'[t] \in InHand
      BY <1>3, <2>0, <3>1, <3>2 DEF StartAt, Fresh, Starting, Ended, InHand
    <3> QED
      BY <1>6, <2>0, <3>1, <3>2, <3>3
  <2> QED
    BY <1>4, <1>9, <2>1, <2>2 DEF Seed
<1>10. CASE RunStarted(t)
  <2>0. pc[t] = "runStarted" /\ UNCHANGED <<tracked, lease, creds>>
    BY <1>10 DEF RunStarted, leaseVars
  <2>1. CASE TransitionDispatch(cur[t], "queued", "running") /\ Step(t, "projectRunning") /\ UNCHANGED runVars
    <3>1. /\ pc'[t] = "projectRunning" /\ UNCHANGED <<cur, agent>>
          /\ st[r] = "queued" /\ st'[r] = "running" /\ age'[r] = 0
          /\ st' = [st EXCEPT ![r] = "running"] /\ age' = [age EXCEPT ![r] = 0]
      BY <1>3, <1>5, <2>1 DEF TransitionDispatch, Moves, Step, Goto, runVars
    <3>2. RowsSame(r)
      BY <1>5, <2>0, <3>1 DEF RowsSame
    <3>3. StartAt(t, r)' /\ pc'[t] \in InHand
      <4>1. 0 <= Budget
        BY DispatchAssumption
      <4>2. LeaseIntact(r)
        BY <1>3, <2>0, <3>1 DEF StartAt, Ended, TerminalStates
      <4> QED
        BY <1>3, <2>0, <3>1, <4>1, <4>2 DEF StartAt, Fresh, Starting, Ended, InHand, LeaseIntact
    <3> QED
      BY <1>6, <2>0, <3>1, <3>2, <3>3
  <2>2. CASE st[cur[t]] # "queued" /\ Step(t, "tearDown") /\ UNCHANGED <<storeVars, runVars>>
    <3>1. pc'[t] = "tearDown" /\ UNCHANGED <<cur, agent, st, age>> /\ st[r] # "queued"
      BY <1>3, <1>5, <2>2 DEF Step, Goto, runVars, storeVars
    <3>2. RowsSame(r)
      BY <2>0, <3>1 DEF RowsSame
    <3>3. StartAt(t, r)' /\ pc'[t] \in InHand
      BY <1>3, <2>0, <3>1 DEF StartAt, Fresh, Starting, Ended, InHand, LeaseIntact, LeaseOver
    <3> QED
      BY <1>6, <2>0, <3>1, <3>2, <3>3
  <2> QED
    BY <1>4, <1>10, <2>1, <2>2 DEF RunStarted
<1>11. CASE ProjectRunning(t)
  <2>0. /\ pc[t] = "projectRunning" /\ UNCHANGED <<tracked, lease, creds, st, age>> /\ pc'[t] = "issue"
        /\ agent' = [agent EXCEPT ![r] = "working"]
    BY <1>3, <1>4, <1>5, <1>11 DEF ProjectRunning, leaseVars, Projects, storeVars, NextIssue, Goto, Launch
  <2>1. agent'[r] = "working" /\ RowsSame(r) /\ pc'[t] \notin RowSteps
    BY <1>5, <2>0 DEF RowsSame, RowSteps
  <2>2. RunAt(r)' /\ RowAt(r)'
    BY <1>3, <2>0, <2>1 DEF RunAt, RowAt, StartAt, Executing, LeaseIntact, Starting
  <2> QED
    BY <1>7, <2>0, <2>1, <2>2
<1>12. CASE TearDownRun(t)
  <2>0. pc[t] = "tearDown" /\ UNCHANGED <<st, age, agent>> /\ pc'[t] = "issue" /\ TearDown(cur[t], TRUE)
    BY <1>4, <1>5, <1>12 DEF TearDownRun, storeVars, runVars, NextIssue, Goto
  <2>1. /\ creds'[r] = "revoked" /\ RowsSame(r) /\ pc'[t] \notin RowSteps
    BY <1>3, <1>5, <2>0 DEF TearDown, RowsSame, RowSteps, StartAt, LeaseIntact, LeaseOver
  <2>2. RunAt(r)' /\ RowAt(r)'
    BY <1>3, <2>0, <2>1 DEF RunAt, RowAt, StartAt, Executing, Ended, TerminalStates
  <2> QED
    BY <1>3, <1>7, <2>0, <2>1, <2>2
<1>13. CASE FailStart(t)
  <2>0. pc[t] = "failStart" /\ UNCHANGED <<tracked, lease, creds, agent>>
    BY <1>13 DEF FailStart, leaseVars
  <2>1. CASE FailDispatch(cur[t], "queued", "start_error") /\ Step(t, "failProject")
    <3>1. /\ st[r] = "queued" /\ st'[r] = "failed" /\ RowsSame(r) /\ pc'[t] = "failProject" /\ cur' = cur
      BY <1>3, <1>5, <2>0, <2>1 DEF FailDispatch, Moves, RowsSame, Step, Goto
    <3>2. ~Ended(r) /\ Ended(r)' /\ pc'[t] \notin InHand
      BY <3>1 DEF Ended, TerminalStates, InHand, Starting
    <3>3. RunAt(r)' /\ RowAt(r)'
      BY <1>3, <2>0, <3>1 DEF RunAt, RowAt, StartAt, Executing
    <3>4. agent'[r] # "project"
      BY <1>3, <2>0
    <3> QED
      BY <1>1, <1>3, <1>4, <3>1, <3>2, <3>3, <3>4, StarterFrame
  <2>2. CASE st[cur[t]] # "queued" /\ NextIssue(t) /\ UNCHANGED <<storeVars, observed>>
    <3>1. UNCHANGED <<st, age>> /\ pc'[t] = "issue" /\ st[r] # "queued"
      BY <1>3, <1>5, <2>2 DEF storeVars, NextIssue, Goto
    <3>2. RowsSame(r) /\ pc'[t] \notin RowSteps
      BY <2>0, <3>1 DEF RowsSame, RowSteps
    <3>3. RunAt(r)' /\ RowAt(r)'
      BY <1>3, <2>0, <3>1 DEF RunAt, RowAt, StartAt, Executing, Ended, TerminalStates
    <3> QED
      BY <1>3, <1>7, <2>0, <3>1, <3>2, <3>3
  <2> QED
    BY <1>4, <1>13, <2>1, <2>2 DEF FailStart
<1> QED
  BY <1>8, <1>9, <1>10, <1>11, <1>12, <1>13

\* The sweep.
LEMMA LifeSweep ==
  ASSUME Orderly, TypeOK, LifeInv, NEW t \in Ticks, SweepRow(t) \/ FailSwept(t) \/ EndLease(t)
  PROVE  LifeInv'
<1>1. Others(t) /\ ~MayFail("store") /\ ~MayFail("lease") /\ phase[t] \in ActiveStates
  BY OthersStay DEF Orderly, MayFail, TickStep, Sweeping, TypeOK, TickTypeOK
<1>2. /\ pc \in [Ticks -> TickStates] /\ st \in [Rows -> States] /\ age \in [Rows -> 0..MaxAge]
      /\ lease \in [Rows -> LeaseStates] /\ creds \in [Rows -> CredStates] /\ agent \in [Rows -> AgentStates]
      /\ cur \in [Ticks -> Rows \cup {NoRow}] /\ toSweep[t] \subseteq Rows
  BY DEF TypeOK, TickTypeOK, StoreTypeOK, LeaseTypeOK, RunTypeOK
<1>3. /\ "failSwept" \in RowSteps \ (InHand \cup Projecting)
      /\ "endLease" \in (RowSteps \cap Projecting) \ InHand
      /\ "sweepProject" \in (RowSteps \cap Projecting) \ InHand
      /\ "sweep" \notin RowSteps
  BY DEF RowSteps, InHand, Starting, Projecting
<1>4. CASE SweepRow(t)
  <2>0. pc[t] = "sweep" /\ UNCHANGED <<st, age, agent, tracked, lease, creds>>
    BY <1>4 DEF SweepRow, storeVars, leaseVars, runVars
  <2>1. PICK r \in toSweep[t] :
          IF SweepVerdict(r) = "none" \/ st[r] # phase[t]
          THEN pc' = pc
          ELSE pc'[t] = "failSwept" /\ cur'[t] = r /\ phase' = phase
    BY <1>2, <1>4 DEF SweepRow, Goto
  <2>2. CASE SweepVerdict(r) = "none" \/ st[r] # phase[t]
    <3>1. pc'[t] \notin RowSteps /\ pc[t] \notin InHand \cup {"endLease"}
      BY <1>3, <2>0, <2>1, <2>2 DEF InHand, Starting
    <3> QED
      BY <1>1, <2>0, <3>1, LeaveFrame
  <2>3. CASE ~(SweepVerdict(r) = "none" \/ st[r] # phase[t])
    <3>1. pc'[t] = "failSwept" /\ cur'[t] = r /\ phase' = phase /\ r \in Rows /\ st[r] = phase[t]
      BY <1>2, <2>1, <2>3
    <3>2. age[r] > Budget
      BY <1>2, <2>3, <3>1, DispatchAssumption, StoreAssumption DEF SweepVerdict, Orderly
    <3>3. SweepAt(t, r)'
      BY <2>0, <3>1, <3>2 DEF SweepAt
    <3>4. \A u \in Ticks : pc'[u] = "failSwept" /\ cur'[u] = r => SweepAt(u, r)'
      <4>1. ASSUME NEW u \in Ticks \ {t}, pc'[u] = "failSwept", cur'[u] = r PROVE SweepAt(u, r)'
        <5>1. pc[u] = "failSwept" /\ cur[u] = r /\ SweepAt(u, r)
          BY <1>1, <4>1 DEF Others, LifeInv, SweepsOld
        <5> QED
          BY <2>0, <3>1, <5>1 DEF SweepAt
      <4> QED
        BY <3>3, <4>1
    <3>5. RunAt(r) /\ RowAt(r) /\ RowsSame(r) /\ st[r] # "absent"
      BY <1>1, <2>0, <3>1 DEF LifeInv, Runs, RowsAttended, RowsSame, ActiveStates
    <3>6. ASSUME NEW S, "failSwept" \notin S, "sweep" \notin S PROVE Held(S, r)' <=> Held(S, r)
      BY <1>1, <2>0, <3>1, <3>6 DEF Held, At, Others
    <3>7. /\ Held(InHand, r)' <=> Held(InHand, r)
          /\ Held({"endLease"}, r)' <=> Held({"endLease"}, r)
          /\ Held({"projectRunning"}, r)' <=> Held({"projectRunning"}, r)
          /\ Held(Projecting, r)' <=> Held(Projecting, r)
      <4>1. \A S \in {InHand, {"endLease"}, {"projectRunning"}, Projecting} : "failSwept" \notin S /\ "sweep" \notin S
        BY DEF InHand, Starting, Projecting
      <4> QED
        BY <3>6, <4>1
    <3>8. RunAt(r)' /\ RowAt(r)'
      BY <2>0, <3>5, <3>7 DEF RunAt, RowAt, LeaseIntact, LeaseOver, Ended
    <3>9. Held(Projecting, r)' => Ended(r)' /\ agent'[r] # "project"
      BY <2>0, <3>7 DEF LifeInv, EndsProjectedOnce, Held, At, Ended
    <3>10. \A u \in Ticks \ {t} : At(u, InHand, r) => StartAt(u, r)'
      <4>1. ASSUME NEW u \in Ticks \ {t}, At(u, InHand, r) PROVE StartAt(u, r)'
        <5>1. StartAt(u, r) /\ pc'[u] = pc[u]
          BY <1>1, <4>1 DEF At, LifeInv, Starts, Others
        <5> QED
          BY <2>0, <5>1 DEF StartAt, Ended, LeaseIntact, LeaseOver
      <4> QED
        BY <4>1
    <3> QED
      BY <1>1, <1>3, <2>0, <3>1, <3>4, <3>5, <3>8, <3>9, <3>10, TickFrame
  <2> QED
    BY <2>2, <2>3
<1>5. CASE FailSwept(t)
  <2>0. pc[t] = "failSwept" /\ UNCHANGED <<agent, tracked, lease, creds>>
    BY <1>5 DEF FailSwept, leaseVars, runVars
  <2>1. CASE st[cur[t]] # phase[t] /\ NextRow(t) /\ UNCHANGED storeVars
    <3>1. UNCHANGED <<st, age>> /\ pc'[t] = "sweep"
      BY <1>2, <2>1 DEF NextRow, Goto, storeVars
    <3>2. pc'[t] \notin RowSteps /\ pc[t] \notin InHand \cup {"endLease"}
      BY <1>3, <2>0, <3>1
    <3> QED
      BY <1>1, <2>0, <3>1, <3>2, LeaveFrame
  <2>2. CASE FailDispatch(cur[t], phase[t], why[t]) /\ Step(t, "endLease")
    <3>0. PICK r \in Rows : r = cur[t]
      BY <1>3, <2>0 DEF TypeOK, TickTypeOK
    <3>1. /\ cur[t] = r /\ st[r] = phase[t] /\ st'[r] = "failed" /\ pc'[t] = "endLease"
          /\ UNCHANGED <<cur, phase>> /\ RowsSame(r) /\ age'[r] = 0
      BY <1>2, <2>0, <2>2, <3>0 DEF FailDispatch, Moves, RowsSame, Step, Goto
    <3>2. SweepAt(t, r) /\ age[r] > Budget /\ RunAt(r) /\ RowAt(r)
      BY <2>0, <3>1 DEF LifeInv, SweepsOld, SweepAt, Runs, RowsAttended
    <3>3. Active(r) /\ ~Ended(r) /\ Ended(r)' /\ st[r] # "absent"
      BY <1>1, <3>1 DEF Active, Ended, ActiveStates, TerminalStates
    <3>4. ~Held(Projecting, r) /\ agent[r] # "project"
      BY <3>2, <3>3 DEF LifeInv, EndsProjectedOnce, Held, At, RunAt
    <3>5. Held(InHand, r)' <=> Held(InHand, r)
      BY <1>1, <1>3, <2>0, <3>1 DEF Held, At, Others
    <3>6. Held({"endLease"}, r)'
      BY <3>1 DEF Held, At
    <3>7. RunAt(r)'
      BY <2>0, <3>2, <3>3, <3>5, <3>6 DEF RunAt, LeaseIntact, LeaseOver
    <3>8. RowAt(r)'
      BY <3>1 DEF RowAt
    <3>9. \A u \in Ticks \ {t} : At(u, InHand, r) => StartAt(u, r)'
      <4>1. ASSUME NEW u \in Ticks \ {t}, At(u, InHand, r) PROVE StartAt(u, r)'
        <5>1. StartAt(u, r) /\ pc'[u] = pc[u]
          BY <1>1, <4>1 DEF At, LifeInv, Starts, Others
        <5>2. pc[u] \notin Fresh \cup {"projectRunning"}
          BY <1>2, <3>2, <5>1, DispatchAssumption, StoreAssumption DEF StartAt
        <5> QED
          BY <2>0, <3>3, <5>1, <5>2 DEF StartAt, LeaseIntact, LeaseOver
      <4> QED
        BY <4>1
    <3>10. \A u \in Ticks : pc'[u] = "failSwept" /\ cur'[u] = r => SweepAt(u, r)'
      <4>1. \A u \in Ticks : phase[u] # "failed"
        BY DEF TypeOK, TickTypeOK, ActiveStates
      <4> QED
        BY <3>1, <4>1 DEF SweepAt
    <3> QED
      BY <1>1, <1>3, <2>0, <3>1, <3>3, <3>4, <3>7, <3>8, <3>9, <3>10, TickFrame
  <2> QED
    BY <1>1, <1>5, <2>1, <2>2 DEF FailSwept
<1>6. CASE EndLease(t)
  <2>0. pc[t] = "endLease" /\ UNCHANGED <<st, age, agent, cur, phase>> /\ pc'[t] = "sweepProject" /\ End(cur[t], TRUE)
    BY <1>1, <1>2, <1>6 DEF EndLease, storeVars, Step, Goto
  <2>1. PICK r \in Rows : r = cur[t]
    BY <1>3, <2>0 DEF TypeOK, TickTypeOK
  <2>2. cur[t] = r /\ RunAt(r) /\ RowAt(r) /\ Ended(r) /\ agent[r] # "project" /\ UNCHANGED tracked
    BY <1>3, <2>0, <2>1 DEF LifeInv, Runs, RowsAttended, EndsProjectedOnce, End, EndDispatchedLease, leaseVars
  <2>3. RowsSame(r)
    BY <1>2, <2>0, <2>2 DEF RowsSame, End, EndDispatchedLease, leaseVars
  <2>4. /\ r \in tracked /\ LeaseIntact(r) => LeaseOver(r)'
        /\ ~(r \in tracked /\ lease[r] = "held") => lease'[r] = lease[r] /\ creds'[r] = creds[r]
    BY <1>2, <2>0, <2>2 DEF End, Live, EndDispatchedLease, leaseVars, LeaseIntact, LeaseOver
  <2>5. Held(InHand, r)' <=> Held(InHand, r)
    BY <1>1, <1>3, <2>0 DEF Held, At, Others
  <2>6. Ended(r)' /\ st'[r] \notin {"absent", "queued", "running"} /\ st[r] \notin {"absent", "queued", "running"}
    BY <2>0, <2>2 DEF Ended, TerminalStates
  <2>7. \A u \in Ticks \ {t} : At(u, InHand, r) => StartAt(u, r)'
    <3>1. ASSUME NEW u \in Ticks \ {t}, At(u, InHand, r) PROVE StartAt(u, r)'
      <4>1. StartAt(u, r) /\ pc'[u] = pc[u]
        BY <1>1, <3>1 DEF At, LifeInv, Starts, Others
      <4>2. pc[u] \notin Fresh \cup {"projectRunning"}
        BY <2>6, <4>1 DEF StartAt
      <4> QED
        BY <1>2, <2>0, <2>2, <2>4, <2>6, <4>1, <4>2 DEF StartAt, LeaseIntact, LeaseOver, Starting, Fresh
    <3> QED
      BY <3>1
  <2>8. RunAt(r)'
    <3>1. agent[r] \in {"working", "leaseEnd"} => LeaseOver(r)'
      BY <2>2, <2>4 DEF RunAt, Executing, LeaseIntact, LeaseOver
    <3>2. creds'[r] = "live" => creds[r] = "live"
      BY <1>2, <2>0, <2>4, <2>2 DEF End, EndDispatchedLease, leaseVars
    <3>3. lease'[r] = "held" => lease[r] = "held"
      BY <1>2, <2>0, <2>4, <2>2 DEF End, EndDispatchedLease, leaseVars
    <3> QED
      BY <2>0, <2>2, <2>5, <2>6, <3>1, <3>2, <3>3 DEF RunAt
  <2>9. RowAt(r)'
    BY <2>6 DEF RowAt
  <2>10. \A u \in Ticks : pc'[u] = "failSwept" /\ cur'[u] = r => SweepAt(u, r)'
    <3>1. \A u \in Ticks : phase[u] \notin TerminalStates
      BY DEF TypeOK, TickTypeOK, ActiveStates, TerminalStates
    <3> QED
      BY <2>0, <2>6, <3>1 DEF SweepAt, Ended
  <2>11. Held(Projecting, r)' => Ended(r)' /\ agent'[r] # "project"
    BY <2>0, <2>2, <2>6
  <2> QED
    BY <1>1, <1>3, <2>0, <2>2, <2>3, <2>7, <2>8, <2>9, <2>10, <2>11, TickFrame
<1> QED
  BY <1>4, <1>5, <1>6

\* The steps that take no row and end none, and the projections, which let go
\* of an ended row.
LEMMA LifeLeave ==
  ASSUME Orderly, TypeOK, LifeInv, NEW t \in Ticks,
         \/ StartTick(t) \/ TickAborts(t) \/ ListDispatches(t) \/ SweepListDone(t) \/ SweepProject(t)
         \/ ListIssues(t) \/ PickIssue(t) \/ TickDone(t) \/ WarnUnrouted(t) \/ WarnPost(t) \/ WarnForget(t)
         \/ ChooseRoute(t) \/ FailProject(t)
  PROVE  LifeInv'
<1>1. Others(t) /\ ~MayFail("store") /\ ~MayFail("forge") /\ pc \in [Ticks -> TickStates]
  BY OthersStay DEF Orderly, MayFail, TickStep, Sweeping, Dispatching, TypeOK, TickTypeOK
<1>2. UNCHANGED <<st, age, agent, tracked, lease, creds>>
  BY <1>1 DEF StartTick, TickAborts, ListDispatches, SweepListDone, SweepProject, ListIssues, PickIssue,
     TickDone, WarnUnrouted, WarnPost, WarnForget, ChooseRoute, FailProject, storeVars, leaseVars, runVars,
     ProjectsFailure, Projects, RecordDispatchWarning, ForgetDispatchWarning
<1>3. pc[t] \in TickStates \ (InHand \cup {"endLease"})
  BY <1>1 DEF StartTick, TickAborts, ListDispatches, SweepListDone, SweepProject, ListIssues, PickIssue,
     TickDone, WarnUnrouted, WarnPost, WarnForget, ChooseRoute, FailProject, InHand, Starting
<1>4. pc'[t] \in {"idle", "listRows", "sweep", "list", "issue", "scan", "warnPost", "warnForget", "insert"}
  <2>1. CASE StartTick(t) \/ ListDispatches(t) \/ SweepListDone(t) \/ ListIssues(t) \/ PickIssue(t) \/ WarnUnrouted(t)
    BY <1>1, <2>1 DEF StartTick, ListDispatches, SweepListDone, ListIssues, PickIssue, WarnUnrouted, Step, Return, Goto
  <2>2. CASE TickAborts(t) \/ SweepProject(t) \/ TickDone(t) \/ WarnPost(t) \/ WarnForget(t) \/ ChooseRoute(t) \/ FailProject(t)
    BY <1>1, <2>2 DEF TickAborts, SweepProject, TickDone, WarnPost, WarnForget, ChooseRoute, FailProject,
       Return, NextIssue, NextRow, Step, Goto
  <2> QED
    BY <2>1, <2>2
<1>5. pc'[t] \notin RowSteps
  BY <1>4 DEF RowSteps
<1> QED
  BY <1>1, <1>2, <1>3, <1>5, LeaveFrame

LEMMA LifeInsert ==
  ASSUME Orderly, TypeOK, LifeInv, NEW t \in Ticks, Insert(t)
  PROVE  LifeInv'
<1>1. Others(t) /\ ~MayFail("store")
  BY OthersStay DEF Orderly, MayFail, TickStep, Dispatching
<1>2. /\ pc \in [Ticks -> TickStates] /\ st \in [Rows -> States] /\ age \in [Rows -> 0..MaxAge]
      /\ cur \in [Ticks -> Rows \cup {NoRow}]
  BY DEF TypeOK, TickTypeOK, StoreTypeOK
<1>3. pc[t] = "insert" /\ UNCHANGED <<agent, tracked, lease, creds>>
  BY DEF Insert, leaseVars, runVars
<1>4. CASE (NextIssue(t) \/ Return(t)) /\ UNCHANGED storeVars
  <2>1. UNCHANGED <<st, age>> /\ pc'[t] \in {"issue", "idle"}
    BY <1>2, <1>4 DEF NextIssue, Return, Goto, storeVars
  <2>2. pc'[t] \notin RowSteps /\ pc[t] \notin InHand \cup {"endLease"}
    BY <1>3, <2>1 DEF RowSteps, InHand, Starting
  <2> QED
    BY <1>1, <1>3, <2>1, <2>2, LeaveFrame
<1>5. CASE \E r \in Rows : \E s : InsertDispatch(r, iss[t], s) /\ Goto(t, "reread") /\ cur' = [cur EXCEPT ![t] = r]
  <2>1. PICK r \in Rows : \E s : InsertDispatch(r, iss[t], s) /\ Goto(t, "reread") /\ cur' = [cur EXCEPT ![t] = r]
    BY <1>5
  <2>2. /\ st[r] = "absent" /\ st'[r] = "queued" /\ age'[r] = 0 /\ cur'[t] = r /\ pc'[t] = "reread"
        /\ st' = [st EXCEPT ![r] = "queued"] /\ age' = [age EXCEPT ![r] = 0]
    BY <1>2, <2>1 DEF InsertDispatch, Goto
  <2>3. RowsSame(r)
    BY <1>2, <1>3, <2>2 DEF RowsSame
  <2>4. RowAt(r) /\ ~Held(RowSteps, r) /\ agent[r] = "none" /\ creds[r] = "none" /\ lease[r] = "nil" /\ r \notin tracked
    BY <2>2 DEF LifeInv, RowsAttended, RowAt
  <2>5. \A S \in SUBSET RowSteps : ~Held(S, r)
    BY <2>4 DEF Held, At
  <2>6. InHand \subseteq RowSteps /\ Projecting \subseteq RowSteps /\ {"failSwept"} \subseteq RowSteps
    BY DEF InHand, Starting, Projecting, RowSteps
  <2>7. ~Held(InHand, r) /\ ~Held(Projecting, r) /\ ~Held({"failSwept"}, r)
    BY <2>5, <2>6
  <2>8. StartAt(t, r)'
    <3>1. 0 <= Budget
      BY DispatchAssumption
    <3> QED
      BY <1>3, <2>2, <2>4, <3>1 DEF StartAt, Fresh, Starting
  <2>9. Held(InHand, r)' /\ pc'[t] \in InHand
    BY <2>2 DEF Held, At, InHand
  <2>10. RunAt(r)' /\ RowAt(r)'
    BY <1>3, <2>2, <2>4, <2>9 DEF RunAt, RowAt, Executing
  <2>11. ~Held(Projecting, r)' /\ pc'[t] \notin Projecting /\ pc'[t] # "failSwept"
    BY <1>1, <2>2, <2>7 DEF Held, At, Others, Projecting
  <2>12. \A u \in Ticks : ~(pc'[u] = "failSwept" /\ cur'[u] = r)
    BY <1>1, <2>7, <2>11 DEF Held, At, Others
  <2>13. \A u \in Ticks \ {t} : ~At(u, InHand, r)
    BY <2>7 DEF Held
  <2>14. pc[t] \notin RowSteps
    BY <1>3 DEF RowSteps
  <2> QED
    BY <1>1, <2>2, <2>3, <2>7, <2>8, <2>10, <2>11, <2>12, <2>13, <2>14, TickFrame
<1> QED
  BY <1>1, <1>4, <1>5 DEF Insert

\* Steps that move no tick and no row: cancellations and human edits.
LEMMA LifeQuiet ==
  LifeInv /\ UNCHANGED <<st, age, agent, tracked, lease, creds, pc, cur, phase>> => LifeInv'
BY DEF LifeInv, OneStarter, Starts, StartAt, Runs, RunAt, RowsAttended, RowAt, SweepsOld, SweepAt, EndsProjectedOnce,
       Held, At, LeaseIntact, LeaseOver, Ended

\* Time passes only for rows outside the bounded steps.
LEMMA LifeClock == ASSUME TypeOK, LifeInv, Clock PROVE LifeInv'
<1>1. UNCHANGED <<st, agent, tracked, lease, creds, pc, cur, phase>>
  BY DEF Clock, Ages, leaseVars, runVars, tickVars
<1>2. \A r \in Rows : age[r] \in Nat /\ age'[r] \in {age[r], age[r] + 1}
  BY StoreAssumption DEF Clock, Ages, TypeOK, StoreTypeOK
<1>3. \A t \in Ticks : pc[t] \in RowSteps => cur[t] \in Rows
  BY DEF TypeOK, TickTypeOK
<1>4. Fresh \cup {"projectRunning"} \subseteq BoundedSteps \cap RowSteps /\ InHand \subseteq RowSteps
  BY DEF Fresh, BoundedSteps, RowSteps, InHand, Starting
<1>5. Starts'
  <2> SUFFICES ASSUME NEW t \in Ticks, pc[t] \in InHand PROVE StartAt(t, cur[t])'
    BY <1>1 DEF Starts
  <2>1. StartAt(t, cur[t]) /\ cur[t] \in Rows
    BY <1>3, <1>4 DEF LifeInv, Starts
  <2>2. pc[t] \in Fresh \cup {"projectRunning"} => age'[cur[t]] <= Budget
    BY <1>2, <1>4, <2>1, DispatchAssumption DEF Clock
  <2> QED
    BY <1>1, <2>1, <2>2 DEF StartAt, Ended, LeaseIntact, LeaseOver
<1>6. SweepsOld'
  <2>1. "failSwept" \in RowSteps
    BY DEF RowSteps
  <2> QED
    BY <1>1, <1>2, <1>3, <2>1, DispatchAssumption DEF LifeInv, SweepsOld, SweepAt
<1>7. OneStarter' /\ Runs' /\ RowsAttended' /\ EndsProjectedOnce'
  BY <1>1 DEF LifeInv, OneStarter, Runs, RunAt, RowsAttended, RowAt, EndsProjectedOnce,
     Held, At, LeaseIntact, LeaseOver, Ended
<1> QED
  BY <1>5, <1>6, <1>7 DEF LifeInv

\* The run's own goroutine.
LEMMA LifeRun ==
  ASSUME Orderly, TypeOK, LifeInv, NEW r \in Rows, AgentReturns(r) \/ RunFinishes(r)
  PROVE  LifeInv'
<1>1. ~MayFail("store") /\ ~MayFail("forge") /\ ~MayFail("lease") /\ UNCHANGED tickVars
  BY DEF Orderly, MayFail, AgentReturns, RunFinishes, RunEndsLease, RunEnded, RunProjects, RunUntracks
<1>2. /\ st \in [Rows -> States] /\ age \in [Rows -> 0..MaxAge]
      /\ lease \in [Rows -> LeaseStates] /\ creds \in [Rows -> CredStates] /\ agent \in [Rows -> AgentStates]
  BY DEF TypeOK, TickTypeOK, StoreTypeOK, LeaseTypeOK, RunTypeOK
<1>3. RunAt(r) /\ RowAt(r)
  BY DEF LifeInv, Runs, RowsAttended
<1>4. Held(Projecting, r) => Ended(r) /\ agent[r] # "project"
  BY DEF LifeInv, EndsProjectedOnce, Held, At
<1>5. UNCHANGED <<pc, cur>>
  BY <1>1 DEF tickVars
<1>6. /\ Held({"endLease"}, r)' <=> Held({"endLease"}, r)
      /\ Held({"projectRunning"}, r)' <=> Held({"projectRunning"}, r)
  BY <1>5 DEF Held, At
<1>a. agent[r] # "none" => st[r] \notin {"absent", "queued"}
  BY <1>2, <1>3 DEF RunAt, AgentStates, Executing, Ended, TerminalStates
<1>7. CASE AgentReturns(r)
  <2>1. /\ agent[r] = "working" /\ agent' = [agent EXCEPT ![r] = "leaseEnd"]
        /\ UNCHANGED <<st, age, lease, creds, tracked>>
    BY <1>7 DEF AgentReturns, AgentAt, storeVars, leaseVars
  <2>2. agent'[r] = "leaseEnd" /\ RowsSame(r)
    BY <1>2, <2>1 DEF RowsSame
  <2>3. RunAt(r)' /\ RowAt(r)'
    BY <1>3, <1>6, <1>a, <2>1, <2>2 DEF RunAt, RowAt, Executing, LeaseIntact, LeaseOver, Ended
  <2> QED
    BY <1>1, <1>4, <2>1, <2>2, <2>3, RunFrame DEF Ended
<1>8. CASE RunEndsLease(r)
  <2>1. /\ agent[r] = "leaseEnd" /\ agent' = [agent EXCEPT ![r] = "report"]
        /\ UNCHANGED <<st, age, tracked>> /\ EndDispatchedLease(r, TRUE)
    BY <1>1, <1>8 DEF RunEndsLease, AgentAt, storeVars, EndDispatchedLease
  <2>2. agent'[r] = "report" /\ RowsSame(r)
    BY <1>2, <2>1 DEF RowsSame, EndDispatchedLease
  <2>3. LeaseOver(r)'
    BY <1>2, <1>3, <2>1 DEF EndDispatchedLease, RunAt, LeaseIntact, LeaseOver
  <2>4. RunAt(r)' /\ RowAt(r)'
    BY <1>3, <1>a, <2>1, <2>2, <2>3 DEF RunAt, RowAt, Executing, LeaseOver, Ended
  <2> QED
    BY <1>1, <1>4, <2>1, <2>2, <2>4, RunFrame DEF Ended
<1>9. CASE RunEnded(r)
  <2>0. agent[r] = "report" /\ UNCHANGED <<tracked, lease, creds>>
    BY <1>9 DEF RunEnded, leaseVars
  <2>1. CASE Closes(r) /\ AgentAt(r, "project")
    <3>1. PICK from \in ActiveStates, to \in TerminalStates : Moves(r, from, to)
      BY <2>1 DEF Closes, TransitionDispatch, FailDispatch, TerminalStates
    <3>2. st[r] = from /\ st'[r] = to /\ agent'[r] = "project" /\ RowsSame(r)
      BY <1>2, <2>0, <2>1, <3>1 DEF Moves, RowsSame, AgentAt
    <3>3. ~Ended(r) /\ Ended(r)' /\ st'[r] \notin {"absent", "queued", "running"}
      BY <3>2 DEF Ended, ActiveStates, TerminalStates
    <3>4. ~Held(Projecting, r)
      BY <1>4, <3>3
    <3>5. RunAt(r)' /\ RowAt(r)'
      BY <1>3, <2>0, <3>2, <3>3 DEF RunAt, RowAt, Executing
    <3> QED
      BY <1>1, <2>0, <3>2, <3>3, <3>4, <3>5, RunFrame
  <2>2. CASE ~Active(r) /\ UNCHANGED storeVars /\ AgentAt(r, "untrack")
    <3>1. agent'[r] = "untrack" /\ RowsSame(r) /\ UNCHANGED <<st, age>>
      BY <1>2, <2>0, <2>2 DEF RowsSame, AgentAt, storeVars
    <3>2. Ended(r) /\ Ended(r)' /\ st'[r] \notin {"absent", "queued", "running"}
      BY <1>3, <2>0, <2>2, <3>1 DEF Ended, Active, ActiveStates, TerminalStates, RunAt, Executing
    <3>3. RunAt(r)' /\ RowAt(r)'
      BY <1>3, <2>0, <3>1, <3>2 DEF RunAt, RowAt, Executing
    <3> QED
      BY <1>1, <2>0, <3>1, <3>2, <3>3, RunFrame
  <2> QED
    BY <1>1, <1>9, <2>1, <2>2 DEF RunEnded
<1>10. CASE RunProjects(r) \/ RunUntracks(r)
  <2>1. /\ agent[r] \in {"project", "untrack"} /\ UNCHANGED <<st, age, lease, creds>>
        /\ \E s \in {"untrack", "over"} : agent' = [agent EXCEPT ![r] = s]
        /\ tracked' \in {tracked, tracked \ {r}}
    BY <1>1, <1>10 DEF RunProjects, RunUntracks, Projects, ProjectsFailure, storeVars, leaseVars, AgentAt, Untrack
  <2>2. agent'[r] \in {"untrack", "over"} /\ RowsSame(r)
    BY <1>2, <2>1 DEF RowsSame
  <2>3. Ended(r)' /\ Ended(r) /\ st'[r] \notin {"absent", "queued", "running"}
    BY <1>3, <2>1 DEF RunAt, Ended, TerminalStates
  <2>4. RunAt(r)' /\ RowAt(r)'
    BY <1>3, <2>1, <2>2, <2>3 DEF RunAt, RowAt, Executing
  <2> QED
    BY <1>1, <2>1, <2>2, <2>3, <2>4, RunFrame
<1> QED
  BY <1>7, <1>8, <1>9, <1>10 DEF RunFinishes

LEMMA LifeInit == Init => LifeInv
BY DEF Init, StoreInit, LeaseInit, LifeInv, OneStarter, Starts, Runs, RunAt, RowsAttended, RowAt, SweepsOld,
       EndsProjectedOnce, Held, At, InHand, Starting, RowSteps, Projecting, Executing

LEMMA LifeNext == Orderly /\ TypeOK /\ LifeInv /\ [Next]_vars => LifeInv'
<1> SUFFICES ASSUME Orderly, TypeOK, LifeInv, [Next]_vars PROVE LifeInv'
  OBVIOUS
<1>1. ASSUME NEW t \in Ticks, TickStep(t) PROVE LifeInv'
  BY <1>1, LifeFresh, LifeStarting, LifeSweep, LifeLeave, LifeInsert DEF TickStep, Sweeping, Dispatching
<1>2. CASE (\E t \in Ticks : CancelTick(t)) \/ (\E i \in Issues : Human(i)) \/ UNCHANGED vars
  BY <1>2, LifeQuiet DEF CancelTick, Human, vars, storeVars, leaseVars, runVars, tickVars
<1>3. ~Crash
  BY DEF Orderly, Crash, TypeOK
<1> QED
  BY <1>1, <1>2, <1>3, LifeRun, LifeClock DEF Next

LEMMA LifeAlways == ASSUME Orderly PROVE Spec => []LifeInv
BY LifeInit, LifeNext, TypeCorrect, PTL DEF Spec

\* No cancellation point, failed start or sweep leaves a row active with
\* nobody behind it.
THEOREM NoRowIsAbandoned == ASSUME Orderly PROVE Spec => []ActiveRowsAreOwned
<1>1. LifeInv => ActiveRowsAreOwned
  <2> SUFFICES ASSUME LifeInv, NEW r \in Rows, Active(r)
               PROVE  r \in tracked \/ \E t \in Ticks : cur[t] = r /\ pc[t] \in InHand
    BY DEF ActiveRowsAreOwned
  <2>1. RunAt(r) /\ RowAt(r) /\ st[r] \in {"queued", "running"}
    BY DEF LifeInv, Runs, RowsAttended, Active, ActiveStates
  <2> QED
    BY <2>1 DEF RunAt, RowAt, Held, At, InHand, Starting
<1> QED
  BY <1>1, LifeAlways, PTL

\* The credentials of a run outlive its row only while the sweep is ending
\* the lease or the start that minted them has still to report.
THEOREM CredentialsEndWithTheRow == ASSUME Orderly PROVE Spec => []EndedRowsLoseCredentials
<1>1. TypeOK /\ LifeInv => EndedRowsLoseCredentials
  <2> SUFFICES ASSUME TypeOK, LifeInv, NEW r \in Rows, st[r] \in TerminalStates, creds[r] = "live"
               PROVE  \E t \in Ticks : cur[t] = r /\ pc[t] \in {"endLease"} \cup Starting
    BY DEF EndedRowsLoseCredentials
  <2>1. RunAt(r) /\ st[r] \notin {"queued", "running"} /\ agent[r] \in AgentStates
    BY DEF LifeInv, Runs, TerminalStates, TypeOK, RunTypeOK
  <2>2. CASE agent[r] = "none"
    <3>1. PICK t \in Ticks : pc[t] \in InHand /\ cur[t] = r
      BY <2>1, <2>2 DEF RunAt, Held, At
    <3>2. StartAt(t, r)
      BY <3>1 DEF LifeInv, Starts
    <3> QED
      BY <2>1, <3>1, <3>2 DEF StartAt, InHand, Fresh
  <2>3. CASE agent[r] \in {"working", "leaseEnd"}
    BY <2>1, <2>3 DEF RunAt, LeaseIntact, LeaseOver, Held, At
  <2> QED
    BY <2>1, <2>2, <2>3 DEF RunAt
<1> QED
  BY <1>1, LifeAlways, TypeCorrect, PTL

----------------------------------------------------------------------------
(* The labels.  A row claims its issue from its re-read until its end is    *)
(* projected; agent:queued and agent:running keep every other row out of    *)
(* that window, also after a sweep has freed the index.                     *)

LabelInv == LabelsOwed /\ OneClaim /\ ClaimsClean

ClaimSteps == Labelled \cup Projecting \cup {"label"}

LEMMA RelabelledState ==
  ASSUME ForgeTypeOK, NEW i \in Issues, NEW add, NEW rem, NEW drop, forge' = Relabelled(i, add, rem, drop)
  PROVE  /\ forge'[i].state = (forge[i].state \cup add) \ rem
         /\ \A j \in Issues \ {i} : forge'[j] = forge[j]
BY DEF ForgeTypeOK, Relabelled, IssueState

\* A step that changes no claim, and of the labels nothing that matters.
LEMMA ClaimFrame ==
  ASSUME LabelInv,
         \A r \in Rows : /\ Owes(r)' <=> Owes(r)
                         /\ Claims(r)' => Claims(r)
                         /\ Claims(r)' => issueOf'[r] = issueOf[r] /\ (Active(r)' => Active(r)),
         \A i \in Issues : /\ forge'[i].state \cap ActiveLabels # {} <=> forge[i].state \cap ActiveLabels # {}
                           /\ forge'[i].state \cap {"done", "failed"} \subseteq forge[i].state,
         StoreTypeOK
  PROVE  LabelInv'
<1>1. \A r \in Rows : (Owes(r) => Claims(r)) /\ (Owes(r)' => Claims(r)')
  BY DEF Claims
<1>2. LabelsOwed'
  BY <1>1 DEF LabelInv, LabelsOwed
<1>3. OneClaim'
  BY DEF LabelInv, OneClaim
<1>4. ClaimsClean'
  <2> SUFFICES ASSUME NEW r \in Rows, Claims(r)', Active(r)'
               PROVE  forge'[issueOf'[r]].state \cap {"done", "failed"} = {}
    BY DEF ClaimsClean
  <2>1. Claims(r) /\ Active(r) /\ issueOf'[r] = issueOf[r] /\ issueOf[r] \in Issues
    BY DEF StoreTypeOK
  <2>2. forge[issueOf[r]].state \cap {"done", "failed"} = {}
    BY <2>1 DEF LabelInv, ClaimsClean
  <2> QED
    BY <2>1, <2>2
<1> QED
  BY <1>2, <1>3, <1>4 DEF LabelInv

\* The end of row r is projected.
LEMMA ProjectionFrame ==
  ASSUME LabelInv, StoreTypeOK, NEW r \in Rows, Owes(r), ~Claims(r)', UNCHANGED <<st, issueOf>>,
         \A q \in Rows \ {r} : (Owes(q)' <=> Owes(q)) /\ (Claims(q)' => Claims(q)),
         forge'[issueOf[r]].state \cap ActiveLabels = {},
         \A j \in Issues \ {issueOf[r]} : forge'[j] = forge[j]
  PROVE  LabelInv'
<1>1. \A q \in Rows : (Owes(q) => Claims(q)) /\ (Owes(q)' => Claims(q)')
  BY DEF Claims
<1>2. \A q \in Rows \ {r} : Claims(q)' => issueOf[q] # issueOf[r] /\ issueOf[q] \in Issues
  BY <1>1 DEF LabelInv, OneClaim, StoreTypeOK
<1>3. LabelsOwed'
  BY <1>1, <1>2 DEF LabelInv, LabelsOwed
<1>4. OneClaim'
  BY DEF LabelInv, OneClaim
<1>5. ClaimsClean'
  BY <1>2 DEF LabelInv, ClaimsClean, Active
<1> QED
  BY <1>3, <1>4, <1>5 DEF LabelInv

\* A tick that neither enters, nor leaves, nor moves within the steps of a
\* claim changes none.
LEMMA ClaimsElsewhere ==
  ASSUME NEW t \in Ticks, Others(t), pc[t] \notin ClaimSteps, pc'[t] \notin ClaimSteps,
         UNCHANGED <<st, agent>>, NEW r
  PROVE  (Owes(r)' <=> Owes(r)) /\ (Claims(r)' <=> Claims(r)) /\ (Active(r)' <=> Active(r))
<1>1. ASSUME NEW S \in SUBSET ClaimSteps PROVE Held(S, r)' <=> Held(S, r)
  BY DEF Held, At, Others
<1>2. /\ Held(Labelled, r)' <=> Held(Labelled, r)
      /\ Held(Projecting, r)' <=> Held(Projecting, r)
      /\ Held({"label"}, r)' <=> Held({"label"}, r)
  BY <1>1 DEF ClaimSteps
<1> QED
  BY <1>2 DEF Owes, Claims, Active

\* A step of tick t on row r changes no other row's claim.
LEMMA ClaimsOfOthers ==
  ASSUME NEW t \in Ticks, NEW r \in Rows, Others(t),
         pc[t] \in ClaimSteps => cur[t] = r, pc'[t] \in ClaimSteps => cur'[t] = r,
         NEW q \in Rows \ {r}, st'[q] = st[q], agent'[q] = agent[q]
  PROVE  (Owes(q)' <=> Owes(q)) /\ (Claims(q)' <=> Claims(q)) /\ (Active(q)' <=> Active(q))
<1>1. ASSUME NEW S \in SUBSET ClaimSteps PROVE Held(S, q)' <=> Held(S, q)
  BY DEF Held, At, Others
<1>2. /\ Held(Labelled, q)' <=> Held(Labelled, q)
      /\ Held(Projecting, q)' <=> Held(Projecting, q)
      /\ Held({"label"}, q)' <=> Held({"label"}, q)
  BY <1>1 DEF ClaimSteps
<1> QED
  BY <1>2 DEF Owes, Claims, Active

\* Where the tick that has row r in hand stands decides r's claim.
LEMMA StarterClaims ==
  ASSUME LifeInv, NEW t \in Ticks, NEW r \in Rows, Others(t), pc[t] \in InHand, cur[t] = r,
         pc'[t] \in RowSteps => cur'[t] = r
  PROVE  /\ Held(Labelled, r) <=> pc[t] \in Labelled
         /\ Held(Labelled, r)' <=> pc'[t] \in Labelled
         /\ Held({"label"}, r) <=> pc[t] = "label"
         /\ Held({"label"}, r)' <=> pc'[t] = "label"
         /\ Held(Projecting, r)' <=> (Held(Projecting, r) \/ pc'[t] \in Projecting)
<1>1. \A u \in Ticks \ {t} : ~At(u, InHand, r)
  BY DEF LifeInv, OneStarter, At
<1>2. /\ Labelled \subseteq InHand /\ "label" \in InHand /\ InHand \subseteq RowSteps
      /\ Projecting \subseteq RowSteps \ InHand
  BY DEF Labelled, InHand, Starting, RowSteps, Projecting
<1> QED
  BY <1>1, <1>2 DEF Held, At, Others

\* A tick goes on with the row it has in hand: its claim is the same unless
\* it passes the re-read.
LEMMA LabelStarting ==
  ASSUME Orderly, TypeOK, LifeInv, LabelInv, OneActivePerIssue, NEW t \in Ticks,
         \/ Reread(t) \/ Abandon(t) \/ LabelQueued(t) \/ BeginStart(t) \/ Provision(t) \/ Seed(t)
         \/ RunStarted(t) \/ ProjectRunning(t) \/ TearDownRun(t) \/ FailStart(t)
  PROVE  LabelInv'
<1>1. pc[t] \in InHand
  BY DEF Reread, Abandon, LabelQueued, BeginStart, Provision, Seed, RunStarted, ProjectRunning,
     TearDownRun, FailStart, InHand, Starting
<1>2. PICK r \in Rows : r = cur[t]
  BY <1>1, StarterFacts
<1>3. cur[t] = r /\ StartAt(t, r) /\ RunAt(r) /\ agent[r] = "none"
  BY <1>1, <1>2, StarterFacts DEF StartAt
<1>4. Others(t) /\ ~MayFail("store") /\ ~MayFail("forge")
  BY OthersStay DEF Orderly, MayFail, TickStep, Dispatching
<1>5. /\ pc \in [Ticks -> TickStates] /\ st \in [Rows -> States] /\ agent \in [Rows -> AgentStates]
      /\ issueOf \in [Rows -> Issues] /\ StoreTypeOK /\ ForgeTypeOK /\ issueOf[r] \in Issues
  BY DEF TypeOK, TickTypeOK, StoreTypeOK, RunTypeOK
<1>6. Held(Projecting, r) => Ended(r)
  BY DEF LifeInv, EndsProjectedOnce, Held, At
<1>7. ClaimSteps \subseteq RowSteps /\ Labelled \cap Projecting = {} /\ "label" \notin Labelled \cup Projecting
  BY DEF ClaimSteps, Labelled, Projecting, RowSteps
\* Nothing but the row's own claim is left to look at.
<1>8. ASSUME pc'[t] \in RowSteps => cur'[t] = r, UNCHANGED issueOf,
             \A q \in Rows \ {r} : st'[q] = st[q] /\ agent'[q] = agent[q],
             Owes(r)' <=> Owes(r), Claims(r)' => Claims(r), Active(r)' => Active(r),
             \A i \in Issues : /\ forge'[i].state \cap ActiveLabels # {} <=> forge[i].state \cap ActiveLabels # {}
                               /\ forge'[i].state \cap {"done", "failed"} \subseteq forge[i].state
      PROVE  LabelInv'
  <2>1. \A q \in Rows \ {r} : (Owes(q)' <=> Owes(q)) /\ (Claims(q)' <=> Claims(q)) /\ (Active(q)' <=> Active(q))
    BY <1>3, <1>4, <1>7, <1>8, ClaimsOfOthers
  <2> QED
    BY <1>5, <1>8, <2>1, ClaimFrame
<1>9. CASE Reread(t)
  <2>1. /\ UNCHANGED <<st, issueOf, agent, forge, cur>> /\ pc[t] = "reread" /\ pc'[t] \in {"label", "abandon"}
        /\ pc'[t] = "label" => forge[issueOf[r]].state = {}
    BY <1>3, <1>5, <1>9 DEF Reread, storeVars, forgeVars, runVars, Step, Goto, Dispatchable, HasStateLabel
  <2>2. st[r] = "queued" /\ Active(r) /\ ~Ended(r)
    BY <1>3, <2>1 DEF StartAt, Fresh, Active, ActiveStates, Ended, TerminalStates
  <2>3. ~Owes(r) /\ ~Owes(r)' /\ (Claims(r)' <=> pc'[t] = "label") /\ (Active(r)' <=> Active(r))
    BY <1>1, <1>3, <1>4, <1>6, <2>1, <2>2, StarterClaims DEF Owes, Claims, Active, Labelled, Executing, Projecting
  <2>4. CASE pc'[t] = "abandon"
    BY <1>3, <1>8, <2>1, <2>3, <2>4
  <2>5. CASE pc'[t] = "label"
    <3>1. \A q \in Rows \ {r} : (Owes(q)' <=> Owes(q)) /\ (Claims(q)' <=> Claims(q)) /\ (Active(q)' <=> Active(q))
      BY <1>3, <1>4, <2>1, ClaimsOfOthers
    <3>2. ASSUME NEW q \in Rows \ {r}, Claims(q), issueOf[q] = issueOf[r] PROVE FALSE
      <4>1. CASE Owes(q)
        BY <1>5, <2>1, <2>5, <3>2, <4>1 DEF LabelInv, LabelsOwed
      <4>2. CASE Held({"label"}, q)
        <5>1. PICK u \in Ticks : pc[u] = "label" /\ cur[u] = q
          BY <4>2 DEF Held, At
        <5>2. st[q] = "queued"
          BY <5>1 DEF LifeInv, Starts, StartAt, InHand, Fresh
        <5> QED
          BY <2>2, <3>2, <5>2 DEF OneActivePerIssue, Active, ActiveStates
      <4> QED
        BY <3>2, <4>1, <4>2 DEF Claims
    <3>3. LabelsOwed'
      BY <2>1, <2>3, <3>1 DEF LabelInv, LabelsOwed
    <3>4. OneClaim'
      BY <2>1, <3>1, <3>2 DEF LabelInv, OneClaim
    <3>5. ClaimsClean'
      BY <2>1, <2>5, <3>1 DEF LabelInv, ClaimsClean
    <3> QED
      BY <3>3, <3>4, <3>5 DEF LabelInv
  <2> QED
    BY <2>1, <2>4, <2>5
<1>10. CASE LabelQueued(t)
  <2>1. /\ UNCHANGED <<st, issueOf, agent, cur>> /\ pc[t] = "label" /\ pc'[t] = "labelled"
        /\ forge' = Relabelled(issueOf[r], {"queued"}, {}, {})
    BY <1>3, <1>4, <1>5, <1>10 DEF LabelQueued, Projects, storeVars, runVars, Step, Goto
  <2>2. /\ forge'[issueOf[r]].state = forge[issueOf[r]].state \cup {"queued"}
        /\ \A j \in Issues \ {issueOf[r]} : forge'[j] = forge[j]
    BY <1>5, <2>1, RelabelledState
  <2>3. st[r] = "queued" /\ Active(r) /\ ~Ended(r)
    BY <1>3, <2>1 DEF StartAt, Fresh, Active, ActiveStates, Ended, TerminalStates
  <2>4. Claims(r) /\ Owes(r)' /\ Claims(r)' /\ Active(r)'
    BY <1>1, <1>3, <1>4, <2>1, <2>3, StarterClaims DEF Owes, Claims, Active, Labelled
  <2>5. \A q \in Rows \ {r} : (Owes(q)' <=> Owes(q)) /\ (Claims(q)' <=> Claims(q)) /\ (Active(q)' <=> Active(q))
    BY <1>3, <1>4, <2>1, ClaimsOfOthers
  <2>6. LabelsOwed'
    <3>1. ASSUME NEW i \in Issues PROVE (forge'[i].state \cap ActiveLabels # {} <=> \E q \in Rows : issueOf'[q] = i /\ Owes(q)')
      <4>1. CASE i = issueOf[r]
        BY <2>1, <2>2, <2>4, <4>1 DEF ActiveLabels
      <4>2. CASE i # issueOf[r]
        BY <2>1, <2>2, <2>5, <4>2 DEF LabelInv, LabelsOwed
      <4> QED
        BY <4>1, <4>2
    <3> QED
      BY <3>1 DEF LabelsOwed
  <2>7. OneClaim'
    BY <2>1, <2>4, <2>5 DEF LabelInv, OneClaim
  <2>8. ClaimsClean'
    <3> SUFFICES ASSUME NEW q \in Rows, Claims(q)', Active(q)'
                 PROVE  forge'[issueOf[q]].state \cap {"done", "failed"} = {}
      BY <2>1 DEF ClaimsClean
    <3>1. forge[issueOf[q]].state \cap {"done", "failed"} = {} /\ issueOf[q] \in Issues
      BY <1>5, <2>3, <2>4, <2>5 DEF LabelInv, ClaimsClean
    <3> QED
      BY <2>2, <3>1
  <2> QED
    BY <2>6, <2>7, <2>8 DEF LabelInv
<1>11. CASE Abandon(t)
  <2>1. /\ UNCHANGED <<issueOf, agent, forge>> /\ pc[t] = "abandon" /\ pc'[t] = "issue"
        /\ st[r] = "queued" /\ st' = [st EXCEPT ![r] = "deleted"]
    BY <1>3, <1>4, <1>5, <1>11 DEF Abandon, DeleteQueuedDispatch, forgeVars, runVars, NextIssue, Goto, StartAt, Fresh
  <2>2. st'[r] = "deleted" /\ \A q \in Rows \ {r} : st'[q] = st[q]
    BY <1>5, <2>1
  <2>3. pc'[t] \notin RowSteps
    BY <2>1 DEF RowSteps
  <2>4. ~Owes(r) /\ ~Owes(r)' /\ ~Claims(r)' /\ ~Active(r)'
    BY <1>1, <1>3, <1>4, <1>6, <2>1, <2>2, <2>3, StarterClaims
    DEF Owes, Claims, Active, Labelled, Executing, Projecting, Ended, TerminalStates, ActiveStates
  <2> QED
    BY <1>8, <2>1, <2>2, <2>3, <2>4
<1>12. CASE BeginStart(t) \/ Provision(t) \/ Seed(t)
  <2>1. UNCHANGED <<st, issueOf, agent, forge, cur>> /\ pc[t] \in Labelled /\ pc'[t] \in Labelled
    BY <1>5, <1>12 DEF BeginStart, Provision, Seed, storeVars, runVars, forgeVars, Step, Goto, Labelled
  <2>2. (Owes(r)' <=> Owes(r)) /\ (Claims(r)' => Claims(r)) /\ (Active(r)' <=> Active(r))
    BY <1>1, <1>3, <1>4, <1>7, <2>1, StarterClaims DEF Owes, Claims, Active
  <2> QED
    BY <1>3, <1>8, <2>1, <2>2
<1>13. CASE RunStarted(t)
  <2>0. pc[t] = "runStarted" /\ UNCHANGED <<forge, issueOf, agent, cur>>
    BY <1>4, <1>13 DEF RunStarted, forgeVars, runVars, storeVars, TransitionDispatch, Moves, Step
  <2>1. CASE TransitionDispatch(cur[t], "queued", "running") /\ Step(t, "projectRunning")
    <3>1. pc'[t] = "projectRunning" /\ st[r] = "queued" /\ st'[r] = "running" /\ \A q \in Rows \ {r} : st'[q] = st[q]
      BY <1>3, <1>5, <2>1 DEF TransitionDispatch, Moves, Step, Goto
    <3>2. Owes(r) /\ Owes(r)' /\ Claims(r) /\ Active(r)
      BY <1>1, <1>3, <1>4, <2>0, <3>1, StarterClaims DEF Owes, Claims, Active, ActiveStates, Labelled
    <3> QED
      BY <1>3, <1>8, <2>0, <3>1, <3>2
  <2>2. CASE st[cur[t]] # "queued" /\ Step(t, "tearDown") /\ UNCHANGED storeVars
    <3>1. pc'[t] = "tearDown" /\ UNCHANGED st /\ st[r] # "queued"
      BY <1>3, <1>5, <2>2 DEF Step, Goto, storeVars
    <3>2. ~Active(r) /\ ~Active(r)'
      BY <1>3, <2>0, <3>1 DEF StartAt, Ended, TerminalStates, Active, ActiveStates
    <3>3. (Owes(r)' <=> Owes(r)) /\ (Claims(r)' => Claims(r))
      BY <1>1, <1>3, <1>4, <2>0, <3>1, <3>2, StarterClaims DEF Owes, Claims, Projecting
    <3> QED
      BY <1>3, <1>8, <2>0, <3>1, <3>2, <3>3
  <2> QED
    BY <1>4, <1>13, <2>1, <2>2 DEF RunStarted
<1>14. CASE ProjectRunning(t)
  <2>1. /\ UNCHANGED <<st, issueOf>> /\ pc[t] = "projectRunning" /\ pc'[t] = "issue"
        /\ agent' = [agent EXCEPT ![r] = "working"]
        /\ forge' = Relabelled(issueOf[r], {"running"}, {"queued"}, {})
    BY <1>3, <1>4, <1>5, <1>14 DEF ProjectRunning, Projects, storeVars, Launch, NextIssue, Goto
  <2>2. /\ forge'[issueOf[r]].state = (forge[issueOf[r]].state \cup {"running"}) \ {"queued"}
        /\ \A j \in Issues \ {issueOf[r]} : forge'[j] = forge[j]
    BY <1>5, <2>1, RelabelledState
  <2>3. Active(r) /\ Active(r)' /\ agent'[r] = "working" /\ \A q \in Rows \ {r} : agent'[q] = agent[q]
    BY <1>3, <1>5, <2>1 DEF StartAt, Active, ActiveStates
  <2>4. Owes(r) /\ Owes(r)' /\ Claims(r)
    BY <1>1, <1>3, <2>1, <2>3 DEF Owes, Claims, Executing, Labelled, Held, At
  <2>5. forge[issueOf[r]].state \cap ActiveLabels # {}
    BY <1>5, <2>4 DEF LabelInv, LabelsOwed
  <2>6. \A i \in Issues : /\ forge'[i].state \cap ActiveLabels # {} <=> forge[i].state \cap ActiveLabels # {}
                          /\ forge'[i].state \cap {"done", "failed"} \subseteq forge[i].state
    BY <2>2, <2>5 DEF ActiveLabels
  <2>7. pc'[t] \notin RowSteps
    BY <2>1 DEF RowSteps
  <2> QED
    BY <1>8, <2>1, <2>3, <2>4, <2>6, <2>7
<1>15. CASE TearDownRun(t)
  <2>1. UNCHANGED <<st, issueOf, agent, forge>> /\ pc[t] = "tearDown" /\ pc'[t] = "issue"
    BY <1>5, <1>15 DEF TearDownRun, storeVars, runVars, forgeVars, NextIssue, Goto
  <2>2. pc'[t] \notin RowSteps
    BY <2>1 DEF RowSteps
  <2>3. (Owes(r)' <=> Owes(r)) /\ (Claims(r)' => Claims(r)) /\ (Active(r)' <=> Active(r))
    BY <1>1, <1>3, <1>4, <2>1, <2>2, StarterClaims DEF Owes, Claims, Active, Labelled, Projecting
  <2> QED
    BY <1>8, <2>1, <2>2, <2>3
<1>16. CASE FailStart(t)
  <2>0. pc[t] = "failStart" /\ UNCHANGED <<forge, issueOf, agent>>
    BY <1>4, <1>16 DEF FailStart, forgeVars, storeVars, FailDispatch, Moves
  <2>1. CASE FailDispatch(cur[t], "queued", "start_error") /\ Step(t, "failProject")
    <3>1. /\ pc'[t] = "failProject" /\ st[r] = "queued" /\ st'[r] = "failed" /\ cur' = cur
          /\ \A q \in Rows \ {r} : st'[q] = st[q]
      BY <1>3, <1>5, <2>1 DEF FailDispatch, Moves, Step, Goto
    <3>2. Owes(r) /\ Owes(r)' /\ Claims(r) /\ Active(r)
      BY <1>1, <1>3, <1>4, <2>0, <3>1 DEF Owes, Claims, Active, ActiveStates, Labelled, Projecting, Held, At
    <3> QED
      BY <1>3, <1>8, <2>0, <3>1, <3>2
  <2>2. CASE st[cur[t]] # "queued" /\ NextIssue(t) /\ UNCHANGED storeVars
    <3>1. pc'[t] = "issue" /\ UNCHANGED st /\ st[r] # "queued"
      BY <1>3, <1>5, <2>2 DEF NextIssue, Goto, storeVars
    <3>2. ~Active(r) /\ ~Active(r)' /\ pc'[t] \notin RowSteps
      BY <1>3, <2>0, <3>1 DEF StartAt, Ended, TerminalStates, Active, ActiveStates, RowSteps
    <3>3. (Owes(r)' <=> Owes(r)) /\ (Claims(r)' => Claims(r))
      BY <1>1, <1>3, <1>4, <2>0, <3>1, <3>2, StarterClaims DEF Owes, Claims, Projecting
    <3> QED
      BY <1>8, <2>0, <3>1, <3>2, <3>3
  <2> QED
    BY <1>4, <1>16, <2>1, <2>2 DEF FailStart
<1> QED
  BY <1>9, <1>10, <1>11, <1>12, <1>13, <1>14, <1>15, <1>16

\* An insert claims nothing yet.
LEMMA LabelInsert ==
  ASSUME Orderly, TypeOK, LifeInv, LabelInv, NEW t \in Ticks, Insert(t)
  PROVE  LabelInv'
<1>1. Others(t) /\ ~MayFail("store") /\ StoreTypeOK
  BY OthersStay DEF Orderly, MayFail, TickStep, Dispatching, TypeOK
<1>2. pc[t] = "insert" /\ UNCHANGED <<agent, forge>>
  BY DEF Insert, runVars, forgeVars
<1>3. pc'[t] \in {"reread", "issue", "idle"}
  BY DEF Insert, NextIssue, Return, Goto, TypeOK, TickTypeOK
<1>4. pc[t] \notin ClaimSteps /\ pc'[t] \notin ClaimSteps
  BY <1>2, <1>3 DEF ClaimSteps, Labelled, Projecting
<1>5. CASE UNCHANGED storeVars
  <2>1. UNCHANGED <<st, issueOf>>
    BY <1>5 DEF storeVars
  <2>2. \A q \in Rows : (Owes(q)' <=> Owes(q)) /\ (Claims(q)' <=> Claims(q)) /\ (Active(q)' <=> Active(q))
    BY <1>1, <1>2, <1>4, <2>1, ClaimsElsewhere
  <2> QED
    BY <1>1, <1>2, <2>1, <2>2, ClaimFrame
<1>6. CASE \E r \in Rows : \E s : InsertDispatch(r, iss[t], s)
  <2>1. PICK r \in Rows : \E s : InsertDispatch(r, iss[t], s)
    BY <1>6
  <2>2. /\ st[r] = "absent" /\ st'[r] = "queued"
        /\ \A q \in Rows \ {r} : st'[q] = st[q] /\ issueOf'[q] = issueOf[q]
    BY <1>1, <2>1 DEF InsertDispatch, StoreTypeOK
  <2>3. \A q \in Rows \ {r} : (Owes(q)' <=> Owes(q)) /\ (Claims(q)' <=> Claims(q)) /\ (Active(q)' <=> Active(q))
    BY <1>1, <1>2, <1>4, <2>2, ClaimsOfOthers
  <2>4. ~Held(RowSteps, r) /\ agent[r] = "none"
    BY <2>2 DEF LifeInv, RowsAttended, RowAt
  <2>5. ClaimSteps \subseteq RowSteps
    BY DEF ClaimSteps, Labelled, Projecting, RowSteps
  <2>6. ~Held(ClaimSteps, r) /\ ~Held(ClaimSteps, r)'
    BY <1>1, <1>4, <2>4, <2>5 DEF Held, At, Others
  <2>7. ~Owes(r) /\ ~Claims(r) /\ ~Owes(r)' /\ ~Claims(r)'
    BY <1>2, <2>4, <2>6 DEF Owes, Claims, Held, At, ClaimSteps, Executing
  <2> QED
    BY <1>1, <1>2, <2>2, <2>3, <2>7, ClaimFrame
<1> QED
  BY <1>1, <1>5, <1>6 DEF Insert

\* A sweep takes a row over only once its issue is labelled, and owes the
\* projection from then on.
LEMMA LabelSweep ==
  ASSUME Orderly, TypeOK, LifeInv, LabelInv, NEW t \in Ticks, FailSwept(t) \/ EndLease(t)
  PROVE  LabelInv'
<1>1. Others(t) /\ ~MayFail("store") /\ phase[t] \in ActiveStates /\ StoreTypeOK /\ TickTypeOK
  BY OthersStay DEF Orderly, MayFail, TickStep, Sweeping, TypeOK, TickTypeOK
<1>2. UNCHANGED <<agent, forge>> /\ pc[t] \in {"failSwept", "endLease"}
  BY DEF FailSwept, EndLease, runVars, forgeVars
<1>3. PICK r \in Rows : r = cur[t]
  BY <1>1, <1>2 DEF TickTypeOK, RowSteps
<1>4. CASE FailSwept(t) /\ UNCHANGED storeVars
  <2>1. UNCHANGED <<st, issueOf>> /\ pc[t] = "failSwept" /\ pc'[t] = "sweep"
    BY <1>1, <1>4 DEF storeVars, FailSwept, NextRow, Goto, FailDispatch, Moves, ValidDispatchTransition, StoreTypeOK, TickTypeOK, RowSteps
  <2>2. pc[t] \notin ClaimSteps /\ pc'[t] \notin ClaimSteps
    BY <2>1 DEF ClaimSteps, Labelled, Projecting
  <2>3. \A q \in Rows : (Owes(q)' <=> Owes(q)) /\ (Claims(q)' <=> Claims(q)) /\ (Active(q)' <=> Active(q))
    BY <1>1, <1>2, <2>1, <2>2, ClaimsElsewhere
  <2> QED
    BY <1>1, <1>2, <2>1, <2>3, ClaimFrame
<1>5. CASE FailSwept(t) /\ FailDispatch(cur[t], phase[t], why[t]) /\ Step(t, "endLease")
  <2>1. /\ pc[t] = "failSwept" /\ pc'[t] = "endLease" /\ UNCHANGED <<issueOf, cur>>
        /\ st[r] = phase[t] /\ st'[r] = "failed" /\ \A q \in Rows \ {r} : st'[q] = st[q]
    BY <1>1, <1>3, <1>5 DEF FailSwept, FailDispatch, Moves, Step, Goto, StoreTypeOK, TickTypeOK
  <2>2. Active(r) /\ ~Active(r)' /\ st[r] \in {"queued", "running"}
    BY <1>1, <2>1 DEF Active, ActiveStates
  <2>3. age[r] > Budget /\ RunAt(r) /\ RowAt(r)
    BY <1>3, <2>1 DEF LifeInv, SweepsOld, SweepAt, Runs, RowsAttended
  <2>4. Held(Labelled, r) \/ agent[r] \in Executing
    <3>1. ASSUME NEW u \in Ticks, pc[u] \in InHand, cur[u] = r PROVE pc[u] \in Labelled
      <4>1. StartAt(u, r)
        BY <3>1 DEF LifeInv, Starts
      <4>2. pc[u] \notin Fresh \cup {"projectRunning"}
        BY <1>1, <2>3, <4>1, DispatchAssumption, StoreAssumption DEF StartAt, StoreTypeOK
      <4>3. pc[u] # "tearDown"
        BY <2>2, <4>1 DEF StartAt, Ended, TerminalStates
      <4> QED
        BY <3>1, <4>2, <4>3 DEF InHand, Starting, Fresh, Labelled
    <3>2. "projectRunning" \in InHand
      BY DEF InHand, Starting
    <3> QED
      BY <2>2, <2>3, <3>1, <3>2 DEF RowAt, Held, At
  <2>5. Owes(r) /\ Owes(r)' /\ Claims(r)
    BY <1>3, <2>1, <2>2, <2>4 DEF Owes, Claims, Held, At, Projecting
  <2>6. \A q \in Rows \ {r} : (Owes(q)' <=> Owes(q)) /\ (Claims(q)' <=> Claims(q)) /\ (Active(q)' <=> Active(q))
    BY <1>1, <1>2, <1>3, <2>1, ClaimsOfOthers
  <2> QED
    BY <1>1, <1>2, <2>1, <2>2, <2>5, <2>6, ClaimFrame
<1>6. CASE EndLease(t)
  <2>1. UNCHANGED <<st, issueOf, cur>> /\ pc[t] = "endLease" /\ pc'[t] = "sweepProject"
    BY <1>1, <1>6 DEF EndLease, storeVars, Step, Goto, TickTypeOK
  <2>2. Owes(r) /\ Owes(r)' /\ Claims(r) /\ (Active(r)' <=> Active(r))
    BY <1>3, <2>1 DEF Owes, Claims, Held, At, Projecting, Active
  <2>3. \A q \in Rows \ {r} : (Owes(q)' <=> Owes(q)) /\ (Claims(q)' <=> Claims(q)) /\ (Active(q)' <=> Active(q))
    BY <1>1, <1>2, <1>3, <2>1, ClaimsOfOthers
  <2> QED
    BY <1>1, <1>2, <2>1, <2>2, <2>3, ClaimFrame
<1> QED
  BY <1>1, <1>4, <1>5, <1>6 DEF FailSwept

\* The projection of an end by a tick.
LEMMA LabelProject ==
  ASSUME Orderly, TypeOK, LifeInv, LabelInv, NEW t \in Ticks, SweepProject(t) \/ FailProject(t)
  PROVE  LabelInv'
<1>1. Others(t) /\ ~MayFail("forge") /\ StoreTypeOK /\ ForgeTypeOK /\ TickTypeOK
  BY OthersStay DEF Orderly, MayFail, TickStep, Sweeping, Dispatching, TypeOK, TickTypeOK
<1>2. pc[t] \in Projecting /\ pc[t] \in RowSteps
  BY DEF SweepProject, FailProject, Projecting, RowSteps
<1>3. PICK r \in Rows : r = cur[t]
  BY <1>1, <1>2 DEF TickTypeOK
<1>4. UNCHANGED <<st, issueOf, agent>> /\ forge' = Relabelled(issueOf[r], {"failed"}, ActiveLabels, {})
  BY <1>1, <1>3 DEF SweepProject, FailProject, ProjectsFailure, Projects, storeVars, runVars
<1>5. pc'[t] \in {"idle", "sweep", "issue"}
  BY <1>1 DEF SweepProject, FailProject, Return, NextRow, NextIssue, Goto, TickTypeOK
<1>6. pc'[t] \notin ClaimSteps
  BY <1>5 DEF ClaimSteps, Labelled, Projecting
<1>7. Owes(r)
  BY <1>2, <1>3 DEF Owes, Held, At
<1>8. ~Claims(r)'
  <2>1. Ended(r) /\ agent[r] # "project" /\ \A u \in Ticks \ {t} : ~At(u, Projecting, r)
    BY <1>2, <1>3 DEF LifeInv, EndsProjectedOnce, At
  <2>2. \A u \in Ticks \ {t} : ~At(u, {"label"}, r)
    BY <2>1 DEF LifeInv, Starts, StartAt, InHand, Fresh, At, Ended, TerminalStates
  <2>3. ~Active(r)'
    BY <1>4, <2>1 DEF Active, Ended, ActiveStates, TerminalStates
  <2>4. ~Held(Projecting, r)' /\ ~Held({"label"}, r)'
    BY <1>1, <1>6, <2>1, <2>2 DEF Held, At, Others, ClaimSteps
  <2> QED
    BY <1>4, <2>1, <2>3, <2>4 DEF Claims, Owes
<1>9. \A q \in Rows \ {r} : (Owes(q)' <=> Owes(q)) /\ (Claims(q)' <=> Claims(q)) /\ (Active(q)' <=> Active(q))
  BY <1>1, <1>3, <1>4, <1>6, ClaimsOfOthers
<1>10. /\ forge'[issueOf[r]].state = (forge[issueOf[r]].state \cup {"failed"}) \ ActiveLabels
       /\ \A j \in Issues \ {issueOf[r]} : forge'[j] = forge[j]
  BY <1>1, <1>4, RelabelledState DEF StoreTypeOK
<1> QED
  BY <1>1, <1>4, <1>7, <1>8, <1>9, <1>10, ProjectionFrame

\* The other steps of a tick.
LEMMA LabelLeave ==
  ASSUME Orderly, TypeOK, LabelInv, NEW t \in Ticks,
         \/ StartTick(t) \/ TickAborts(t) \/ ListDispatches(t) \/ SweepRow(t) \/ SweepListDone(t)
         \/ ListIssues(t) \/ PickIssue(t) \/ TickDone(t) \/ WarnUnrouted(t) \/ WarnPost(t) \/ WarnForget(t) \/ ChooseRoute(t)
  PROVE  LabelInv'
<1>1. Others(t) /\ pc \in [Ticks -> TickStates] /\ StoreTypeOK
  BY OthersStay DEF TickStep, Sweeping, Dispatching, TypeOK, TickTypeOK
<1>2. UNCHANGED <<st, issueOf, agent, forge>>
  BY DEF StartTick, TickAborts, ListDispatches, SweepRow, SweepListDone, ListIssues, PickIssue,
     TickDone, WarnUnrouted, WarnPost, WarnForget, ChooseRoute, storeVars, runVars, forgeVars,
     RecordDispatchWarning, ForgetDispatchWarning
<1>3. pc[t] \in {"idle", "listRows", "sweep", "list", "issue", "scan", "warnPost", "warnForget"}
  BY DEF StartTick, TickAborts, ListDispatches, SweepRow, SweepListDone, ListIssues, PickIssue,
     TickDone, WarnUnrouted, WarnPost, WarnForget, ChooseRoute
<1>4. pc'[t] \in {"idle", "listRows", "sweep", "failSwept", "list", "issue", "scan", "warnPost", "warnForget", "insert"}
  <2>1. CASE StartTick(t) \/ ListDispatches(t) \/ SweepListDone(t) \/ ListIssues(t) \/ PickIssue(t) \/ WarnUnrouted(t)
    BY <1>1, <2>1 DEF StartTick, ListDispatches, SweepListDone, ListIssues, PickIssue, WarnUnrouted, Step, Return, Goto
  <2>2. CASE TickAborts(t) \/ TickDone(t) \/ WarnPost(t) \/ WarnForget(t) \/ ChooseRoute(t)
    BY <1>1, <2>2 DEF TickAborts, TickDone, WarnPost, WarnForget, ChooseRoute, Return, NextIssue, Step, Goto
  <2>3. CASE SweepRow(t)
    BY <1>1, <1>3, <2>3 DEF SweepRow, Goto
  <2> QED
    BY <2>1, <2>2, <2>3
<1>5. pc[t] \notin ClaimSteps /\ pc'[t] \notin ClaimSteps
  BY <1>3, <1>4 DEF ClaimSteps, Labelled, Projecting
<1>6. \A q \in Rows : (Owes(q)' <=> Owes(q)) /\ (Claims(q)' <=> Claims(q)) /\ (Active(q)' <=> Active(q))
  BY <1>1, <1>2, <1>5, ClaimsElsewhere
<1> QED
  BY <1>1, <1>2, <1>6, ClaimFrame

\* The run's own goroutine: a step that keeps the claim, or the projection.
LEMMA LabelRun ==
  ASSUME Orderly, TypeOK, LifeInv, LabelInv, NEW r \in Rows, AgentReturns(r) \/ RunFinishes(r)
  PROVE  LabelInv'
<1>1. ~MayFail("store") /\ ~MayFail("forge") /\ UNCHANGED <<pc, cur>> /\ StoreTypeOK /\ ForgeTypeOK
  BY DEF Orderly, MayFail, AgentReturns, RunFinishes, RunEndsLease, RunEnded, RunProjects, RunUntracks,
     tickVars, TypeOK
<1>2. /\ st \in [Rows -> States] /\ agent \in [Rows -> AgentStates] /\ RunAt(r)
  BY DEF TypeOK, StoreTypeOK, RunTypeOK, LifeInv, Runs
<1>3. \A q \in Rows : /\ Held(Labelled, q)' <=> Held(Labelled, q)
                      /\ Held(Projecting, q)' <=> Held(Projecting, q)
                      /\ Held({"label"}, q)' <=> Held({"label"}, q)
  BY <1>1 DEF Held, At
<1>4. ASSUME \A q \in Rows \ {r} : st'[q] = st[q] /\ agent'[q] = agent[q]
      PROVE  \A q \in Rows \ {r} : (Owes(q)' <=> Owes(q)) /\ (Claims(q)' <=> Claims(q)) /\ (Active(q)' <=> Active(q))
  BY <1>3, <1>4 DEF Owes, Claims, Active
<1>5. CASE AgentReturns(r) \/ RunEndsLease(r) \/ RunUntracks(r)
  <2>1. /\ UNCHANGED <<st, issueOf, forge>>
        /\ \E s \in {"leaseEnd", "report", "over"} : agent' = [agent EXCEPT ![r] = s]
        /\ agent[r] \in {"working", "leaseEnd", "untrack"}
        /\ agent[r] = "untrack" <=> agent'[r] = "over"
    BY <1>2, <1>5 DEF AgentReturns, RunEndsLease, RunUntracks, AgentAt, storeVars, forgeVars
  <2>2. agent'[r] \in {"leaseEnd", "report", "over"} /\ \A q \in Rows \ {r} : agent'[q] = agent[q]
    BY <1>2, <2>1
  <2>3. (Owes(r)' <=> Owes(r)) /\ (Claims(r)' <=> Claims(r)) /\ (Active(r)' <=> Active(r))
    BY <1>3, <2>1, <2>2 DEF Owes, Claims, Active, Executing
  <2> QED
    BY <1>1, <1>4, <2>1, <2>2, <2>3, ClaimFrame
<1>6. CASE RunEnded(r)
  <2>0. agent[r] = "report" /\ UNCHANGED forge
    BY <1>6 DEF RunEnded, forgeVars
  <2>1. CASE Closes(r) /\ AgentAt(r, "project")
    <3>1. PICK from \in ActiveStates, to \in TerminalStates : Moves(r, from, to)
      BY <2>1 DEF Closes, TransitionDispatch, FailDispatch, TerminalStates
    <3>2. /\ st[r] \in ActiveStates /\ st'[r] \in TerminalStates /\ agent'[r] = "project" /\ UNCHANGED issueOf
          /\ \A q \in Rows \ {r} : st'[q] = st[q] /\ agent'[q] = agent[q]
      BY <1>2, <2>1, <3>1 DEF Moves, AgentAt
    <3>3. Owes(r) /\ Owes(r)' /\ Claims(r) /\ Active(r)
      BY <2>0, <3>2 DEF Owes, Claims, Active, Executing
    <3> QED
      BY <1>1, <1>4, <2>0, <3>2, <3>3, ClaimFrame
  <2>2. CASE ~Active(r) /\ UNCHANGED storeVars /\ AgentAt(r, "untrack")
    <3>1. UNCHANGED <<st, issueOf>> /\ agent'[r] = "untrack" /\ \A q \in Rows \ {r} : agent'[q] = agent[q]
      BY <1>2, <2>2 DEF AgentAt, storeVars
    <3>2. (Owes(r)' <=> Owes(r)) /\ (Claims(r)' <=> Claims(r)) /\ (Active(r)' <=> Active(r))
      BY <1>3, <2>0, <2>2, <3>1 DEF Owes, Claims, Active
    <3> QED
      BY <1>1, <1>4, <2>0, <3>1, <3>2, ClaimFrame
  <2> QED
    BY <1>1, <1>6, <2>1, <2>2 DEF RunEnded
<1>7. CASE RunProjects(r)
  <2>1. /\ agent[r] = "project" /\ UNCHANGED <<st, issueOf>> /\ agent' = [agent EXCEPT ![r] = "untrack"]
        /\ \E end \in {"done", "failed"} : \E drop : forge' = Relabelled(issueOf[r], {end}, ActiveLabels, drop)
    BY <1>1, <1>7 DEF RunProjects, AgentAt, Projects, ProjectsFailure, storeVars
  <2>2. agent'[r] = "untrack" /\ \A q \in Rows \ {r} : agent'[q] = agent[q]
    BY <1>2, <2>1
  <2>3. PICK end \in {"done", "failed"} :
          /\ forge'[issueOf[r]].state = (forge[issueOf[r]].state \cup {end}) \ ActiveLabels
          /\ \A j \in Issues \ {issueOf[r]} : forge'[j] = forge[j]
    <3>1. PICK end \in {"done", "failed"} : \E drop : forge' = Relabelled(issueOf[r], {end}, ActiveLabels, drop)
      BY <2>1
    <3>2. issueOf[r] \in Issues /\ ForgeTypeOK
      BY <1>1 DEF StoreTypeOK, TypeOK
    <3>3. PICK drop : forge' = Relabelled(issueOf[r], {end}, ActiveLabels, drop)
      BY <3>1
    <3> QED
      BY <3>1, <3>2, <3>3, RelabelledState
  <2>4. Ended(r) /\ ~Held(Projecting, r)
    BY <1>2, <2>1 DEF RunAt, LifeInv, EndsProjectedOnce, Held, At
  <2>5. ~Held({"label"}, r)
    BY <2>4 DEF LifeInv, Starts, StartAt, InHand, Fresh, Held, At, Ended, TerminalStates
  <2>6. Owes(r) /\ ~Claims(r)'
    BY <1>3, <2>1, <2>2, <2>4, <2>5 DEF Owes, Claims, Active, Ended, ActiveStates, TerminalStates
  <2> QED
    BY <1>1, <1>4, <2>1, <2>2, <2>3, <2>6, ProjectionFrame
<1> QED
  BY <1>5, <1>6, <1>7 DEF RunFinishes

\* Cancellations, time and human edits: nobody but the dispatcher touches
\* agent:queued and agent:running.
LEMMA LabelEnvironment ==
  ASSUME TypeOK, LabelInv,
         \/ Clock \/ UNCHANGED vars
         \/ \E t \in Ticks : CancelTick(t)
         \/ \E i \in Issues : Human(i)
  PROVE  LabelInv'
<1>1. UNCHANGED <<st, issueOf, agent, pc, cur>> /\ StoreTypeOK
  BY DEF Clock, Ages, vars, CancelTick, Human, storeVars, runVars, tickVars, TypeOK
<1>2. \A q \in Rows : (Owes(q)' <=> Owes(q)) /\ (Claims(q)' <=> Claims(q)) /\ (Active(q)' <=> Active(q))
  BY <1>1 DEF Owes, Claims, Active, Held, At
<1>3. \A i \in Issues : /\ forge'[i].state \cap ActiveLabels # {} <=> forge[i].state \cap ActiveLabels # {}
                        /\ forge'[i].state \cap {"done", "failed"} \subseteq forge[i].state
  <2>1. CASE UNCHANGED forge
    BY <2>1
  <2>2. CASE \E i \in Issues : Human(i)
    <3>1. PICK i \in Issues : Human(i)
      BY <2>2
    <3>2. \/ forge'[i].state = forge[i].state
          \/ \E l \in {"done", "failed"} : forge'[i].state = forge[i].state \ {l}
      BY <3>1 DEF Human, TypeOK, ForgeTypeOK, IssueState
    <3>3. \A j \in Issues \ {i} : forge'[j] = forge[j]
      BY <3>1 DEF Human, TypeOK, ForgeTypeOK, IssueState
    <3> QED
      BY <3>2, <3>3 DEF ActiveLabels
  <2> QED
    BY <2>1, <2>2 DEF Clock, vars, CancelTick, forgeVars
<1> QED
  BY <1>1, <1>2, <1>3, ClaimFrame

LEMMA LabelInit == Init => LabelInv
<1> SUFFICES ASSUME Init PROVE LabelInv
  OBVIOUS
<1>1. \A S : \A r \in Rows : "idle" \notin S => ~Held(S, r)
  BY DEF Init, Held, At
<1>2. \A r \in Rows : ~Claims(r) /\ ~Owes(r)
  <2>1. "idle" \notin Labelled /\ "idle" \notin Projecting /\ "idle" \notin {"label"}
    BY DEF Labelled, Projecting
  <2>2. \A r \in Rows : agent[r] = "none"
    BY DEF Init
  <2> QED
    BY <1>1, <2>1, <2>2 DEF Claims, Owes, Executing
<1>3. \A i \in Issues : forge[i].state = {}
  BY DEF Init
<1> QED
  BY <1>2, <1>3 DEF LabelInv, LabelsOwed, OneClaim, ClaimsClean

LEMMA LabelNext == Orderly /\ TypeOK /\ LifeInv /\ OneActivePerIssue /\ LabelInv /\ [Next]_vars => LabelInv'
<1> SUFFICES ASSUME Orderly, TypeOK, LifeInv, OneActivePerIssue, LabelInv, [Next]_vars PROVE LabelInv'
  OBVIOUS
<1>1. ASSUME NEW t \in Ticks, TickStep(t) PROVE LabelInv'
  BY <1>1, LabelStarting, LabelInsert, LabelSweep, LabelProject, LabelLeave DEF TickStep, Sweeping, Dispatching
<1>2. ~Crash
  BY DEF Orderly, Crash, TypeOK
<1> QED
  BY <1>1, <1>2, LabelRun, LabelEnvironment DEF Next

LEMMA LabelAlways == ASSUME Orderly PROVE Spec => []LabelInv
BY LabelInit, LabelNext, LifeAlways, OneActiveDispatch, TypeCorrect, PTL DEF Spec

\* No label locks an issue for good: agent:queued and agent:running are only
\* on an issue with an active row, or one whose end is being projected.
THEOREM LabelsAreNeverStranded == ASSUME Orderly PROVE Spec => []NoStrandedLabel
<1>1. LabelInv => NoStrandedLabel
  <2> SUFFICES ASSUME LabelInv, NEW i \in Issues, forge[i].state \cap ActiveLabels # {}
               PROVE  \/ ActiveRows(i) # {}
                      \/ \E r \in Rows : issueOf[r] = i /\ agent[r] = "project"
                      \/ \E t \in Ticks : pc[t] \in Projecting /\ issueOf[cur[t]] = i
    BY DEF NoStrandedLabel, Projecting
  <2>1. PICK r \in Rows : issueOf[r] = i /\ Owes(r)
    BY DEF LabelInv, LabelsOwed
  <2> QED
    BY <2>1 DEF Owes, ActiveRows, Held, At
<1> QED
  BY <1>1, LabelAlways, PTL

\* Two runs never act on one issue at once, although the sweep frees the
\* issue's index before it ends the lease: the label still keeps others out.
THEOREM OneRunActs == ASSUME Orderly PROVE Spec => []OneActingRun
<1>1. LifeInv /\ LabelInv => OneActingRun
  <2> SUFFICES ASSUME LifeInv, LabelInv PROVE OneActingRun
    OBVIOUS
  <2>1. ASSUME NEW r \in Rows, Acting(r) PROVE Claims(r)
    <3>1. RunAt(r) /\ agent[r] \in {"working", "leaseEnd"} /\ creds[r] = "live"
      BY <2>1 DEF LifeInv, Runs, Acting
    <3>2. st[r] = "running" \/ Held({"endLease"}, r)
      BY <3>1 DEF RunAt, LeaseOver
    <3> QED
      BY <3>1, <3>2 DEF Claims, Owes, Active, ActiveStates, Executing, Held, At, Projecting
  <2> QED
    BY <2>1 DEF LabelInv, OneClaim, OneActingRun
<1> QED
  BY <1>1, LifeAlways, LabelAlways, PTL

\* Agents are launched by ProjectRunning only.
LEMMA LaunchStep ==
  ASSUME Orderly, TypeOK, [Next]_vars, NEW r \in Rows, Launches(r)
  PROVE  \E t \in Ticks : ProjectRunning(t) /\ cur[t] = r
<1>0. agent' # agent /\ agent \in [Rows -> AgentStates] /\ ~MayFail("store")
  BY DEF Launches, TypeOK, RunTypeOK, Orderly, MayFail
<1>1. ASSUME NEW t \in Ticks, TickStep(t) \/ CancelTick(t) PROVE ProjectRunning(t) /\ cur[t] = r
  <2>1. ProjectRunning(t)
    BY <1>0, <1>1 DEF TickStep, CancelTick, Sweeping, Dispatching, StartTick, TickAborts, ListDispatches, SweepRow,
       SweepListDone, FailSwept, EndLease, SweepProject, ListIssues, PickIssue, TickDone, WarnUnrouted, WarnPost, WarnForget,
       ChooseRoute, Insert, Reread, Abandon, LabelQueued, BeginStart, Provision, Seed, RunStarted, TearDownRun,
       FailStart, FailProject, runVars
  <2> QED
    BY <1>0, <2>1 DEF ProjectRunning, Launch, Launches
<1>2. ASSUME NEW q \in Rows, AgentReturns(q) \/ RunFinishes(q) PROVE FALSE
  <2>1. \E s \in AgentStates \ {"working"} : agent' = [agent EXCEPT ![q] = s]
    BY <1>2 DEF AgentReturns, RunFinishes, RunEndsLease, RunEnded, RunProjects, RunUntracks, AgentAt, AgentStates
  <2> QED
    BY <1>0, <2>1 DEF Launches
<1>3. ~(Clock \/ Crash \/ UNCHANGED vars \/ \E i \in Issues : Human(i))
  BY <1>0 DEF Clock, Crash, Human, vars, runVars, Launches
<1> QED
  BY <1>1, <1>2, <1>3 DEF Next

\* An agent is launched only for a row that is still active, and only on an
\* issue that shows neither agent:done nor agent:failed.
LEMMA LaunchedRow ==
  ASSUME Orderly, TypeOK, LifeInv, LabelInv, [Next]_vars, NEW r \in Rows, Launches(r)
  PROVE  st'[r] \in ActiveStates /\ forge[issueOf[r]].state \cap {"done", "failed"} = {}
<1>1. PICK t \in Ticks : ProjectRunning(t) /\ cur[t] = r
  BY LaunchStep
<1>2. pc[t] = "projectRunning" /\ pc[t] \in InHand /\ UNCHANGED st
  BY <1>1, ProjectionIsQuiet DEF ProjectRunning, InHand, Starting
<1>3. StartAt(t, r)
  BY <1>1, <1>2 DEF LifeInv, Starts
<1>4. st[r] = "running"
  BY <1>2, <1>3 DEF StartAt
<1>5. Claims(r) /\ Active(r)
  BY <1>1, <1>2, <1>4 DEF Claims, Owes, Held, At, Labelled, Active, ActiveStates
<1> QED
  BY <1>2, <1>4, <1>5 DEF LabelInv, ClaimsClean, ActiveStates

\* A run that was swept while it was provisioning never starts.
THEOREM SweptRunsNeverStart == ASSUME Orderly PROVE Spec => LaunchesOnlyActiveRows
<1>1. TypeOK /\ LifeInv /\ LabelInv /\ [Next]_vars => [\A r \in Rows : Launches(r) => st'[r] \in ActiveStates]_vars
  BY LaunchedRow
<1> QED
  BY <1>1, LifeAlways, LabelAlways, TypeCorrect, PTL DEF Spec, LaunchesOnlyActiveRows

\* However stale the list a tick works from, a second run of an issue starts
\* only after a human removed the label its last run left.
THEOREM NoRerunUnasked == ASSUME Orderly PROVE Spec => RerunsAreAskedFor
<1>1. TypeOK /\ LifeInv /\ LabelInv /\ [Next]_vars =>
        [\A r \in Rows : Launches(r) => forge[issueOf[r]].state \cap {"done", "failed"} = {}]_vars
  BY LaunchedRow
<1> QED
  BY <1>1, LifeAlways, LabelAlways, TypeCorrect, PTL DEF Spec, RerunsAreAskedFor

----------------------------------------------------------------------------
\* The unrouted-scope warnings.

AtWarning == {"warnPost", "warnForget"}

\* A warning acknowledged is recorded, one a tick is at is recorded and not
\* acknowledged, and only one tick is at it.
PostedInv ==
  /\ \A i \in Issues, s \in Scopes : posted[<<i, s>>] <= 1 /\ (posted[<<i, s>>] = 1 => <<i, s>> \in warned)
  /\ \A t \in Ticks, i \in Issues, s \in Scopes : Warning(t, i, s) => <<i, s>> \in warned /\ posted[<<i, s>>] = 0
  /\ \A t, u \in Ticks, i \in Issues, s \in Scopes : Warning(t, i, s) /\ Warning(u, i, s) => t = u

\* A recorded warning is acknowledged or a tick is at it, unless the daemon died.
RecordedInv ==
  \A i \in Issues, s \in Scopes : <<i, s>> \in warned =>
    posted[<<i, s>>] = 1 \/ crashes > 0 \/ \E t \in Ticks : Warning(t, i, s)

NoneCancelled == cancelled = {}

\* No tick is cancelled and the store answers: a warning that is recorded and
\* whose comment returned an error is then taken back.
Attended == ~MayFail("cancel") /\ ~MayFail("store")

\* scopeLabels has one first label.
LEMMA FirstIsUnique ==
  ASSUME NEW S \in SUBSET Nat, NEW a \in First(S), NEW b \in First(S)
  PROVE  a = b
BY DEF First

\* A step that posts and records nothing, and after which nobody who was not
\* about to post is.
LEMMA WarnFrame ==
  ASSUME UNCHANGED <<posted, warned>>, crashes' >= crashes, crashes \in Nat, crashes' \in Nat,
         \A u \in Ticks, i \in Issues, s \in Scopes : Warning(u, i, s)' => Warning(u, i, s),
         \/ crashes' > 0
         \/ \A u \in Ticks, i \in Issues, s \in Scopes : Warning(u, i, s) => Warning(u, i, s)'
  PROVE  (PostedInv => PostedInv') /\ (RecordedInv => RecordedInv')
<1>1. PostedInv => PostedInv'
  BY DEF PostedInv
<1>2. RecordedInv => RecordedInv'
  BY DEF RecordedInv
<1> QED
  BY <1>1, <1>2

\* A tick that is moved by nobody keeps what it is about to post.
LEMMA PostOthers ==
  ASSUME NEW t \in Ticks, Others(t), NEW u \in Ticks \ {t}, NEW i, NEW s
  PROVE  Warning(u, i, s)' <=> Warning(u, i, s)
BY DEF Others, Warning, Unrouted

\* The steps of a tick that neither record, post nor forget.
LEMMA QuietTicks ==
  ASSUME TypeOK, NEW t \in Ticks, TickStep(t) \/ CancelTick(t), ~WarnUnrouted(t), ~WarnPost(t), ~WarnForget(t)
  PROVE  /\ UNCHANGED <<posted, warned, crashes>>
         /\ pc[t] \in AtWarning \/ pc'[t] \in AtWarning => UNCHANGED <<pc, iss, snap>>
<1> USE DEF AtWarning
<1>0. pc \in [Ticks -> TickStates]
  BY DEF TypeOK, TickTypeOK
<1>1. CASE \/ StartTick(t) \/ TickAborts(t) \/ ListDispatches(t) \/ SweepRow(t) \/ SweepListDone(t)
           \/ ListIssues(t) \/ PickIssue(t) \/ TickDone(t) \/ ChooseRoute(t) \/ Reread(t)
  BY <1>0, <1>1 DEF StartTick, TickAborts, ListDispatches, SweepRow, SweepListDone, ListIssues, PickIssue,
     TickDone, ChooseRoute, Reread, Step, Return, NextIssue, Goto, storeVars, forgeVars
<1>2. CASE BeginStart(t) \/ Provision(t) \/ Seed(t) \/ TearDownRun(t) \/ EndLease(t)
  BY <1>0, <1>2 DEF BeginStart, Provision, Seed, TearDownRun, EndLease, Step, NextIssue, Goto, storeVars, forgeVars
<1>3. CASE Insert(t) \/ Abandon(t)
  BY <1>0, <1>3 DEF Insert, Abandon, InsertDispatch, DeleteQueuedDispatch, Return, NextIssue, Goto,
     storeVars, forgeVars
<1>4. CASE FailSwept(t) \/ FailStart(t)
  BY <1>0, <1>4 DEF FailSwept, FailStart, FailDispatch, Moves, Step, Return, NextRow, NextIssue, Goto,
     storeVars, forgeVars
<1>5. CASE RunStarted(t)
  BY <1>0, <1>5 DEF RunStarted, TransitionDispatch, Moves, Step, NextIssue, Goto, storeVars, forgeVars
<1>6. CASE LabelQueued(t) \/ ProjectRunning(t)
  <2>1. UNCHANGED <<posted, warned, crashes>>
    BY <1>6, ProjectionIsQuiet DEF LabelQueued, ProjectRunning, Projects, SetDispatchLabelsPending, storeVars
  <2>2. pc[t] \notin AtWarning /\ pc'[t] \notin AtWarning
    BY <1>0, <1>6 DEF LabelQueued, ProjectRunning, Step, NextIssue, Goto
  <2> QED
    BY <2>1, <2>2
<1>7. CASE SweepProject(t) \/ FailProject(t)
  <2>1. UNCHANGED <<posted, warned, crashes>>
    BY <1>7 DEF SweepProject, FailProject, ProjectsFailure, Projects, SetDispatchLabelsPending, storeVars
  <2>2. pc[t] \notin AtWarning /\ pc'[t] \notin AtWarning
    BY <1>0, <1>7 DEF SweepProject, FailProject, Return, NextRow, NextIssue, Goto
  <2> QED
    BY <2>1, <2>2
<1>8. CASE CancelTick(t)
  BY <1>8 DEF CancelTick, storeVars, forgeVars
<1> QED
  BY <1>1, <1>2, <1>3, <1>4, <1>5, <1>6, <1>7, <1>8 DEF TickStep, Sweeping, Dispatching

\* A step after which the warnings that the other ticks are at are the same.
LEMMA WarningOthers ==
  ASSUME NEW t \in Ticks, Others(t)
  PROVE  \A u \in Ticks \ {t} : \A i, v : Warning(u, i, v)' <=> Warning(u, i, v)
BY PostOthers

\* The record: its inserter alone goes on to post.
LEMMA RecordKeeps ==
  ASSUME TypeOK, PostedInv, NEW t \in Ticks, WarnUnrouted(t)
  PROVE  PostedInv' /\ (Attended /\ cancelled = {} /\ RecordedInv => RecordedInv')
<1>1. /\ pc \in [Ticks -> TickStates] /\ iss[t] \in Issues /\ snap[t][iss[t]] \subseteq Scopes
      /\ crashes \in Nat /\ Others(t) /\ posted \in [Issues \X Scopes -> 0..2]
  BY OthersStay, DispatchAssumption DEF TypeOK, TickTypeOK, ForgeTypeOK, TickStep, Dispatching
<1>2. pc[t] = "scan" /\ UNCHANGED <<posted, crashes>>
  BY <1>1 DEF WarnUnrouted, forgeVars
<1>3. PICK s \in First(Unrouted(t)) :
        \/ UNCHANGED <<pc, warned>>
        \/ /\ <<iss[t], s>> \notin warned
           /\ RecordDispatchWarning(iss[t], s) /\ Step(t, "warnPost")
        \/ CallFails(t, "store") /\ RecordDispatchWarning(iss[t], s) /\ Return(t)
  BY DEF WarnUnrouted, storeVars
<1>4. s \in Scopes
  BY <1>1, <1>3 DEF First, Unrouted
<1>5. \A i, v : ~Warning(t, i, v)
  BY <1>2 DEF Warning
<1>6. \A u \in Ticks \ {t} : \A i, v : Warning(u, i, v)' <=> Warning(u, i, v)
  BY <1>1, WarningOthers
<1>7. CASE UNCHANGED <<pc, warned>>
  <2>1. \A i, v : ~Warning(t, i, v)'
    BY <1>2, <1>7 DEF Warning
  <2> QED
    BY <1>1, <1>2, <1>5, <1>6, <1>7, <2>1, WarnFrame
<1>8. CASE <<iss[t], s>> \notin warned /\ RecordDispatchWarning(iss[t], s) /\ Step(t, "warnPost")
  <2>1. warned' = warned \cup {<<iss[t], s>>} /\ pc'[t] = "warnPost" /\ UNCHANGED <<snap, iss>>
    BY <1>1, <1>8 DEF RecordDispatchWarning, Step, Goto
  <2>2. First(Unrouted(t))' = First(Unrouted(t)) /\ Unrouted(t) \in SUBSET Nat
    BY <1>1, <2>1, StoreAssumption DEF First, Unrouted
  <2>3. \A i, v : Warning(t, i, v)' <=> i = iss[t] /\ v = s
    BY <1>3, <2>1, <2>2, FirstIsUnique DEF Warning
  <2>4. posted[<<iss[t], s>>] = 0
    BY <1>1, <1>4, <1>8 DEF PostedInv
  <2>5. \A u \in Ticks : ~Warning(u, iss[t], s)
    BY <1>1, <1>4, <1>8 DEF PostedInv
  <2>6. PostedInv'
    <3>1. \A i \in Issues, v \in Scopes :
             posted'[<<i, v>>] <= 1 /\ (posted'[<<i, v>>] = 1 => <<i, v>> \in warned')
      BY <1>2, <2>1 DEF PostedInv
    <3>2. \A u \in Ticks, i \in Issues, v \in Scopes :
             Warning(u, i, v)' => <<i, v>> \in warned' /\ posted'[<<i, v>>] = 0
      BY <1>2, <1>6, <2>1, <2>3, <2>4 DEF PostedInv
    <3>3. \A u, w \in Ticks, i \in Issues, v \in Scopes : Warning(u, i, v)' /\ Warning(w, i, v)' => u = w
      BY <1>6, <2>3, <2>5 DEF PostedInv
    <3> QED
      BY <3>1, <3>2, <3>3 DEF PostedInv
  <2>7. RecordedInv => RecordedInv'
    <3>1. SUFFICES ASSUME RecordedInv, NEW i \in Issues, NEW v \in Scopes, <<i, v>> \in warned'
                   PROVE  posted'[<<i, v>>] = 1 \/ crashes' > 0 \/ \E u \in Ticks : Warning(u, i, v)'
      BY DEF RecordedInv
    <3>2. CASE i = iss[t] /\ v = s
      BY <2>3, <3>2
    <3>3. CASE <<i, v>> \in warned
      BY <1>2, <1>5, <1>6, <3>1, <3>3 DEF RecordedInv
    <3> QED
      BY <2>1, <3>1, <3>2, <3>3
  <2> QED
    BY <2>6, <2>7
<1>9. CASE CallFails(t, "store") /\ RecordDispatchWarning(iss[t], s) /\ Return(t)
  <2>1. warned' = warned \cup {<<iss[t], s>>} /\ pc'[t] = "idle"
    BY <1>1, <1>9 DEF RecordDispatchWarning, Return, Goto
  <2>2. \A i, v : ~Warning(t, i, v)'
    BY <2>1 DEF Warning
  <2>3. PostedInv'
    BY <1>2, <1>6, <2>1, <2>2 DEF PostedInv
  <2>4. ~(Attended /\ cancelled = {})
    BY <1>9 DEF CallFails, Attended
  <2> QED
    BY <2>3, <2>4
<1> QED
  BY <1>3, <1>7, <1>8, <1>9

\* The comment: acknowledged, or the tick goes on to forget the record.
LEMMA CommentKeeps ==
  ASSUME TypeOK, PostedInv, NEW t \in Ticks, WarnPost(t)
  PROVE  PostedInv' /\ (RecordedInv => RecordedInv')
<1>1. /\ pc \in [Ticks -> TickStates] /\ iss[t] \in Issues /\ snap[t][iss[t]] \subseteq Scopes
      /\ crashes \in Nat /\ Others(t) /\ posted \in [Issues \X Scopes -> 0..2]
  BY OthersStay, DispatchAssumption DEF TypeOK, TickTypeOK, ForgeTypeOK, TickStep, Dispatching
<1>2. pc[t] = "warnPost" /\ UNCHANGED <<warned, crashes>>
  BY <1>1 DEF WarnPost, storeVars
<1>3. PICK s \in First(Unrouted(t)) :
        \/ posted' = [posted EXCEPT ![<<iss[t], s>>] = IF @ < 2 THEN @ + 1 ELSE 2] /\ Goto(t, "scan")
        \/ UNCHANGED posted /\ Step(t, "warnForget")
  BY DEF WarnPost
<1>4. s \in Scopes /\ Unrouted(t) \in SUBSET Nat
  BY <1>1, <1>3, StoreAssumption DEF First, Unrouted
<1>6. \A u \in Ticks \ {t} : \A i, v : Warning(u, i, v)' <=> Warning(u, i, v)
  BY <1>1, WarningOthers
<1>7. \A i, v : Warning(t, i, v) <=> i = iss[t] /\ v = s
  BY <1>2, <1>3, <1>4, FirstIsUnique DEF Warning
<1>8. <<iss[t], s>> \in warned /\ posted[<<iss[t], s>>] = 0 /\ \A u \in Ticks \ {t} : ~Warning(u, iss[t], s)
  BY <1>1, <1>4, <1>7 DEF PostedInv
<1>9. CASE posted' = [posted EXCEPT ![<<iss[t], s>>] = IF @ < 2 THEN @ + 1 ELSE 2] /\ Goto(t, "scan")
  <2>1. /\ posted'[<<iss[t], s>>] = 1
        /\ \A p \in Issues \X Scopes : p # <<iss[t], s>> => posted'[p] = posted[p]
    BY <1>1, <1>4, <1>8, <1>9
  <2>2. \A i \in Issues, v \in Scopes : posted'[<<i, v>>] = IF i = iss[t] /\ v = s THEN 1 ELSE posted[<<i, v>>]
    BY <2>1
  <2>3. \A i, v : ~Warning(t, i, v)'
    BY <1>1, <1>9 DEF Warning, Goto
  <2>4. PostedInv'
    BY <1>2, <1>6, <1>8, <2>2, <2>3 DEF PostedInv
  <2>5. RecordedInv => RecordedInv'
    BY <1>2, <1>6, <1>7, <2>2 DEF RecordedInv
  <2> QED
    BY <2>4, <2>5
<1>10. CASE UNCHANGED posted /\ Step(t, "warnForget")
  <2>1. pc'[t] = "warnForget" /\ UNCHANGED <<iss, snap>>
    BY <1>1, <1>10 DEF Step, Goto
  <2>2. \A i, v : Warning(t, i, v)' <=> Warning(t, i, v)
    BY <1>2, <2>1 DEF Warning, Unrouted
  <2>3. \A u \in Ticks : \A i, v : Warning(u, i, v)' <=> Warning(u, i, v)
    BY <1>6, <2>2
  <2> QED
    BY <1>1, <1>2, <1>10, <2>3, WarnFrame
<1> QED
  BY <1>3, <1>9, <1>10

\* The forget: only the tick that is at the warning takes its record back.
LEMMA ForgetKeeps ==
  ASSUME TypeOK, PostedInv, NEW t \in Ticks, WarnForget(t)
  PROVE  PostedInv' /\ (Attended /\ cancelled = {} /\ RecordedInv => RecordedInv')
<1>1. /\ pc \in [Ticks -> TickStates] /\ iss[t] \in Issues /\ snap[t][iss[t]] \subseteq Scopes
      /\ crashes \in Nat /\ Others(t)
  BY OthersStay, DispatchAssumption DEF TypeOK, TickTypeOK, TickStep, Dispatching
<1>2. pc[t] = "warnForget" /\ pc'[t] \notin AtWarning /\ UNCHANGED <<posted, crashes>>
  BY <1>1 DEF WarnForget, Goto, Return, forgeVars, AtWarning
<1>3. PICK s \in First(Unrouted(t)) :
        \/ warned' = warned \ {<<iss[t], s>>}
        \/ CallFails(t, "store") /\ UNCHANGED warned
  BY DEF WarnForget, ForgetDispatchWarning, storeVars
<1>4. s \in Scopes /\ Unrouted(t) \in SUBSET Nat
  BY <1>1, <1>3, StoreAssumption DEF First, Unrouted
<1>5. \A i, v : ~Warning(t, i, v)'
  BY <1>2 DEF Warning, AtWarning
<1>6. \A u \in Ticks \ {t} : \A i, v : Warning(u, i, v)' <=> Warning(u, i, v)
  BY <1>1, WarningOthers
<1>7. \A i, v : Warning(t, i, v) <=> i = iss[t] /\ v = s
  BY <1>2, <1>3, <1>4, FirstIsUnique DEF Warning
<1>8. posted[<<iss[t], s>>] = 0 /\ \A u \in Ticks \ {t} : ~Warning(u, iss[t], s)
  BY <1>1, <1>4, <1>7 DEF PostedInv
<1>9. CASE warned' = warned \ {<<iss[t], s>>}
  <2>1. \A i \in Issues, v \in Scopes : <<i, v>> \in warned' <=> <<i, v>> \in warned /\ ~(i = iss[t] /\ v = s)
    BY <1>9
  <2>2. PostedInv'
    BY <1>2, <1>5, <1>6, <1>8, <2>1 DEF PostedInv
  <2>3. RecordedInv => RecordedInv'
    BY <1>2, <1>6, <1>7, <2>1 DEF RecordedInv
  <2> QED
    BY <2>2, <2>3
<1>10. CASE CallFails(t, "store") /\ UNCHANGED warned
  <2>1. PostedInv'
    BY <1>2, <1>5, <1>6, <1>10 DEF PostedInv
  <2> QED
    BY <1>10, <2>1 DEF CallFails, Attended
<1> QED
  BY <1>3, <1>9, <1>10

\* A tick that is cancelled was cancelled by a caller.
LEMMA NobodyCancels ==
  ASSUME ~MayFail("cancel"), TypeOK, cancelled = {}, [Next]_vars
  PROVE  cancelled' = {}
<1>1. ASSUME NEW t \in Ticks, TickStep(t) PROVE cancelled' \subseteq cancelled
  BY <1>1 DEF TickStep, Sweeping, Dispatching, StartTick, TickAborts, ListDispatches, SweepRow, SweepListDone,
     FailSwept, EndLease, SweepProject, ListIssues, PickIssue, TickDone, WarnUnrouted, WarnPost, WarnForget, ChooseRoute,
     Insert, Reread, Abandon, LabelQueued, BeginStart, Provision, Seed, RunStarted, ProjectRunning,
     TearDownRun, FailStart, FailProject, Step, Return, NextRow, NextIssue
<1>2. ASSUME NEW r \in Rows, AgentReturns(r) \/ RunFinishes(r) PROVE UNCHANGED cancelled
  BY <1>2 DEF AgentReturns, RunFinishes, RunEndsLease, RunEnded, RunProjects, RunUntracks, tickVars
<1>3. ASSUME NEW t \in Ticks PROVE ~CancelTick(t)
  BY DEF CancelTick
<1>4. CASE \/ UNCHANGED vars \/ Clock \/ Crash \/ \E i \in Issues : Human(i)
  BY <1>4 DEF vars, tickVars, Clock, Crash, Human
<1> QED
  BY <1>1, <1>2, <1>3, <1>4 DEF Next

\* Every step keeps both.
LEMMA WarnNext ==
  ASSUME TypeOK, TypeOK', PostedInv, [Next]_vars
  PROVE  PostedInv' /\ (Attended /\ cancelled = {} /\ RecordedInv => RecordedInv')
<1>1. crashes \in Nat /\ crashes' \in Nat
  BY DispatchAssumption DEF TypeOK
<1>2. ASSUME NEW t \in Ticks, TickStep(t) \/ CancelTick(t), ~WarnUnrouted(t), ~WarnPost(t), ~WarnForget(t)
      PROVE  PostedInv' /\ (RecordedInv => RecordedInv')
  <2>1. /\ UNCHANGED <<posted, warned, crashes>> /\ Others(t)
        /\ pc[t] \in AtWarning \/ pc'[t] \in AtWarning => UNCHANGED <<pc, iss, snap>>
    BY <1>2, QuietTicks, OthersStay
  <2>2. \A i, s : Warning(t, i, s)' <=> Warning(t, i, s)
    BY <2>1 DEF Warning, Unrouted, AtWarning
  <2>3. \A u \in Ticks : \A i, s : Warning(u, i, s)' <=> Warning(u, i, s)
    BY <2>1, <2>2, PostOthers
  <2> QED
    BY <1>1, <2>1, <2>3, WarnFrame
<1>3. CASE Crash
  <2>1. UNCHANGED <<posted, warned>> /\ crashes' > 0 /\ \A u \in Ticks : pc'[u] \notin AtWarning
    BY <1>1, <1>3 DEF Crash, storeVars, forgeVars, AtWarning
  <2> QED
    BY <1>1, <1>3, <2>1, WarnFrame DEF Warning, Crash, AtWarning
<1>4. CASE \/ UNCHANGED vars \/ Clock \/ \E i \in Issues : Human(i)
           \/ \E r \in Rows : AgentReturns(r) \/ RunFinishes(r)
  <2>1. UNCHANGED <<posted, warned, crashes, pc, iss, snap>>
    <3>1. ASSUME NEW r \in Rows, AgentReturns(r) \/ RunEndsLease(r) \/ RunUntracks(r)
          PROVE  UNCHANGED <<posted, warned, crashes, pc, iss, snap>>
      BY <3>1 DEF AgentReturns, RunEndsLease, RunUntracks, storeVars, forgeVars, tickVars
    <3>2. ASSUME NEW r \in Rows, RunEnded(r) PROVE UNCHANGED <<posted, warned, crashes, pc, iss, snap>>
      BY <3>2 DEF RunEnded, Closes, TransitionDispatch, FailDispatch, Moves, storeVars, forgeVars, tickVars
    <3>3. ASSUME NEW r \in Rows, RunProjects(r) PROVE UNCHANGED <<posted, warned, crashes, pc, iss, snap>>
      BY <3>3 DEF RunProjects, ProjectsFailure, Projects, SetDispatchLabelsPending, storeVars, tickVars
    <3> QED
      BY <1>4, <3>1, <3>2, <3>3 DEF vars, Clock, Ages, Human, RunFinishes, storeVars, forgeVars, tickVars
  <2>2. \A u \in Ticks : \A i, s : Warning(u, i, s)' <=> Warning(u, i, s)
    BY <2>1 DEF Warning, Unrouted
  <2> QED
    BY <1>1, <2>1, <2>2, WarnFrame
<1>5. ASSUME NEW t \in Ticks, WarnUnrouted(t) \/ WarnPost(t) \/ WarnForget(t)
      PROVE  PostedInv' /\ (Attended /\ cancelled = {} /\ RecordedInv => RecordedInv')
  BY <1>5, RecordKeeps, CommentKeeps, ForgetKeeps
<1> QED
  BY <1>2, <1>3, <1>4, <1>5 DEF Next

LEMMA WarnInit == Init => PostedInv /\ RecordedInv /\ NoneCancelled
BY DEF Init, NoneCancelled, StoreInit, PostedInv, RecordedInv, Warning

LEMMA AcknowledgedFromInv == PostedInv => AcknowledgedOnce
<1>1. SUFFICES ASSUME PostedInv, NEW i \in Issues, NEW s \in Scopes
               PROVE  posted[<<i, s>>] <= 1 /\ (posted[<<i, s>>] = 1 => \A t \in Ticks : ~Warning(t, i, s))
  BY DEF AcknowledgedOnce
<1>2. posted[<<i, s>>] <= 1
  BY <1>1 DEF PostedInv
<1>3. ASSUME posted[<<i, s>>] = 1, NEW t \in Ticks PROVE ~Warning(t, i, s)
  <2>1. Warning(t, i, s) => posted[<<i, s>>] = 0
    BY <1>1 DEF PostedInv
  <2> QED
    BY <1>3, <2>1
<1> QED
  BY <1>2, <1>3

\* Once the forge has acknowledged a warning no tick posts it again, whatever
\* fails, is cancelled or restarts, comments whose reply is lost included: the
\* record is inserted before the comment, its inserter alone posts, and only
\* an unacknowledged warning is forgotten (warnUnrouted in dispatch.go).
THEOREM NoWarningTwice == Spec => []AcknowledgedOnce
<1>1. TypeOK /\ TypeOK' /\ PostedInv /\ [Next]_vars => PostedInv'
  BY WarnNext
<1>2. PostedInv => AcknowledgedOnce
  BY AcknowledgedFromInv
<1> QED
  BY <1>1, <1>2, WarnInit, TypeCorrect, PTL DEF Spec

\* A recorded warning is not forgotten, through restarts and failed comments,
\* as long as no tick is cancelled and the store answers, so that a failed
\* comment is taken back (warnUnrouted in dispatch.go).
THEOREM RecordedWarningsArePosted == ASSUME Attended PROVE Spec => []WarnedOnce
<1>1. TypeOK /\ TypeOK' /\ PostedInv /\ NoneCancelled /\ RecordedInv /\ [Next]_vars
        => PostedInv' /\ NoneCancelled' /\ RecordedInv'
  BY WarnNext, NobodyCancels DEF Attended, NoneCancelled
<1>2. PostedInv /\ RecordedInv => WarnedOnce
  BY AcknowledgedFromInv DEF RecordedInv, WarnedOnce
<1> QED
  BY <1>1, <1>2, WarnInit, TypeCorrect, PTL DEF Spec
============================================================================
