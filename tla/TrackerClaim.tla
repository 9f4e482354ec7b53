---------------------------- MODULE TrackerClaim ----------------------------
(***************************************************************************)
(* Runs on several daemons claim one tracker issue. A claim is a comment   *)
(* with a marker; there is no lock the daemons share, so each one reads    *)
(* the comments, posts its claim, reads again and yields to an earlier     *)
(* claim. Every call to the forge is a step of its own, and the calls of   *)
(* the daemons, people and time fall between them.                         *)
(***************************************************************************)
EXTENDS Naturals, Sequences

CONSTANTS Runs, Daemons,
          Home,        \* the daemon that drives each run
          StaleAfter,  \* the age from which a claim may be taken over: DefaultStaleAfter
          Windows,     \* the ages that requests name instead
          PageSize,    \* how many comments GetIssue returns at most
          Provider,    \* the forge: "github" or "gitlab"
          FaultSets,   \* the environments: which calls fail, whether claims tie
                       \* and whether requests name windows of their own
          MaxClock, MaxAsks, MaxEvents, MaxThread  \* bounds

FaultKinds == {"read", "post", "lost", "assign", "reread", "yield", "crash", "tie",
               "windows"}

ASSUME ClaimAssumption ==
  /\ Runs # {} /\ Home \in [Runs -> Daemons]
  /\ Windows \subseteq Nat \ {0} /\ StaleAfter \in Windows /\ PageSize \in Nat
  /\ Provider \in {"github", "gitlab"} /\ FaultSets \subseteq SUBSET FaultKinds
  /\ MaxClock \in Nat /\ MaxAsks \in Nat /\ MaxEvents \in Nat /\ MaxThread \in Nat

VARIABLES thread,      \* the comments of the issue that carry a marker
          clock,       \* the time, in the forge's resolution
          assignees,   \* who the issue is assigned to
          registered,  \* the runs in their daemon's runlease.Registry
          working,     \* the runs whose agent is still at work
          call,        \* the claim call that holds each daemon's lock
          answer,      \* the last result each run was given
          asks,        \* the claim calls so far
          events,      \* the ends, restarts, quotes and assignments so far
          faults       \* what may go wrong in this behaviour

vars == <<thread, clock, assignees, registered, working, call, answer, asks, events, faults>>

Comments == [run : Runs, kind : {"claim", "yield"}, at : 0..MaxClock,
             by : {"broker", "person"}]

Pcs == {"idle", "post", "check", "assign", "reread", "yield"}

\* A claim call: its next step, its run, the age at which it takes the claim of
\* an unknown run for void, when its claim was posted and the run it yields to.
Calls == [pc : Pcs, run : Runs, stale : Windows, mine : 0..MaxClock, to : Runs]

Idle == [pc |-> "idle", run |-> CHOOSE r \in Runs : TRUE,
         stale |-> StaleAfter, mine |-> 0, to |-> CHOOSE r \in Runs : TRUE]

Answers == [verdict : {"none", "claimed", "refused", "error"}, holder : Runs]

TypeOK ==
  /\ thread \in Seq(Comments) /\ Len(thread) <= MaxThread
  /\ clock \in 0..MaxClock
  /\ assignees \subseteq {"broker", "person"}
  /\ registered \subseteq Runs /\ working \subseteq Runs
  /\ call \in [Daemons -> Calls]
  /\ answer \in [Runs -> Answers]
  /\ asks \in 0..MaxAsks /\ events \in 0..MaxEvents /\ faults \in FaultSets

\* An issue nobody has touched.
Init ==
  /\ thread = <<>> /\ clock = 0 /\ assignees = {}
  /\ registered = {} /\ working = Runs
  /\ call = [d \in Daemons |-> Idle]
  /\ answer = [r \in Runs |-> [verdict |-> "none", holder |-> r]]
  /\ asks = 0 /\ events = 0 /\ faults \in FaultSets

---------------------------------------------------------------------------
(* What a daemon reads from the comments.                                  *)

\* GetIssue returns comment i before comment j: neither provider asks for an
\* order, GitHub lists comments oldest first and GitLab newest first.
Before(i, j) == IF Provider = "github" THEN i < j ELSE i > j

\* The positions of the comments that one call of GetIssue returns.
Page ==
  {i \in DOMAIN thread : IF Provider = "github" THEN i <= PageSize
                                                ELSE i > Len(thread) - PageSize}

Marked_AnyAuthor(i, kind) == thread[i].kind = kind

\* A marker counts only in a comment of the connection's own account.
Marked(i, kind) == thread[i].by = "broker" /\ thread[i].kind = kind

Standing_IgnoresYields(page) == {i \in page : Marked(i, "claim")}

\* The claims that no yield of the same run, further down the list, voids.
Standing(page) ==
  {i \in page : /\ Marked(i, "claim")
                /\ \A j \in page :
                     Before(i, j) /\ Marked(j, "yield") => thread[j].run # thread[i].run}

\* The last of them in the list.
latestClaim(page, i) ==
  i \in Standing(page) /\ \A j \in Standing(page) : j = i \/ Before(j, i)

EarlierClaims_AnyTime(page, r, before) ==
  {i \in page : Marked(i, "claim") /\ thread[i].run # r}

\* The claims of other runs from before a time.
EarlierClaims(page, r, before) ==
  {i \in page : Marked(i, "claim") /\ thread[i].run # r /\ thread[i].at < before}

earliestForeignClaimBefore(page, r, before, i) ==
  /\ i \in EarlierClaims(page, r, before)
  /\ \A j \in EarlierClaims(page, r, before) : j = i \/ Before(i, j)

Live(d, r) == r \in registered /\ Home[r] = d

Fresh(i, stale) == clock - thread[i].at < stale

\* Daemon d honours the claim in comment i, in a call with that window.
Honoured(d, i, stale) == Live(d, thread[i].run) \/ Fresh(i, stale)

---------------------------------------------------------------------------
(* ClaimTrackerIssue. The lock of the issue is held while call[d] is not   *)
(* idle, by a defer of the handler.                                        *)

Return(d, r, verdict, holder) ==
  /\ answer' = [answer EXCEPT ![r] = [verdict |-> verdict, holder |-> holder]]
  /\ call' = [call EXCEPT ![d] = Idle]

Goto(d, pc) == call' = [call EXCEPT ![d].pc = pc] /\ UNCHANGED answer

Write(r, kind) ==
  thread' = Append(thread, [run |-> r, kind |-> kind, at |-> clock, by |-> "broker"])

\* The requests leave stale_after_seconds unset.
OneWindow == "windows" \notin faults

\* The lock, WhoAmI and the first GetIssue, and what the call, with the window
\* its request names, makes of them. A run that asks for the first time is
\* registered, unless it started before a restart or is a person's token, which
\* names no run.
Ask(r, stale) ==
  LET d == Home[r] IN
  /\ r \in working /\ call[d].pc = "idle" /\ asks < MaxAsks
  /\ OneWindow => stale = StaleAfter
  /\ asks' = asks + 1
  /\ registered' \in
       IF answer[r].verdict = "none" THEN {registered, registered \cup {r}}
                                     ELSE {registered}
  /\ \/ "read" \in faults /\ Return(d, r, "error", r)
     \/ /\ \A i \in Page : latestClaim(Page, i) =>
             thread[i].run # r /\ ~Honoured(d, i, stale)
        /\ call' = [call EXCEPT ![d].pc = "post", ![d].run = r, ![d].stale = stale]
        /\ UNCHANGED answer
     \/ \E i \in Page :
          /\ latestClaim(Page, i)
          /\ \/ thread[i].run = r /\ Return(d, r, "claimed", r)
             \/ /\ thread[i].run # r /\ Honoured(d, i, stale)
                /\ Return(d, r, "refused", thread[i].run)
  /\ UNCHANGED <<thread, clock, assignees, working, events, faults>>

\* The claim is posted; or it is not; or it is and the reply is lost. Without
\* "tie" the forge never gives two claims the same time.
Post(d) ==
  LET r == call[d].run
      tie == \E i \in DOMAIN thread : Marked(i, "claim") /\ thread[i].at = clock IN
  /\ call[d].pc = "post"
  /\ \/ /\ Len(thread) < MaxThread /\ (tie => "tie" \in faults)
        /\ Write(r, "claim")
        /\ \/ /\ call' = [call EXCEPT ![d].pc = "check", ![d].mine = clock]
              /\ UNCHANGED answer
           \/ "lost" \in faults /\ Return(d, r, "error", r)
     \/ "post" \in faults /\ Return(d, r, "error", r) /\ UNCHANGED thread
  /\ UNCHANGED <<clock, assignees, registered, working, asks, events, faults>>

\* AssignIfUnassigned first reads the issue ...
CheckAssignee(d) ==
  /\ call[d].pc = "check"
  /\ \/ Goto(d, IF assignees = {} THEN "assign" ELSE "reread")
     \/ "assign" \in faults /\ Return(d, call[d].run, "error", call[d].run)
  /\ UNCHANGED <<thread, clock, assignees, registered, working, asks, events, faults>>

\* ... and then writes its own account, with a call that adds it or sets it.
AssignIfUnassigned(d) ==
  /\ call[d].pc = "assign"
  /\ assignees' = {"broker"} \cup IF Provider = "github" THEN assignees ELSE {}
  /\ \/ Goto(d, "reread")
     \/ "assign" \in faults /\ Return(d, call[d].run, "error", call[d].run)
  /\ UNCHANGED <<thread, clock, registered, working, asks, events, faults>>

\* The second GetIssue: an honoured claim from before this one wins.
Reread(d) ==
  LET r == call[d].run
      first(i) == earliestForeignClaimBefore(Page, r, call[d].mine, i) IN
  /\ call[d].pc = "reread"
  /\ \/ "reread" \in faults /\ Return(d, r, "error", r)
     \/ \E i \in Page :
          /\ first(i) /\ Honoured(d, i, call[d].stale)
          /\ call' = [call EXCEPT ![d].pc = "yield", ![d].to = thread[i].run]
          /\ UNCHANGED answer
     \/ /\ \A i \in Page : first(i) => ~Honoured(d, i, call[d].stale)
        /\ Return(d, r, "claimed", r)
  /\ UNCHANGED <<thread, clock, assignees, registered, working, asks, events, faults>>

\* The yield comment voids the run's own claim; its failure is ignored.
Yield(d) ==
  /\ call[d].pc = "yield"
  /\ \/ Len(thread) < MaxThread /\ Write(call[d].run, "yield")
     \/ "yield" \in faults /\ UNCHANGED thread
  /\ Return(d, call[d].run, "refused", call[d].to)
  /\ UNCHANGED <<clock, assignees, registered, working, asks, events, faults>>

---------------------------------------------------------------------------
(* The rest of the world.                                                  *)

Event == events < MaxEvents /\ events' = events + 1

\* A run's lease ends with its run.
EndRun(r) ==
  /\ Event
  /\ r \in working
  /\ working' = working \ {r} /\ registered' = registered \ {r}
  /\ UNCHANGED <<thread, clock, assignees, call, answer, asks, faults>>

\* A restart empties the registry and drops the call; the agents work on.
Restart(d) ==
  LET r == call[d].run IN
  /\ Event
  /\ call[d].pc \in {"idle", "post"} \/ "crash" \in faults
  /\ call[d].pc # "idle" \/ \E s \in registered : Home[s] = d
  /\ registered' = {s \in registered : Home[s] # d}
  /\ IF call[d].pc = "idle" THEN UNCHANGED <<call, answer>>
                            ELSE Return(d, r, "error", r)
  /\ UNCHANGED <<thread, clock, assignees, working, asks, faults>>

Tick ==
  /\ clock < MaxClock /\ clock' = clock + 1
  /\ UNCHANGED <<thread, assignees, registered, working, call, answer, asks, events, faults>>

\* Someone quotes a comment, marker included.
Quote ==
  /\ Event
  /\ Len(thread) < MaxThread
  /\ \E i \in DOMAIN thread :
       thread' = Append(thread, [thread[i] EXCEPT !.by = "person", !.at = clock])
  /\ UNCHANGED <<clock, assignees, registered, working, call, answer, asks, faults>>

\* Someone takes the issue.
PersonAssigns ==
  /\ Event
  /\ "person" \notin assignees
  /\ assignees' = assignees \cup {"person"}
  /\ UNCHANGED <<thread, clock, registered, working, call, answer, asks, faults>>

Next ==
  \/ \E r \in Runs : (\E w \in Windows : Ask(r, w)) \/ EndRun(r)
  \/ \E d \in Daemons : \/ Post(d) \/ CheckAssignee(d) \/ AssignIfUnassigned(d)
                        \/ Reread(d) \/ Yield(d) \/ Restart(d)
  \/ Tick \/ Quote \/ PersonAssigns

Spec == Init /\ [][Next]_vars

---------------------------------------------------------------------------
(* Properties.                                                             *)

\* The broker's own comments of a kind.
Posted(kind) == {i \in DOMAIN thread : thread[i].by = "broker" /\ thread[i].kind = kind}

Claims == Posted("claim")

\* Run r has a claim that it did not yield afterwards.
Stands(r) ==
  \E i \in Claims :
    /\ thread[i].run = r
    /\ \A j \in Posted("yield") : j > i => thread[j].run # r

\* Nothing fails between a claim and its answer, and a read sees every comment.
Benign == faults \subseteq {"read", "post", "windows"} /\ PageSize >= MaxThread

\* Until the first claim is old enough for a caller to take over, only one run
\* is ever told that it holds the issue, whatever the daemons that claim it do
\* at the same time: the others find its claim on one of their two reads.
FirstClaimWins ==
  Benign /\ (\A i \in Claims, w \in Windows : Fresh(i, w)) =>
    \A r, s \in Runs :
      answer[r].verdict = "claimed" /\ answer[s].verdict = "claimed" => r = s

\* The runs that raced for the issue do not all yield: once somebody has
\* claimed it, some claim stands.
SomebodyWins == Claims # {} => \E r \in Runs : Stands(r)

\* A run is turned away only for a run whose own claim stands at that moment,
\* never for one that has yielded, whoever else repeats its marker. So it is on
\* a forge that lists comments oldest first, while all requests have one window.
RefusedForCause ==
  [][OneWindow => \A r \in Runs :
       answer'[r] # answer[r] /\ answer'[r].verdict = "refused" =>
         Stands(answer'[r].holder)]_vars

=============================================================================
