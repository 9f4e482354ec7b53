--------------------------- MODULE AgentTaskQueue ---------------------------
(***************************************************************************)
(* The pull-based agent run queue (internal/server/agent_task_store.go,    *)
(* agent_task_queue.go, agent_queue_server.go) and its polling workers     *)
(* (agent-runtime/src/poll.ts).                                            *)
(*                                                                         *)
(* durable is the implementation in use: TRUE is PostgresAgentTaskQueue,   *)
(* whose rows and sequences survive a daemon restart and whose Complete is *)
(* a transaction; FALSE is the in-memory queue, one mutex and one counter. *)
(*                                                                         *)
(* A task id and a lease token are numbers drawn from counters, as in the  *)
(* code.  What they stand for is kept beside them: sub is the submission a *)
(* row was enqueued for, nr the number of the lease over all time, so that *)
(* a reused id or token shows.  Time is the rest of a lease's window.      *)
(***************************************************************************)
EXTENDS Integers, FiniteSets

CONSTANTS Subs,        \* submissions (EnqueueAgentTask calls)
          Workers,     \* polling workers
          Skills,
          SkillOf,     \* [Subs -> Skills]
          Filter,      \* [Workers -> SUBSET Skills], CONTAINARIUM_QUEUE_SKILL
          Window,      \* the lease window
          Stores,      \* the values durable may have
          MaxLeases,   \* bound on leases handed out
          MaxFaults,   \* bound on lost answers, dead workers, failed statements, late runs
          MaxRestarts

ASSUME QueueAssumption ==
  /\ SkillOf \in [Subs -> Skills]
  /\ Filter \in [Workers -> SUBSET Skills]
  /\ Window \in Nat \ {0}
  /\ Stores \subseteq BOOLEAN
  /\ MaxLeases \in Nat /\ MaxFaults \in Nat /\ MaxRestarts \in Nat

VARIABLES durable,
          rows,      \* the queued and leased tasks; ids grow, so they give the order
          results,   \* accepted completions
          idSeq, tokSeq,
          accepted,  \* submissions whose enqueue was answered
          job,       \* [Workers -> SUBSET Lease], what a worker is running
          tx,        \* workers whose Complete has deleted and not committed
          leases,    \* leases handed out so far
          faults, restarts

vars == <<durable, rows, results, idSeq, tokSeq, accepted, job, tx, leases, faults, restarts>>

Row    == [id : Nat, sub : Subs, tok : Nat, left : 0..Window, nr : 0..MaxLeases]
Lease  == [id : Nat, sub : Subs, tok : Nat, left : 0..Window, nr : 1..MaxLeases]
Result == [id : Nat, of : Subs, by : Subs, nr : 1..MaxLeases]

InQueue(s)  == \E r \in rows : r.sub = s
Recorded(s) == \E r \in results : r.of = s

\* Ids, tokens and counters are numbers of the right range; a worker runs
\* at most one task.
TypeOK ==
  /\ durable \in Stores
  /\ rows \subseteq Row
  /\ results \subseteq Result
  /\ idSeq \in Nat /\ tokSeq \in Nat
  /\ accepted \subseteq Subs
  /\ job \in [Workers -> SUBSET Lease]
  /\ \A w \in Workers : Cardinality(job[w]) <= 1
  /\ tx \subseteq Workers
  /\ leases \in 0..MaxLeases /\ faults \in 0..MaxFaults /\ restarts \in 0..MaxRestarts

Init ==
  /\ durable \in Stores
  /\ rows = {} /\ results = {}
  /\ idSeq = 0 /\ tokSeq = 0
  /\ accepted = {}
  /\ job = [w \in Workers |-> {}]
  /\ tx = {}
  /\ leases = 0 /\ faults = 0 /\ restarts = 0

----------------------------------------------------------------------------
\* The in-memory queue draws ids and tokens from one counter.
NextId    == idSeq' = idSeq + 1 /\ tokSeq' = IF durable THEN tokSeq ELSE tokSeq + 1
NextToken == tokSeq' = tokSeq + 1 /\ idSeq' = IF durable THEN idSeq ELSE idSeq + 1

Fault == faults < MaxFaults /\ faults' = faults + 1

\* EnqueueAgentTask: append.  The answer may be lost, or the insert fail.
Enqueue(s) ==
  /\ ~InQueue(s) /\ ~Recorded(s) /\ s \notin accepted
  /\ rows' = rows \cup {[id |-> idSeq + 1, sub |-> s, tok |-> 0, left |-> 0, nr |-> 0]}
  /\ NextId
  /\ \/ accepted' = accepted \cup {s} /\ UNCHANGED faults
     \/ Fault /\ UNCHANGED accepted
  /\ UNCHANGED <<durable, results, job, tx, leases, restarts>>

\* FOR UPDATE SKIP LOCKED passes over a row a Complete has locked.
Locked(r) == \E w \in tx : \E l \in job[w] : l.id = r.id
Visible_NeverAgain(r) == ~Locked(r) /\ r.tok = 0
Visible(r) == ~Locked(r) /\ (r.tok = 0 \/ r.left = 0)
Leasable(w, r) == Visible(r) /\ SkillOf[r.sub] \in Filter[w]

\* LeaseAgentTask: the oldest visible task gets a new token and window.
\* When the answer is lost the task stays hidden until the window is over.
LeaseTask(w) ==
  /\ job[w] = {} /\ leases < MaxLeases
  /\ \E r \in rows :
       /\ Leasable(w, r) /\ \A q \in rows : Leasable(w, q) => r.id <= q.id
       /\ LET leased == [r EXCEPT !.tok = tokSeq + 1, !.left = Window, !.nr = leases + 1]
          IN /\ rows' = (rows \ {r}) \cup {leased}
             /\ \/ job' = [job EXCEPT ![w] = {leased}] /\ UNCHANGED faults
                \/ Fault /\ UNCHANGED job
  /\ NextToken
  /\ leases' = leases + 1
  /\ UNCHANGED <<durable, results, accepted, tx, restarts>>

\* The row a presented lease may complete: same id, same current token.
Matches(r, l) == r.id = l.id /\ r.tok # 0 /\ r.tok = l.tok

\* Remove row r and record the outcome the lease l produced.
Outcome(r, l) == [id |-> l.id, of |-> r.sub, by |-> l.sub, nr |-> l.nr]
Settle_KeepsRow(r, l) ==
  /\ results' = results \cup {Outcome(r, l)}
  /\ UNCHANGED rows
Settle(r, l) ==
  /\ rows' = rows \ {r}
  /\ results' = results \cup {Outcome(r, l)}

Forget(w) == job' = [job EXCEPT ![w] = {}]

\* CompleteAgentTask: a stale lease is answered accepted = false and the
\* worker drops its result.
CompleteStale(w) ==
  /\ w \notin tx
  /\ \E l \in job[w] : \A r \in rows : ~Matches(r, l)
  /\ Forget(w)
  /\ UNCHANGED <<durable, rows, results, idSeq, tokSeq, accepted, tx, leases, faults, restarts>>

\* In memory the check, the removal and the result are one critical section.
CompleteInMemory(w) ==
  /\ ~durable
  /\ \E l \in job[w], r \in rows : Matches(r, l) /\ Settle(r, l)
  /\ Forget(w)
  /\ UNCHANGED <<durable, idSeq, tokSeq, accepted, tx, leases, faults, restarts>>

\* In Postgres the DELETE locks the row and the commit makes both writes
\* visible; an error rolls both back and the worker moves on.
CompleteDelete(w) ==
  /\ durable /\ w \notin tx
  /\ \E l \in job[w], r \in rows : Matches(r, l)
  /\ tx' = tx \cup {w}
  /\ UNCHANGED <<durable, rows, results, idSeq, tokSeq, accepted, job, leases, faults, restarts>>

CompleteCommit(w) ==
  /\ w \in tx
  /\ \E l \in job[w], r \in rows : r.id = l.id /\ Settle(r, l)
  /\ Forget(w) /\ tx' = tx \ {w}
  /\ UNCHANGED <<durable, idSeq, tokSeq, accepted, leases, faults, restarts>>

CompleteRollback_Deleted(w) ==
  /\ w \in tx /\ Fault
  /\ rows' = {r \in rows : \A l \in job[w] : r.id # l.id}
  /\ Forget(w) /\ tx' = tx \ {w}
  /\ UNCHANGED <<durable, results, idSeq, tokSeq, accepted, leases, restarts>>
CompleteRollback(w) ==
  /\ w \in tx /\ Fault
  /\ Forget(w) /\ tx' = tx \ {w}
  /\ UNCHANGED <<durable, rows, results, idSeq, tokSeq, accepted, leases, restarts>>

\* A worker dies, or its complete call never arrives.
WorkerDies(w) ==
  /\ job[w] # {} /\ w \notin tx /\ Fault
  /\ Forget(w)
  /\ UNCHANGED <<durable, rows, results, idSeq, tokSeq, accepted, tx, leases, restarts>>

\* Time passes for every window, in the queue and as its worker sees it.
\* poll.ts gives a run less time than its window: a run that outlasts it is
\* a fault.
Tick(l) == [l EXCEPT !.left = IF @ > 0 THEN @ - 1 ELSE 0]
Clock ==
  /\ \E r \in rows : r.left > 0
  /\ IF \E w \in Workers : \E l \in job[w] : l.left = 1 THEN Fault ELSE UNCHANGED faults
  /\ rows' = {Tick(r) : r \in rows}
  /\ job' = [w \in Workers |-> {Tick(l) : l \in job[w]}]
  /\ UNCHANGED <<durable, results, idSeq, tokSeq, accepted, tx, leases, restarts>>

\* The daemon restarts; workers and the leases they hold do not.
Restart_ResetsTokens ==
  /\ restarts < MaxRestarts
  /\ restarts' = restarts + 1
  /\ tokSeq' = 0
  /\ job' = [w \in Workers |-> IF w \in tx THEN {} ELSE job[w]]
  /\ tx' = {}
  /\ UNCHANGED <<durable, rows, results, idSeq, accepted, leases, faults>>
Restart ==
  /\ restarts < MaxRestarts
  /\ restarts' = restarts + 1
  /\ IF durable
     THEN UNCHANGED <<rows, results, idSeq, tokSeq>>
     ELSE rows' = {} /\ results' = {} /\ idSeq' = 0 /\ tokSeq' = 0
  /\ job' = [w \in Workers |-> IF w \in tx THEN {} ELSE job[w]]
  /\ tx' = {}
  /\ UNCHANGED <<durable, accepted, leases, faults>>

WorkerStep(w) == \/ LeaseTask(w) \/ CompleteStale(w) \/ CompleteInMemory(w)
                 \/ CompleteDelete(w) \/ CompleteCommit(w)

Next == \/ \E s \in Subs : Enqueue(s)
        \/ \E w \in Workers : WorkerStep(w) \/ CompleteRollback(w) \/ WorkerDies(w)
        \/ Clock \/ Restart

Spec == Init /\ [][Next]_vars

\* Workers poll for ever and finish what they run; time passes.
FairSpec == Spec /\ WF_vars(Clock) /\ \A w \in Workers : WF_vars(WorkerStep(w))

----------------------------------------------------------------------------
\* An acknowledged task is never lost: it is queued, or its outcome is
\* recorded (Postgres, across restarts and failed completions).
NothingLost == durable => \A s \in accepted : InQueue(s) \/ Recorded(s)

\* Queued or recorded, never both: a completed task is not run again.
NotRunAgain == \A s \in Subs : ~(InQueue(s) /\ Recorded(s))

\* The in-memory queue forgets its leases with its process.
Remembers == durable \/ restarts = 0

\* The recorded outcome is that of the task's own newest lease: a slow
\* worker never clobbers the retry that overtook it, and with Postgres a lease
\* from before a restart completes nothing else (agent_task_store.go).
NewestLeaseWins ==
  Remembers => \A r \in results :
    /\ r.of = r.by
    /\ \A w \in Workers : \A l \in job[w] : l.sub = r.of => l.nr < r.nr

\* With Postgres every acknowledged task is eventually completed, however its
\* workers, answers and commits get lost.
AllCompleted == \A s \in Subs : durable /\ s \in accepted ~> Recorded(s)
============================================================================
