------------------------ MODULE AgentTaskQueueProofs ------------------------
(***************************************************************************)
(* The pull queue loses no acknowledged task, runs no completed task again *)
(* and records the outcome of a task's newest lease only, for any number   *)
(* of submissions, workers, leases, lost answers and restarts.             *)
(***************************************************************************)
EXTENDS AgentTaskQueue, FiniteSetTheorems, TLAPS

---------------------------------------------------------------------------
(* The inductive invariant.                                                *)

\* TypeOK, with "at most one" said without counting.
Typed ==
  /\ durable \in BOOLEAN /\ durable \in Stores
  /\ rows \subseteq Row
  /\ results \subseteq Result
  /\ idSeq \in Nat /\ tokSeq \in Nat
  /\ accepted \subseteq Subs
  /\ job \in [Workers -> SUBSET Lease]
  /\ tx \subseteq Workers
  /\ leases \in 0..MaxLeases /\ faults \in 0..MaxFaults /\ restarts \in 0..MaxRestarts

OneJob == \A w \in Workers : \A l, m \in job[w] : l = m

\* A row is known by its id and by its submission; ids come from the counter.
RowsApart ==
  /\ \A q, r \in rows : q.id = r.id \/ q.sub = r.sub => q = r
  /\ \A r \in rows : r.id <= idSeq

\* A lease and the row it was drawn from: the same task, never newer than
\* the row, and as new as the row exactly while the row has its token.
Drawn(l, r) ==
  /\ r.id = l.id <=> r.sub = l.sub
  /\ r.id = l.id => l.nr <= r.nr
  /\ r.id = l.id /\ r.tok = l.tok => l.nr = r.nr

Known(l) ==
  /\ l.id <= idSeq /\ l.tok <= tokSeq /\ l.nr <= leases
  /\ \A r \in rows : Drawn(l, r)
  /\ InQueue(l.sub) \/ Recorded(l.sub)

LeasesKnown == Remembers => \A w \in Workers : \A l \in job[w] : Known(l)

LeasesApart ==
  Remembers => \A v, w \in Workers : v # w => \A l \in job[v], m \in job[w] : l.nr # m.nr

\* A Complete that has deleted holds its row, under the token it presented.
TxHolds ==
  \A w \in tx : durable /\ \E l \in job[w], r \in rows : r.id = l.id /\ r.tok = l.tok

IInv == /\ Typed /\ OneJob /\ RowsApart /\ LeasesKnown /\ LeasesApart /\ TxHolds
        /\ NothingLost /\ NotRunAgain /\ NewestLeaseWins

---------------------------------------------------------------------------
(* One lemma per action, one step per conjunct it can disturb.             *)

\* An enqueued row has a new id and a submission no lease was drawn for.
LEMMA EnqueueStep ==
  ASSUME IInv, NEW s \in Subs, Enqueue(s)
  PROVE  IInv'
<1> DEFINE new == [id |-> idSeq + 1, sub |-> s, tok |-> 0, left |-> 0, nr |-> 0]
<1> USE QueueAssumption DEF IInv
<1>1. /\ rows' = rows \cup {new} /\ results' = results /\ job' = job /\ tx' = tx
      /\ durable' = durable /\ restarts' = restarts /\ leases' = leases
      /\ accepted' = accepted \/ accepted' = accepted \cup {s}
  BY DEF Enqueue
<1>2. new \in Row
  BY DEF Typed, Row
<1>3. idSeq' = idSeq + 1 /\ tokSeq' \in Nat /\ tokSeq' >= tokSeq /\ faults' \in 0..MaxFaults
  BY DEF Enqueue, NextId, Fault, Typed
<1>4. Typed'
  BY <1>1, <1>2, <1>3 DEF Typed
<1>5. OneJob' /\ TxHolds'
  BY <1>1 DEF OneJob, TxHolds
<1>6. RowsApart'
  BY <1>1, <1>3 DEF RowsApart, Enqueue, InQueue, Typed, Row
<1>7. LeasesKnown'
  <2>1. SUFFICES ASSUME Remembers, NEW w \in Workers, NEW l \in job[w]
                 PROVE  Known(l)'
    BY <1>1 DEF LeasesKnown, Remembers
  <2>2. Known(l) /\ l \in Lease
    BY <2>1 DEF LeasesKnown, Typed
  <2>3. l.sub # s
    BY <2>2 DEF Known, Enqueue
  <2>4. ~(l.id = new.id) /\ ~(l.sub = new.sub)
    BY <2>2, <2>3 DEF Known, Typed, Lease
  <2>5. Drawn(l, new)
    BY <2>4 DEF Drawn
  <2>6. QED
    BY <2>2, <2>5, <1>1, <1>3 DEF Known, Drawn, InQueue, Recorded, Typed, Lease
<1>8. LeasesApart'
  BY <1>1 DEF LeasesApart, Remembers
<1>9. NothingLost' /\ NotRunAgain'
  <2>1. \A t \in Subs : InQueue(t)' <=> InQueue(t) \/ t = s
    <3>1. new.sub = s /\ new \in rows'
      BY <1>1
    <3> HIDE DEF new
    <3>2. QED
      BY <1>1, <3>1 DEF InQueue
  <2>2. \A t \in Subs : Recorded(t)' <=> Recorded(t)
    BY <1>1 DEF Recorded
  <2>3. NothingLost'
    BY <1>1, <2>1, <2>2 DEF NothingLost, Typed
  <2>4. NotRunAgain'
    BY <2>1, <2>2 DEF NotRunAgain, Enqueue
  <2>5. QED
    BY <2>3, <2>4
<1>10. NewestLeaseWins'
  BY <1>1 DEF NewestLeaseWins, Remembers
<1>11. QED
  BY <1>4, <1>5, <1>6, <1>7, <1>8, <1>9, <1>10

\* A worker that forgets its lease, and a Complete that is rolled back, leave
\* every other lease and every row as they are.
LEMMA Fewer ==
  ASSUME IInv,
         UNCHANGED <<durable, rows, results, idSeq, tokSeq, accepted, leases>>,
         faults' \in 0..MaxFaults, restarts' \in 0..MaxRestarts,
         job' \in [Workers -> SUBSET Lease],
         \A w \in Workers : job'[w] \subseteq job[w],
         tx' \subseteq tx, \A w \in tx' : job'[w] = job[w],
         Remembers' => Remembers
  PROVE  IInv'
<1> USE DEF IInv
<1>1. Typed'
  BY DEF Typed
<1>2. OneJob' /\ RowsApart'
  BY DEF OneJob, RowsApart
<1>3. LeasesKnown'
  BY DEF LeasesKnown, Known, Drawn, InQueue, Recorded
<1>4. LeasesApart'
  BY DEF LeasesApart
<1>5. TxHolds'
  BY DEF TxHolds
<1>6. NothingLost' /\ NotRunAgain'
  BY DEF NothingLost, NotRunAgain, InQueue, Recorded
<1>7. NewestLeaseWins'
  BY DEF NewestLeaseWins
<1>8. QED
  BY <1>1, <1>2, <1>3, <1>4, <1>5, <1>6, <1>7

LEMMA ForgetMoves ==
  ASSUME Typed, NEW w \in Workers, Forget(w)
  PROVE  /\ job' \in [Workers -> SUBSET Lease] /\ job'[w] = {}
         /\ \A v \in Workers : v # w => job'[v] = job[v]
         /\ \A v \in Workers : job'[v] \subseteq job[v]
BY DEF Typed, Forget

LEMMA ForgetStep ==
  ASSUME IInv, NEW w \in Workers, CompleteStale(w) \/ CompleteRollback(w) \/ WorkerDies(w)
  PROVE  IInv'
<1>1. /\ Forget(w) /\ tx' \subseteq tx /\ w \notin tx'
      /\ UNCHANGED <<durable, rows, results, idSeq, tokSeq, accepted, leases, restarts>>
      /\ faults' \in 0..MaxFaults
  BY QueueAssumption DEF CompleteStale, CompleteRollback, WorkerDies, Fault, IInv, Typed
<1>2. /\ job' \in [Workers -> SUBSET Lease]
      /\ \A v \in Workers : job'[v] \subseteq job[v]
      /\ \A v \in tx' : job'[v] = job[v]
  BY <1>1, ForgetMoves DEF IInv, Typed
<1>3. restarts' \in 0..MaxRestarts /\ (Remembers' => Remembers)
  BY <1>1 DEF IInv, Typed, Remembers
<1>4. QED
  BY <1>1, <1>2, <1>3, Fewer

\* A DELETE that matched holds the row under the lease's own token.
LEMMA DeleteStep ==
  ASSUME IInv, NEW w \in Workers, CompleteDelete(w)
  PROVE  IInv'
<1> USE DEF IInv
<1>1. /\ UNCHANGED <<durable, rows, results, idSeq, tokSeq, accepted, job, leases, faults, restarts>>
      /\ tx' = tx \cup {w} /\ durable
  BY DEF CompleteDelete
<1>2. Typed' /\ OneJob' /\ RowsApart'
  BY <1>1 DEF Typed, OneJob, RowsApart
<1>3. LeasesKnown' /\ LeasesApart'
  BY <1>1 DEF LeasesKnown, LeasesApart, Remembers, Known, InQueue, Recorded
<1>4. TxHolds'
  BY <1>1 DEF TxHolds, CompleteDelete, Matches
<1>5. NothingLost' /\ NotRunAgain' /\ NewestLeaseWins'
  BY <1>1 DEF NothingLost, NotRunAgain, NewestLeaseWins, Remembers, InQueue, Recorded
<1>6. QED
  BY <1>2, <1>3, <1>4, <1>5

\* A daemon restart empties the in-memory queue and rolls a Complete back.
LEMMA RestartStep ==
  ASSUME IInv, Restart
  PROVE  IInv'
<1> USE DEF IInv
<1>1. /\ restarts' = restarts + 1 /\ restarts' \in 0..MaxRestarts
      /\ job' = [w \in Workers |-> IF w \in tx THEN {} ELSE job[w]]
      /\ tx' = {} /\ UNCHANGED <<durable, accepted, leases, faults>>
  BY QueueAssumption DEF Restart, Typed
<1>2. /\ job' \in [Workers -> SUBSET Lease]
      /\ \A w \in Workers : job'[w] \subseteq job[w]
  BY <1>1 DEF Typed
<1>3. CASE durable
  <2>1. UNCHANGED <<rows, results, idSeq, tokSeq>>
    BY <1>3 DEF Restart
  <2>2. Remembers' => Remembers
    BY <1>3 DEF Remembers
  <2>3. faults' \in 0..MaxFaults
    BY <1>1 DEF Typed
  <2>4. QED
    BY <1>1, <1>2, <2>1, <2>2, <2>3, Fewer
<1>4. CASE ~durable
  <2>1. rows' = {} /\ results' = {} /\ idSeq' = 0 /\ tokSeq' = 0
    BY <1>4 DEF Restart
  <2>2. ~durable' /\ ~Remembers'
    BY <1>1, <1>4 DEF Remembers, Typed
  <2>3. Typed'
    BY <1>1, <1>2, <2>1 DEF Typed
  <2>4. OneJob' /\ RowsApart' /\ TxHolds'
    BY <1>1, <1>2, <2>1 DEF OneJob, RowsApart, TxHolds
  <2>5. LeasesKnown' /\ LeasesApart' /\ NewestLeaseWins' /\ NothingLost'
    BY <2>2 DEF LeasesKnown, LeasesApart, NewestLeaseWins, NothingLost
  <2>6. NotRunAgain'
    BY <2>1 DEF NotRunAgain, InQueue
  <2>7. QED
    BY <2>3, <2>4, <2>5, <2>6
<1>5. QED
  BY <1>3, <1>4

\* A completion takes away the row whose token it presented and records that
\* row's newest lease: every other lease of the task is older.
LEMMA SettleStep ==
  ASSUME IInv, NEW w \in Workers, NEW l \in job[w], NEW r \in rows,
         r.id = l.id, r.tok = l.tok, Settle(r, l), Forget(w), tx' = tx \ {w},
         UNCHANGED <<durable, idSeq, tokSeq, accepted, leases, faults, restarts>>
  PROVE  IInv'
<1> DEFINE out == Outcome(r, l)
<1> USE DEF IInv
<1>1. /\ rows' = rows \ {r} /\ results' = results \cup {out}
      /\ l \in Lease /\ r \in Row /\ out \in Result
      /\ out.of = r.sub /\ out.by = l.sub /\ out.nr = l.nr
  BY DEF Settle, Outcome, Typed, Lease, Row, Result
<1> HIDE DEF out
<1>2. /\ job' \in [Workers -> SUBSET Lease] /\ job'[w] = {}
      /\ \A v \in Workers : v # w => job'[v] = job[v]
      /\ \A v \in Workers : job'[v] \subseteq job[v]
  BY ForgetMoves
<1>3. Remembers' <=> Remembers
  BY DEF Remembers
<1>4. \A s \in Subs : /\ InQueue(s)' <=> InQueue(s) /\ s # r.sub
                      /\ Recorded(s)' <=> Recorded(s) \/ s = r.sub
  <2>1. \A s \in Subs : InQueue(s)' <=> InQueue(s) /\ s # r.sub
    BY <1>1 DEF InQueue, RowsApart
  <2>2. \A s \in Subs : Recorded(s)' <=> Recorded(s) \/ s = r.sub
    BY <1>1 DEF Recorded
  <2>3. QED
    BY <2>1, <2>2
<1>5. Typed'
  BY <1>1, <1>2 DEF Typed
<1>6. OneJob' /\ RowsApart'
  BY <1>1, <1>2 DEF OneJob, RowsApart
<1>7. LeasesKnown'
  <2>1. SUFFICES ASSUME Remembers, NEW v \in Workers, NEW m \in job'[v]
                 PROVE  Known(m)'
    BY <1>3 DEF LeasesKnown
  <2>2. Known(m) /\ m \in Lease /\ m.sub \in Subs
    BY <2>1, <1>2 DEF LeasesKnown, Typed, Lease
  <2>3. (InQueue(m.sub) \/ Recorded(m.sub))'
    BY <2>2, <1>4 DEF Known
  <2>4. QED
    BY <2>2, <2>3, <1>1 DEF Known, Drawn
<1>8. LeasesApart'
  BY <1>2, <1>3 DEF LeasesApart
<1>9. Remembers => /\ r.sub = l.sub /\ l.nr = r.nr
                   /\ \A v \in Workers : v # w => \A m \in job[v] :
                        m.id = r.id => m.tok # r.tok /\ m.nr < r.nr
  <2>1. SUFFICES ASSUME Remembers
                 PROVE  /\ r.sub = l.sub /\ l.nr = r.nr
                        /\ \A v \in Workers : v # w => \A m \in job[v] :
                             m.id = r.id => m.tok # r.tok /\ m.nr < r.nr
    OBVIOUS
  <2>2. r.sub = l.sub /\ l.nr = r.nr
    BY <2>1 DEF LeasesKnown, Known, Drawn
  <2>3. ASSUME NEW v \in Workers, v # w, NEW m \in job[v], m.id = r.id
        PROVE  m.tok # r.tok /\ m.nr < r.nr
    <3>1. Drawn(m, r) /\ m.nr # l.nr /\ m \in Lease
      BY <2>1, <2>3 DEF LeasesKnown, Known, LeasesApart, Typed
    <3>2. QED
      BY <3>1, <2>2, <2>3, <1>1 DEF Drawn, Lease, Row
  <2>4. QED
    BY <2>2, <2>3
<1>10. TxHolds'
  <2>1. SUFFICES ASSUME NEW v \in tx, v # w
                 PROVE  durable /\ \E m \in job[v], q \in rows \ {r} : q.id = m.id /\ q.tok = m.tok
    BY <1>1, <1>2 DEF TxHolds, Typed
  <2>2. durable /\ Remembers /\ v \in Workers
    BY <2>1 DEF TxHolds, Remembers, Typed
  <2>3. PICK m \in job[v], q \in rows : q.id = m.id /\ q.tok = m.tok
    BY <2>1 DEF TxHolds
  <2>4. q # r
    BY <2>1, <2>2, <2>3, <1>9
  <2>5. QED
    BY <2>2, <2>3, <2>4
<1>11. NothingLost' /\ NotRunAgain'
  BY <1>4 DEF NothingLost, NotRunAgain, Typed
<1>12. NewestLeaseWins'
  <2>1. SUFFICES ASSUME Remembers, NEW o \in results'
                 PROVE  /\ o.of = o.by
                        /\ \A v \in Workers : \A m \in job'[v] : m.sub = o.of => m.nr < o.nr
    BY <1>3 DEF NewestLeaseWins
  <2>2. CASE o \in results
    BY <2>1, <2>2, <1>2 DEF NewestLeaseWins
  <2>3. CASE o = out
    <3>1. o.of = o.by
      BY <2>1, <2>3, <1>1, <1>9
    <3>2. ASSUME NEW v \in Workers, NEW m \in job'[v], m.sub = o.of
          PROVE  m.nr < o.nr
      <4>1. v # w /\ m \in job[v]
        BY <3>2, <1>2
      <4>2. m.id = r.id
        BY <2>1, <2>3, <3>2, <4>1, <1>1 DEF LeasesKnown, Known, Drawn
      <4>3. QED
        BY <2>1, <2>3, <4>1, <4>2, <1>1, <1>9
    <3>3. QED
      BY <3>1, <3>2
  <2>4. QED
    BY <2>2, <2>3, <1>1
<1>13. QED
  BY <1>5, <1>6, <1>7, <1>8, <1>10, <1>11, <1>12

LEMMA CompleteStep ==
  ASSUME IInv, NEW w \in Workers, CompleteInMemory(w) \/ CompleteCommit(w)
  PROVE  IInv'
<1> USE DEF IInv
<1>1. CASE CompleteInMemory(w)
  <2>1. PICK l \in job[w], r \in rows : Matches(r, l) /\ Settle(r, l)
    BY <1>1 DEF CompleteInMemory
  <2>2. tx' = tx \ {w}
    BY <1>1 DEF CompleteInMemory, TxHolds
  <2>3. QED
    BY <1>1, <2>1, <2>2, SettleStep DEF CompleteInMemory, Matches
<1>2. CASE CompleteCommit(w)
  <2>1. PICK l \in job[w], r \in rows : r.id = l.id /\ Settle(r, l)
    BY <1>2 DEF CompleteCommit
  <2>2. r.tok = l.tok
    BY <1>2, <2>1 DEF CompleteCommit, TxHolds, OneJob, RowsApart
  <2>3. QED
    BY <1>2, <2>1, <2>2, SettleStep DEF CompleteCommit
<1>3. QED
  BY <1>1, <1>2

\* Leasing a row writes its token, its window and the lease's number.
LEMMA LeaseEffect ==
  ASSUME Typed, NEW w \in Workers, LeaseTask(w)
  PROVE  \E r \in rows, leased \in Lease :
           /\ leased \in Row /\ leased.id = r.id /\ leased.sub = r.sub
           /\ leased.tok = tokSeq + 1 /\ leased.nr = leases + 1
           /\ ~Locked(r)
           /\ rows' = (rows \ {r}) \cup {leased}
           /\ job' = [job EXCEPT ![w] = {leased}] \/ job' = job
           /\ faults' \in 0..MaxFaults
<1>1. PICK r \in rows :
        /\ Leasable(w, r)
        /\ LET leased == [r EXCEPT !.tok = tokSeq + 1, !.left = Window, !.nr = leases + 1]
           IN /\ rows' = (rows \ {r}) \cup {leased}
              /\ \/ job' = [job EXCEPT ![w] = {leased}] /\ UNCHANGED faults
                 \/ Fault /\ UNCHANGED job
  BY DEF LeaseTask
<1>2. PICK leased : leased = [r EXCEPT !.tok = tokSeq + 1, !.left = Window, !.nr = leases + 1]
  OBVIOUS
<1>3. /\ rows' = (rows \ {r}) \cup {leased}
      /\ job' = [job EXCEPT ![w] = {leased}] \/ job' = job
  BY <1>1, <1>2, Zenon
<1>4. faults' \in 0..MaxFaults
  BY <1>1, QueueAssumption DEF Fault, Typed
<1>5. leases + 1 \in 1..MaxLeases /\ r \in Row /\ tokSeq + 1 \in Nat /\ Window \in 0..Window
  BY QueueAssumption DEF LeaseTask, Typed
<1>6. /\ leased \in Lease /\ leased \in Row
      /\ leased.id = r.id /\ leased.sub = r.sub
      /\ leased.tok = tokSeq + 1 /\ leased.nr = leases + 1
  <2>1. PICK t \in Nat, n \in 1..MaxLeases : t = tokSeq + 1 /\ n = leases + 1
    BY <1>5
  <2>2. leased = [r EXCEPT !.tok = t, !.left = Window, !.nr = n]
    BY <1>2, <2>1, Zenon
  <2>3. /\ leased \in Lease /\ leased \in Row
        /\ leased.id = r.id /\ leased.sub = r.sub /\ leased.tok = t /\ leased.nr = n
    <3>1. leased = [id |-> r.id, sub |-> r.sub, tok |-> t, left |-> Window, nr |-> n]
      <4>1. r \in Row
        BY <1>5
      <4>2. QED
        BY <4>1, <2>2 DEF Row
    <3>2. n \in 0..MaxLeases
      BY QueueAssumption
    <3>3. r.id \in Nat /\ r.sub \in Subs /\ Window \in 0..Window
      BY <1>5 DEF Row
    <3>4. QED
      BY <3>1, <3>2, <3>3 DEF Lease, Row
  <2>4. QED
    BY <2>1, <2>3
<1>7. ~Locked(r)
  BY <1>1 DEF Leasable, Visible
<1>8. QED
  BY <1>3, <1>4, <1>6, <1>7

\* A lease gets a token and a number above every other one; a row that a
\* Complete holds is passed over.
LEMMA LeaseStep ==
  ASSUME IInv, NEW w \in Workers, LeaseTask(w)
  PROVE  IInv'
<1> USE QueueAssumption DEF IInv
<1>1. PICK r \in rows, leased \in Lease :
        /\ leased \in Row /\ leased.id = r.id /\ leased.sub = r.sub
        /\ leased.tok = tokSeq + 1 /\ leased.nr = leases + 1
        /\ ~Locked(r)
        /\ rows' = (rows \ {r}) \cup {leased}
        /\ job' = [job EXCEPT ![w] = {leased}] \/ job' = job
        /\ faults' \in 0..MaxFaults
  BY LeaseEffect
<1>2. /\ UNCHANGED <<durable, results, accepted, tx, restarts>> /\ job[w] = {}
      /\ leases' = leases + 1 /\ leases' \in 0..MaxLeases
      /\ tokSeq' = tokSeq + 1 /\ idSeq' \in Nat /\ idSeq' >= idSeq
  BY DEF LeaseTask, NextToken, Typed
<1>3. /\ job' \in [Workers -> SUBSET Lease]
      /\ job'[w] \subseteq {leased}
      /\ \A v \in Workers : v # w => job'[v] = job[v]
  BY <1>1, <1>2 DEF Typed
<1>4. Remembers' <=> Remembers
  BY <1>2 DEF Remembers
<1>5. \A s \in Subs : (InQueue(s)' <=> InQueue(s)) /\ (Recorded(s)' <=> Recorded(s))
  BY <1>1, <1>2 DEF InQueue, Recorded
<1>6. Typed'
  BY <1>1, <1>2, <1>3 DEF Typed
<1>7. OneJob'
  BY <1>3 DEF OneJob
<1>8. RowsApart'
  <2>1. \A q \in rows : q.id \in Nat /\ q.id <= idSeq
    BY DEF Typed, Row, RowsApart
  <2>2. \A q \in rows' : q.id <= idSeq'
    BY <2>1, <1>1, <1>2 DEF Typed
  <2>3. \A p, q \in rows' : p.id = q.id \/ p.sub = q.sub => p = q
    BY <1>1 DEF RowsApart
  <2>4. QED
    BY <2>2, <2>3 DEF RowsApart
<1>9. LeasesKnown'
  <2>1. SUFFICES ASSUME Remembers, NEW v \in Workers, NEW m \in job'[v]
                 PROVE  Known(m)'
    BY <1>4 DEF LeasesKnown
  <2>2. CASE m = leased
    <3>1. \A q \in rows' : Drawn(m, q)
      BY <2>2, <1>1 DEF Drawn, RowsApart, Typed, Row, Lease
    <3>2. m.id <= idSeq'
      BY <2>2, <1>1, <1>2 DEF RowsApart, Typed, Row
    <3>3. m.tok <= tokSeq' /\ m.nr <= leases'
      BY <2>2, <1>1, <1>2 DEF Typed
    <3>4. InQueue(m.sub)'
      BY <2>2, <1>1 DEF InQueue
    <3>5. QED
      BY <3>1, <3>2, <3>3, <3>4 DEF Known
  <2>3. CASE m \in job[v]
    <3>1. Known(m) /\ m \in Lease /\ m.sub \in Subs
      BY <2>1, <2>3 DEF LeasesKnown, Typed, Lease
    <3>2. Drawn(m, leased)
      <4>1. Drawn(m, r)
        BY <3>1 DEF Known
      <4>2. m.tok # leased.tok /\ m.nr <= leased.nr
        BY <3>1, <1>1 DEF Known, Typed, Lease
      <4>3. QED
        BY <4>1, <4>2, <1>1 DEF Drawn
    <3>3. \A q \in rows' : Drawn(m, q)
      BY <3>1, <3>2, <1>1 DEF Known
    <3>4. m.id <= idSeq' /\ m.tok <= tokSeq' /\ m.nr <= leases'
      BY <3>1, <1>2 DEF Known, Typed, Lease
    <3>5. (InQueue(m.sub) \/ Recorded(m.sub))'
      BY <3>1, <1>5 DEF Known
    <3>6. QED
      BY <3>3, <3>4, <3>5 DEF Known
  <2>4. QED
    BY <2>1, <2>2, <2>3, <1>3
<1>10. LeasesApart'
  <2>1. SUFFICES ASSUME Remembers, NEW u \in Workers, NEW v \in Workers, u # v,
                        NEW l \in job'[u], NEW m \in job'[v]
                 PROVE  l.nr # m.nr
    BY <1>4 DEF LeasesApart
  <2>2. \A x \in Workers : \A k \in job[x] : k.nr # leased.nr
    BY <2>1, <1>1 DEF LeasesKnown, Known, Typed, Lease
  <2>3. CASE u = w
    BY <2>1, <2>2, <2>3, <1>3
  <2>4. CASE v = w
    BY <2>1, <2>2, <2>4, <1>3
  <2>5. CASE u # w /\ v # w
    BY <2>1, <2>5, <1>3 DEF LeasesApart
  <2>6. QED
    BY <2>3, <2>4, <2>5
<1>11. TxHolds'
  <2>1. SUFFICES ASSUME NEW v \in tx
                 PROVE  durable /\ \E m \in job'[v], q \in rows' : q.id = m.id /\ q.tok = m.tok
    BY <1>2 DEF TxHolds
  <2>2. PICK m \in job[v], q \in rows : q.id = m.id /\ q.tok = m.tok
    BY <2>1 DEF TxHolds
  <2>3. v # w /\ job'[v] = job[v]
    BY <2>2, <1>2, <1>3 DEF Typed
  <2>4. q # r
    BY <1>1, <2>1, <2>2 DEF Locked
  <2>5. QED
    BY <2>1, <2>2, <2>3, <2>4, <1>1 DEF TxHolds
<1>12. NothingLost' /\ NotRunAgain'
  BY <1>2, <1>5 DEF NothingLost, NotRunAgain, Typed
<1>13. NewestLeaseWins'
  <2>1. SUFFICES ASSUME Remembers, NEW o \in results
                 PROVE  /\ o.of = o.by
                        /\ \A v \in Workers : \A m \in job'[v] : m.sub = o.of => m.nr < o.nr
    BY <1>2, <1>4 DEF NewestLeaseWins
  <2>2. leased.sub # o.of
    BY <2>1, <1>1 DEF NotRunAgain, InQueue, Recorded, Typed, Row
  <2>3. QED
    BY <2>1, <2>2, <1>3 DEF NewestLeaseWins
<1>14. QED
  BY <1>6, <1>7, <1>8, <1>9, <1>10, <1>11, <1>12, <1>13

\* A tick changes what is left of a window and nothing else.
LEMMA TickFields ==
  /\ \A r \in Row : /\ Tick(r) \in Row /\ Tick(r).id = r.id /\ Tick(r).sub = r.sub
                    /\ Tick(r).tok = r.tok /\ Tick(r).nr = r.nr
  /\ \A l \in Lease : /\ Tick(l) \in Lease /\ Tick(l).id = l.id /\ Tick(l).sub = l.sub
                      /\ Tick(l).tok = l.tok /\ Tick(l).nr = l.nr
BY QueueAssumption DEF Tick, Row, Lease

LEMMA ClockStep ==
  ASSUME IInv, Clock
  PROVE  IInv'
<1> USE QueueAssumption DEF IInv
<1>1. /\ rows' = {Tick(r) : r \in rows}
      /\ job' = [w \in Workers |-> {Tick(l) : l \in job[w]}]
      /\ UNCHANGED <<durable, results, idSeq, tokSeq, accepted, tx, leases, restarts>>
      /\ faults' \in 0..MaxFaults
  BY DEF Clock, Fault, Typed
<1>2. \A q \in rows' : \E r \in rows : q = Tick(r)
  BY <1>1
<1>3. \A w \in Workers : \A m \in job'[w] : \E l \in job[w] : m = Tick(l)
  BY <1>1
<1>4. /\ \A r \in rows : Tick(r) \in rows'
      /\ \A w \in Workers : \A l \in job[w] : Tick(l) \in job'[w]
  BY <1>1
<1>5. Remembers' <=> Remembers
  BY <1>1 DEF Remembers
<1>6. \A s \in Subs : (InQueue(s)' <=> InQueue(s)) /\ (Recorded(s)' <=> Recorded(s))
  BY <1>1, <1>2, <1>4, TickFields DEF InQueue, Recorded, Typed
<1>7. Typed'
  <2>1. rows' \subseteq Row
    BY <1>2, TickFields DEF Typed
  <2>2. \A w \in Workers : {Tick(l) : l \in job[w]} \subseteq Lease
    BY TickFields DEF Typed
  <2>3. job' \in [Workers -> SUBSET Lease]
    BY <2>2, <1>1
  <2>4. QED
    BY <2>1, <2>3, <1>1 DEF Typed
<1>8. OneJob'
  BY <1>3 DEF OneJob
<1>9. RowsApart'
  BY <1>1, <1>2, TickFields DEF RowsApart, Typed
<1>10. LeasesKnown'
  <2>1. SUFFICES ASSUME Remembers, NEW v \in Workers, NEW m \in job'[v]
                 PROVE  Known(m)'
    BY <1>5 DEF LeasesKnown
  <2>2. PICK l \in job[v] : m = Tick(l)
    BY <1>3
  <2>3. Known(l) /\ l \in Lease /\ l.sub \in Subs
    BY <2>1 DEF LeasesKnown, Typed, Lease
  <2>4. m.id = l.id /\ m.sub = l.sub /\ m.tok = l.tok /\ m.nr = l.nr
    BY <2>2, <2>3, TickFields
  <2>5. ASSUME NEW q \in rows'
        PROVE  Drawn(m, q)
    <3>1. PICK r \in rows : q = Tick(r)
      BY <1>2
    <3>2. Drawn(l, r) /\ r \in Row
      BY <2>3 DEF Known, Typed
    <3>3. q.id = r.id /\ q.sub = r.sub /\ q.tok = r.tok /\ q.nr = r.nr
      BY <3>1, <3>2, TickFields
    <3>4. QED
      BY <3>2, <3>3, <2>4 DEF Drawn
  <2>6. (InQueue(m.sub) \/ Recorded(m.sub))'
    BY <2>3, <2>4, <1>6 DEF Known
  <2>7. QED
    BY <2>3, <2>4, <2>5, <2>6, <1>1 DEF Known
<1>11. LeasesApart'
  BY <1>3, <1>5, TickFields DEF LeasesApart, Typed
<1>12. TxHolds'
  <2>1. SUFFICES ASSUME NEW v \in tx
                 PROVE  durable /\ \E m \in job'[v], q \in rows' : q.id = m.id /\ q.tok = m.tok
    BY <1>1 DEF TxHolds
  <2>2. PICK l \in job[v], r \in rows : r.id = l.id /\ r.tok = l.tok
    BY <2>1 DEF TxHolds
  <2>3. l \in Lease /\ r \in Row /\ v \in Workers
    BY <2>2 DEF Typed
  <2>4. /\ Tick(l) \in job'[v] /\ Tick(r) \in rows'
        /\ Tick(r).id = Tick(l).id /\ Tick(r).tok = Tick(l).tok
    BY <2>2, <2>3, <1>4, TickFields
  <2>5. QED
    BY <2>1, <2>4 DEF TxHolds
<1>13. NothingLost' /\ NotRunAgain'
  BY <1>1, <1>6 DEF NothingLost, NotRunAgain, Typed
<1>14. NewestLeaseWins'
  BY <1>1, <1>3, <1>5, TickFields DEF NewestLeaseWins, Typed
<1>15. QED
  BY <1>7, <1>8, <1>9, <1>10, <1>11, <1>12, <1>13, <1>14

---------------------------------------------------------------------------
(* The theorems.                                                           *)

LEMMA IInvInit == Init => IInv
BY QueueAssumption DEF Init, IInv, Typed, OneJob, RowsApart, LeasesKnown, LeasesApart, TxHolds,
   NothingLost, NotRunAgain, NewestLeaseWins, InQueue

LEMMA IInvNext == IInv /\ [Next]_vars => IInv'
<1> SUFFICES ASSUME IInv, [Next]_vars PROVE IInv'
  OBVIOUS
<1>1. ASSUME NEW s \in Subs, Enqueue(s) PROVE IInv'
  BY <1>1, EnqueueStep
<1>2. ASSUME NEW w \in Workers, WorkerStep(w) PROVE IInv'
  BY <1>2, LeaseStep, ForgetStep, CompleteStep, DeleteStep DEF WorkerStep
<1>3. ASSUME NEW w \in Workers, CompleteRollback(w) \/ WorkerDies(w) PROVE IInv'
  BY <1>3, ForgetStep
<1>4. CASE Clock
  BY <1>4, ClockStep
<1>5. CASE Restart
  BY <1>5, RestartStep
<1>6. CASE UNCHANGED vars
  <2>1. /\ job' \in [Workers -> SUBSET Lease] /\ faults' \in 0..MaxFaults
        /\ restarts' \in 0..MaxRestarts /\ (Remembers' => Remembers)
    BY <1>6 DEF vars, IInv, Typed, Remembers
  <2>2. QED
    BY <1>6, <2>1, Fewer DEF vars
<1>7. QED
  BY <1>1, <1>2, <1>3, <1>4, <1>5, <1>6 DEF Next

LEMMA IInvAlways == Spec => []IInv
BY IInvInit, IInvNext, PTL DEF Spec

\* Types hold and a worker runs at most one task.
THEOREM QueueTypeCorrect == Spec => []TypeOK
<1>1. IInv => TypeOK
  <2> SUFFICES ASSUME IInv, NEW w \in Workers PROVE Cardinality(job[w]) <= 1
    BY DEF IInv, Typed, TypeOK
  <2>1. job[w] = {} \/ \E l \in job[w] : job[w] = {l}
    BY DEF IInv, OneJob
  <2>2. CASE job[w] = {}
    <3>1. Cardinality(job[w]) = 0
      BY <2>2, FS_EmptySet
    <3>2. QED
      BY <3>1
  <2>3. ASSUME NEW l \in job[w], job[w] = {l} PROVE Cardinality(job[w]) <= 1
    <3>1. Cardinality(job[w]) = 1
      BY <2>3, FS_Singleton, Zenon
    <3>2. QED
      BY <3>1
  <2>4. QED
    BY <2>1, <2>2, <2>3
<1>2. QED
  BY <1>1, IInvAlways, PTL

\* agent_task_store.go: an acknowledged task is queued or has its outcome
\* recorded, whatever answers, workers, commits and daemons are lost.
THEOREM NoTaskIsLost == Spec => []NothingLost
<1>1. IInv => NothingLost
  BY DEF IInv
<1>2. QED
  BY <1>1, IInvAlways, PTL

\* Complete removes the row with the result it records: no completed task is
\* queued, so none is leased again.
THEOREM CompletedStaysCompleted == Spec => []NotRunAgain
<1>1. IInv => NotRunAgain
  BY DEF IInv
<1>2. QED
  BY <1>1, IInvAlways, PTL

\* The recorded outcome is that of the task's newest lease, and every lease
\* still held for the task is older.
THEOREM NoClobber == Spec => []NewestLeaseWins
<1>1. IInv => NewestLeaseWins
  BY DEF IInv
<1>2. QED
  BY <1>1, IInvAlways, PTL

============================================================================
