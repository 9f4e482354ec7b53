--------------------------- MODULE DispatchStore ---------------------------
(***************************************************************************)
(* The tracker_dispatches and tracker_dispatch_warnings tables and the     *)
(* statements the dispatcher runs on them (internal/tracker/               *)
(* dispatch_store.go).  Every operator that primes a variable is ONE SQL   *)
(* statement: it is atomic, and its guard is the statement's WHERE clause  *)
(* or index.  A row and its run are one to one (RunID is minted for the    *)
(* insert), so a member of Rows names both.                                *)
(*                                                                         *)
(* Timestamps are abstracted to ages.  The sweep only ever compares        *)
(* now - created_at (QUEUED) or now - started_at (RUNNING) with two        *)
(* constants, so age[r] is that difference, saturated at MaxAge, and is    *)
(* reset by the statements that stamp the two columns.                     *)
(***************************************************************************)
EXTENDS Naturals, FiniteSets

CONSTANTS Issues,   \* issue numbers of one tracker connection
          Rows,     \* dispatch ids; a finite supply bounds the model
          Scopes,   \* scope:<role> suffixes, as numbers in their sort order
          MaxAge    \* where ages saturate

ASSUME StoreAssumption == /\ Scopes \subseteq Nat
                          /\ MaxAge \in Nat
                          /\ Issues # {}
                          /\ Scopes # {}

VARIABLES st,       \* [Rows -> States]
          issueOf,  \* [Rows -> Issues]
          scopeOf,  \* [Rows -> Scopes]
          cause,    \* [Rows -> Causes], the typed failure
          pending,  \* [Rows -> BOOLEAN], labels_pending
          age,      \* [Rows -> 0..MaxAge]
          warned    \* set of <<issue, scope>>: tracker_dispatch_warnings

storeVars == <<st, issueOf, scopeOf, cause, pending, age, warned>>

ActiveStates   == {"queued", "running"}
TerminalStates == {"done", "failed"}
States         == {"absent", "deleted"} \cup ActiveStates \cup TerminalStates
Failures       == {"start_error", "run_error", "timeout", "lease_lost"}
Causes         == {"none"} \cup Failures

StoreTypeOK ==
  /\ st \in [Rows -> States]
  /\ issueOf \in [Rows -> Issues]
  /\ scopeOf \in [Rows -> Scopes]
  /\ cause \in [Rows -> Causes]
  /\ pending \in [Rows -> BOOLEAN]
  /\ age \in [Rows -> 0..MaxAge]
  /\ warned \subseteq Issues \X Scopes

StoreInit ==
  /\ st = [r \in Rows |-> "absent"]
  /\ issueOf = [r \in Rows |-> CHOOSE i \in Issues : TRUE]
  /\ scopeOf = [r \in Rows |-> CHOOSE s \in Scopes : TRUE]
  /\ cause = [r \in Rows |-> "none"]
  /\ pending = [r \in Rows |-> FALSE]
  /\ age = [r \in Rows |-> 0]
  /\ warned = {}

Active(r)      == st[r] \in ActiveStates
RowsIn(s)      == {r \in Rows : st[r] = s}
ActiveRows(i)  == {r \in Rows : issueOf[r] = i /\ Active(r)}

\* validDispatchTransition: out of an active state only, forward only.
ValidDispatchTransition(from, to) ==
  \/ from = "queued" /\ to \in {"running", "done", "failed"}
  \/ from = "running" /\ to \in {"done", "failed"}

\* The partial unique index tracker_dispatches_active.
IndexAdmits_QueuedOnly(i) == \A r \in ActiveRows(i) : st[r] # "queued"
IndexAdmits(i) == ActiveRows(i) = {}

InsertDispatch(r, i, s) ==
  /\ st[r] = "absent"
  /\ IndexAdmits(i)
  /\ st' = [st EXCEPT ![r] = "queued"]
  /\ issueOf' = [issueOf EXCEPT ![r] = i]
  /\ scopeOf' = [scopeOf EXCEPT ![r] = s]
  /\ age' = [age EXCEPT ![r] = 0]
  /\ UNCHANGED <<cause, pending, warned>>

\* UPDATE ... WHERE state = from: a compare-and-set that wins.
Moves_NoWhere(r, from, to) ==
  /\ st' = [st EXCEPT ![r] = to]
  /\ age' = [age EXCEPT ![r] = 0]
  /\ UNCHANGED <<issueOf, scopeOf, pending, warned>>
Moves(r, from, to) ==
  /\ ValidDispatchTransition(from, to)
  /\ st[r] = from
  /\ st' = [st EXCEPT ![r] = to]
  /\ age' = [age EXCEPT ![r] = 0]
  /\ UNCHANGED <<issueOf, scopeOf, pending, warned>>

TransitionDispatch(r, from, to) == Moves(r, from, to) /\ UNCHANGED cause

FailDispatch(r, from, why) ==
  /\ Moves(r, from, "failed")
  /\ cause' = [cause EXCEPT ![r] = why]

\* DELETE ... WHERE state = 'queued'; a row that moved on is left alone.
\* The id is never used again.
DeleteQueuedDispatch_Soft(r) ==
  /\ st' = IF st[r] = "queued" THEN [st EXCEPT ![r] = "abandoned"] ELSE st
  /\ UNCHANGED <<issueOf, scopeOf, cause, pending, age, warned>>
DeleteQueuedDispatch(r) ==
  /\ st' = IF st[r] = "queued" THEN [st EXCEPT ![r] = "deleted"] ELSE st
  /\ UNCHANGED <<issueOf, scopeOf, cause, pending, age, warned>>

SetDispatchLabelsPending(r) ==
  /\ pending' = [pending EXCEPT ![r] = TRUE]
  /\ UNCHANGED <<st, issueOf, scopeOf, cause, age, warned>>

\* INSERT ... ON CONFLICT DO NOTHING; TRUE only for the row's inserter.
RecordDispatchWarning(i, s) ==
  /\ warned' = warned \cup {<<i, s>>}
  /\ UNCHANGED <<st, issueOf, scopeOf, cause, pending, age>>

ForgetDispatchWarning(i, s) ==
  /\ warned' = warned \ {<<i, s>>}
  /\ UNCHANGED <<st, issueOf, scopeOf, cause, pending, age>>

\* One unit of time passes for every active row.
Ages ==
  /\ age' = [r \in Rows |-> IF Active(r) /\ age[r] < MaxAge THEN age[r] + 1 ELSE age[r]]
  /\ UNCHANGED <<st, issueOf, scopeOf, cause, pending, warned>>
============================================================================
