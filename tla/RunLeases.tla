----------------------------- MODULE RunLeases -----------------------------
(***************************************************************************)
(* What the daemon holds of a dispatched run: the dispatchedRuns registry  *)
(* (internal/server/tracker_dispatch_leases.go) and the run's credentials  *)
(* (internal/runlease, AgentSkillServer.endRunLease).  All of it is memory *)
(* of one process except the credentials, which are JWTs: they stay usable *)
(* until they are revoked, whatever happens to the daemon.                 *)
(* A run has the name of its dispatch row.                                 *)
(***************************************************************************)
EXTENDS DispatchStore

VARIABLES tracked,  \* subset of Rows: dispatchedRuns.runs
          lease,    \* [Rows -> LeaseStates]: dispatchedRun.lease / .ended
          creds     \* [Rows -> CredStates]: the run's JWTs

leaseVars == <<tracked, lease, creds>>

LeaseStates == {"nil", "held", "ended"}
\* "lost": unrevoked JWTs of a run whose daemon process died.
CredStates  == {"none", "live", "revoked", "lost"}

LeaseTypeOK ==
  /\ tracked \subseteq Rows
  /\ lease \in [Rows -> LeaseStates]
  /\ creds \in [Rows -> CredStates]

LeaseInit ==
  /\ tracked = {}
  /\ lease = [r \in Rows |-> "nil"]
  /\ creds = [r \in Rows |-> "none"]

Live(r) == r \in tracked

Track(r) == tracked' = tracked \cup {r} /\ UNCHANGED <<lease, creds>>

\* provisionSkillBox mints the run's JWTs and seeds them into the box.
Mint(r) == creds' = [creds EXCEPT ![r] = "live"] /\ UNCHANGED <<tracked, lease>>

\* A failed provisioning ends the partial lease itself, and StartRun's
\* deferred untrack lets go of the run.
ProvisionUnwinds(r, revokes) ==
  /\ tracked' = tracked \ {r}
  /\ creds' = IF creds[r] = "live" /\ revokes THEN [creds EXCEPT ![r] = "revoked"] ELSE creds
  /\ UNCHANGED lease

SetLease(r) == lease' = [lease EXCEPT ![r] = "held"] /\ UNCHANGED <<tracked, creds>>

\* endDispatchedLease: once, and only for a lease already set.  revokes is
\* whether the revocation store took the jtis (runlease.End never aborts).
EndDispatchedLease(r, revokes) ==
  /\ lease' = IF lease[r] = "held" THEN [lease EXCEPT ![r] = "ended"] ELSE lease
  /\ creds' = IF lease[r] = "held" /\ revokes THEN [creds EXCEPT ![r] = "revoked"] ELSE creds
  /\ UNCHANGED tracked

\* RunLeases.End, the sweep's entry: a no-op for a run this daemon does
\* not hold or that is still provisioning.
End(r, revokes) ==
  IF Live(r) THEN EndDispatchedLease(r, revokes) ELSE UNCHANGED leaseVars

\* The start report lost: end the lease once and let go of the run.
TearDown(r, revokes) ==
  /\ lease' = IF lease[r] = "held" THEN [lease EXCEPT ![r] = "ended"] ELSE lease
  /\ creds' = IF lease[r] = "held" /\ revokes THEN [creds EXCEPT ![r] = "revoked"] ELSE creds
  /\ tracked' = tracked \ {r}

Untrack(r) == tracked' = tracked \ {r} /\ UNCHANGED <<lease, creds>>

\* The process dies: the registry is gone, unrevoked JWTs are not.
ProcessDies ==
  /\ tracked' = {}
  /\ lease' = [r \in Rows |-> "nil"]
  /\ creds' = [r \in Rows |-> IF creds[r] = "live" THEN "lost" ELSE creds[r]]
============================================================================
