------------------------------ MODULE BoxHost ------------------------------
(***************************************************************************)
(* One tenant box as Incus keeps it: its state, and the configuration keys *)
(* under user.containarium.* that the daemon's background loops read.      *)
(* There is no clock. A deadline is unset, still ahead, or past, and the   *)
(* passing of a deadline is an action of its own.                          *)
(***************************************************************************)

\* st        the Incus state of the instance
\* sleepy    auto-sleep is enabled
\* ttl       the absolute expiry, ttl_expires_at
\* protected delete-policy = protected
\* stopAt    stopped_at, measured against the box's delete-after-stopped
\*           window: a box opts in at creation, and this one did
\* signal    what auto-sleep knows of the use of the box: "none" when it has
\*           no last_started_at and no connection of its name was recorded,
\*           "recent" when it was started or had an open connection within
\*           the threshold, "idle" when that was longer ago
\* asleep    history: auto-sleep stopped this box after it had swapped the
\*           box's route to the wake handler; "orphaned" once the daemon that
\*           did so is gone
VARIABLE box

Deadline == {"none", "ahead", "past"}
Signals == {"none", "recent", "idle"}

Boxes == [st : {"absent", "running", "stopped"}, sleepy : BOOLEAN,
          ttl : Deadline, protected : BOOLEAN, stopAt : Deadline,
          signal : Signals, asleep : {"no", "yes", "orphaned"}]

\* last_started_at is stamped by a start and not at creation: what is known of
\* the use of a new box are the connections recorded under its name.
NewBox(sleepy, ttl, signal) ==
  [st |-> "running", sleepy |-> sleepy, ttl |-> ttl, protected |-> FALSE,
   stopAt |-> "none", signal |-> signal, asleep |-> "no"]

NoBox == [NewBox(FALSE, "none", "none") EXCEPT !.st = "absent"]

Exists == box.st # "absent"
Running == box.st = "running"
Stopped == box.st = "stopped"

---------------------------------------------------------------------------
(* What the two background loops decide from one listing of the box.       *)

\* ttlsweeper.Decide: the absolute TTL fires whatever the box does, the
\* stopped-to-delete timer only on a stopped box, neither on a protected one.
Expired ==
  /\ ~box.protected
  /\ box.ttl = "past" \/ (Stopped /\ box.stopAt = "past")

\* autosleep.Decide: opted in, running, past the anti-thrash window of two
\* thresholds since its last start, and without traffic for one threshold.
\* A box of which neither is known is left alone.
Sleepable == Running /\ box.sleepy /\ box.signal = "idle"

---------------------------------------------------------------------------
(* Incus. It refuses to start an instance that is running, to stop one     *)
(* that is not, and to delete one that is not stopped.                     *)

IncusStart == Stopped /\ box' = [box EXCEPT !.st = "running", !.asleep = "no"]
IncusStop(asleep) ==
  Running /\ box' = [box EXCEPT !.st = "stopped", !.asleep = asleep]
IncusDelete == Stopped /\ box' = NoBox

\* A configuration write; one for an instance that is gone fails and is
\* only logged.
Stamp(new) == box' = IF Exists THEN new ELSE box

\* StartContainer stamps last_started_at and clears stopped_at.
StampStarted == Stamp([box EXCEPT !.signal = "recent", !.stopAt = "none"])

\* StopContainer stamps stopped_at, whatever the state is by then.
StampStopped == Stamp([box EXCEPT !.stopAt = "ahead"])

---------------------------------------------------------------------------
(* Requests that only write the box's configuration.                       *)

\* The name may be that of a deleted box, whose connections stay recorded.
CreateContainer ==
  /\ ~Exists
  /\ \E sleepy \in BOOLEAN, ttl \in {"none", "ahead"}, signal \in Signals :
       box' = NewBox(sleepy, ttl, signal)

SetContainerTTL ==
  /\ Exists
  /\ \E t \in {"none", "ahead"} : t # box.ttl /\ box' = [box EXCEPT !.ttl = t]

ToggleAutoSleep == Exists /\ box' = [box EXCEPT !.sleepy = ~@]

SetContainerDeletePolicy == Exists /\ box' = [box EXCEPT !.protected = ~@]

---------------------------------------------------------------------------
(* Time and the guest.                                                     *)

TTLPasses == box.ttl = "ahead" /\ box' = [box EXCEPT !.ttl = "past"]
WindowPasses == box.stopAt = "ahead" /\ box' = [box EXCEPT !.stopAt = "past"]
GoesIdle == box.signal = "recent" /\ box' = [box EXCEPT !.signal = "idle"]

\* LastNetworkActivity: any connection of the box is activity for as long as it
\* is open, a proxied request, an SSH or exec session, or one the box opened.
Traffic == Running /\ box.signal # "recent" /\ box' = [box EXCEPT !.signal = "recent"]

\* The guest powers itself off. No handler runs, so nothing is stamped.
PowerOff == IncusStop("no")
=============================================================================
