----------------------------- MODULE RouteEdge -----------------------------
(***************************************************************************)
(* The public route of one box in the three places that know it: the       *)
(* routes table (the source of truth), the in-memory wake tracker (whether *)
(* the route points at the daemon's wake handler) and Caddy's running      *)
(* configuration. RouteSyncJob reconciles Caddy with the other two, one    *)
(* admin-API call at a time, while the daemon's handlers write to all.     *)
(***************************************************************************)

CONSTANT Waf       \* is the opt-in WAF on?

ASSUME WafAssumption == Waf \in BOOLEAN

VARIABLES row,      \* the routes table holds an active route for the box
          tracker,  \* WakeStateTracker holds the box
          caddy,    \* Caddy's upstream for the host, or "stub": a restarted
                    \* Caddy, reverted to its stub Caddyfile
          sync      \* the tick of RouteSyncJob that is under way

edge == <<row, tracker, caddy>>

Upstreams == {"none", "wake", "direct"}

\* The tick is idle, or about to add the route for an upstream it has chosen.
Syncs == {"idle", "wake", "direct"}

EdgeTypeOK ==
  /\ row \in BOOLEAN /\ tracker \in BOOLEAN
  /\ caddy \in Upstreams \cup {"stub"}
  /\ sync \in Syncs

EdgeInit ==
  /\ row = TRUE /\ tracker = FALSE /\ caddy = "direct"
  /\ sync = "idle"

effectiveUpstream_NoTracker(r) == IF r THEN "direct" ELSE "none"

\* The upstream the sync pushes for what it read of the routes table.
effectiveUpstream(r) ==
  IF ~r THEN "none" ELSE IF tracker THEN "wake" ELSE "direct"

---------------------------------------------------------------------------
(* The stores and Caddy's admin API.                                       *)

SaveRoute == ~row /\ row' = TRUE /\ UNCHANGED <<tracker, caddy>>
DeleteRow == row /\ row' = FALSE /\ UNCHANGED <<tracker, caddy>>

MarkWakeMode == tracker' = TRUE /\ UNCHANGED <<row, caddy>>
ClearWakeMode == tracker' = FALSE /\ UNCHANGED <<row, caddy>>

RemoveRoute ==
  /\ caddy' = IF caddy = "stub" THEN "stub" ELSE "none"
  /\ UNCHANGED <<row, tracker>>

\* Caddy refuses a second route with the same id, and any route while it
\* runs the stub.
AddRoute(u) ==
  /\ caddy' = IF caddy = "none" THEN u ELSE caddy
  /\ UNCHANGED <<row, tracker>>

\* RemoveRoute, then AddRoute. The add of a sync tick that falls between the
\* two is the one that counts.
UpdateRoute(u) ==
  /\ IF caddy = "stub"
     THEN UNCHANGED <<caddy, sync>>
     ELSE \/ caddy' = u /\ UNCHANGED sync
          \/ sync # "idle" /\ caddy' = sync /\ sync' = "idle"
  /\ UNCHANGED <<row, tracker>>

CaddyRestarts == caddy # "stub" /\ caddy' = "stub" /\ UNCHANGED <<row, tracker>>

---------------------------------------------------------------------------
(* RouteSyncJob.sync for this host.                                        *)

\* The upstream ListRoutes reads from Caddy's route: that of the first handler,
\* which is the WAF and has none when the WAF is on.
ListRoutes(live) == IF Waf /\ live # "none" THEN "unread" ELSE live

SyncDiff_AddsOnly ==
  /\ sync = "idle"
  /\ LET want == effectiveUpstream(row)
     IN /\ caddy' = IF caddy = "stub" \/ want = "none" THEN "none" ELSE caddy
        /\ sync' = IF want # "none" /\ caddy \in {"stub", "none"} THEN want ELSE "idle"
  /\ UNCHANGED <<row, tracker>>

\* EnsureBaseConfig rebuilds a reverted Caddy; then the rows and Caddy's routes
\* are listed and compared: a route without a row is removed, a missing one is
\* to be added, one that lists with another upstream removed and then added.
SyncDiff ==
  /\ sync = "idle"
  /\ LET want == effectiveUpstream(row)
         live == IF caddy = "stub" THEN "none" ELSE caddy
     IN /\ caddy' = IF ListRoutes(live) = want THEN live ELSE "none"
        /\ sync' = IF want \in {ListRoutes(live), "none"} THEN "idle" ELSE want
  /\ UNCHANGED <<row, tracker>>

SyncAdd ==
  /\ sync # "idle"
  /\ AddRoute(sync)
  /\ sync' = "idle"

\* A call of the tick fails: a route is not removed before it is added, which
\* Caddy then refuses, or is not added.
SyncCallFails ==
  /\ \/ /\ sync = "idle" /\ row
        /\ caddy \in {"wake", "direct"} /\ ListRoutes(caddy) # effectiveUpstream(row)
        /\ sync' = effectiveUpstream(row)
     \/ sync # "idle" /\ sync' = "idle"
  /\ UNCHANGED edge

SyncStep == SyncDiff \/ SyncAdd
=============================================================================
