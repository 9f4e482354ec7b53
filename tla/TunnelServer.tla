---------------------------- MODULE TunnelServer ----------------------------
(***************************************************************************)
(* internal/sentinel/tunnel_server.go over the tunnel registry, with the   *)
(* backend pool its callbacks write (backend.go).  One connection from a   *)
(* spot is one handleConnection goroutine and then one monitorSession      *)
(* goroutine, named by the generation the registry gave it; pc is where it *)
(* is.  The locks are those of the code: the registry's, ts.mu around the  *)
(* listeners, and the pool's.  The three are never held together, so the   *)
(* steps of two generations of a spot interleave between them.             *)
(***************************************************************************)
EXTENDS TunnelRegistry

CONSTANTS Faults,   \* of {"alias", "response", "bind"}: what may fail
          Prompt    \* a spot connects again only after the goroutines of its
                    \* last connection have left the handshake and the callbacks

ASSUME ServerAssumption ==
  Faults \subseteq {"alias", "response", "bind"} /\ Prompt \in BOOLEAN

VARIABLES conn,     \* the spot a generation belongs to
          pc,
          got,      \* the registration that registry.Get returned to it
          proxies,  \* the generation whose listeners a spot has, 0 for none
          ears,     \* where the listeners of a generation are: at the spot's own
                    \* address, at 127.0.0.1, or nowhere since binding failed;
                    \* "none" before they are opened and after they are closed
          pool      \* BackendPool: the registration a spot's backend was made from

serverVars == <<conn, pc, got, proxies, ears>>
vars == <<registryVars, serverVars, pool>>

Handshake == {"respond", "proxies", "get", "notify"}
Steps == Handshake \cup {"none", "monitor", "unregister", "disconnect", "done"}

\* A generation belongs to one spot and is at one step of its goroutines.
TypeOK ==
  /\ RegistryTypeOK
  /\ conn \in [Gens -> Spots \cup {"none"}]
  /\ pc \in [Gens -> Steps]
  /\ \A g \in Gens : pc[g] = "none" <=> g > nextGen
  /\ got \in [Gens -> 0 .. MaxGen]
  /\ proxies \in [Spots -> 0 .. nextGen] /\ pool \in [Spots -> 0 .. nextGen]
  /\ ears \in [Gens -> {"none", "own", "localhost", "failed"}]

Init ==
  /\ RegistryInit
  /\ conn = [g \in Gens |-> "none"] /\ pc = [g \in Gens |-> "none"]
  /\ got = [g \in Gens |-> 0]
  /\ proxies = [s \in Spots |-> 0] /\ pool = [s \in Spots |-> 0]
  /\ ears = [g \in Gens |-> "none"]

Goes(g, to) == pc' = [pc EXCEPT ![g] = to]

\* The client waits at least a second between two connections.
MayConnect(s) ==
  Prompt => \A g \in Gens : conn[g] = s => pc[g] \notin Handshake \cup {"disconnect"}

\* handleConnection up to Register.  A handshake that is malformed or refused
\* changes nothing, and neither does a new spot that gets no address.
Accept(s) ==
  /\ MayConnect(s)
  /\ Register(s)
  /\ conn' = [conn EXCEPT ![nextGen'] = s]
  /\ Goes(nextGen', "respond")
  /\ UNCHANGED <<got, proxies, ears, pool>>

RefusedReconnect(s) ==
  /\ MayConnect(s)
  /\ "alias" \in Faults
  /\ ReassertFails(s)
  /\ UNCHANGED <<serverVars, pool>>

Respond(g) ==
  /\ pc[g] = "respond"
  /\ Goes(g, "proxies")
  /\ UNCHANGED <<registryVars, conn, got, proxies, ears, pool>>

\* The answer cannot be written: the spot is unregistered by its id, and the
\* connection's own session closed.
RespondFails(g) ==
  /\ pc[g] = "respond"
  /\ "response" \in Faults
  /\ Goes(g, "done")
  /\ LET s == conn[g] IN
       /\ open' = open \ {g, spots[s]}
       /\ IF spots[s] = 0 THEN UNCHANGED <<spots, local, port, usedIPs, nextGen>>
          ELSE Drops(s)
  /\ UNCHANGED <<conn, got, proxies, ears, pool>>

\* closeProxiesLocked.
Closed(s) == [h \in Gens |-> IF h = proxies[s] THEN "none" ELSE ears[h]]

\* Where a listener can be bound: if not at the spot's address, then at
\* 127.0.0.1, unless the fallback of another spot is there; if not there, the
\* port is skipped.  (One port stands for all.)
Binds(e) ==
  {"own"} \cup IF "bind" \notin Faults THEN {}
              ELSE IF \E h \in Gens : e[h] = "localhost" THEN {"failed"} ELSE {"localhost", "failed"}

\* startProxies, under ts.mu: a newer registration's listeners stay, older ones
\* are closed.  A set is installed even if nothing could be bound.
StartProxies_KeepsOld(g) ==
  /\ pc[g] = "proxies"
  /\ LET s == conn[g] IN
       IF proxies[s] > g THEN UNCHANGED <<proxies, ears>>
       ELSE /\ proxies' = [proxies EXCEPT ![s] = g]
            /\ \E at \in Binds(ears) : ears' = [ears EXCEPT ![g] = at]
  /\ Goes(g, "get")
  /\ UNCHANGED <<registryVars, conn, got, pool>>

StartProxies(g) ==
  /\ pc[g] = "proxies"
  /\ LET s == conn[g] IN
       IF proxies[s] > g THEN UNCHANGED <<proxies, ears>>
       ELSE /\ proxies' = [proxies EXCEPT ![s] = g]
            /\ \E at \in Binds(Closed(s)) : ears' = [Closed(s) EXCEPT ![g] = at]
  /\ Goes(g, "get")
  /\ UNCHANGED <<registryVars, conn, got, pool>>

\* The spot that OnConnect will be told of; it may be a later registration.
GetSpot(g) ==
  /\ pc[g] = "get"
  /\ got' = [got EXCEPT ![g] = spots[conn[g]]]
  /\ Goes(g, IF spots[conn[g]] = 0 THEN "monitor" ELSE "notify")
  /\ UNCHANGED <<registryVars, conn, proxies, ears, pool>>

\* OnTunnelConnect: BackendPool.Add replaces the backend of that id.
OnConnect_KeepsOld(g) ==
  /\ pc[g] = "notify"
  /\ LET s == conn[g] IN
       pool' = IF pool[s] # 0 THEN pool ELSE [pool EXCEPT ![s] = got[g]]
  /\ Goes(g, "monitor")
  /\ UNCHANGED <<registryVars, conn, got, proxies, ears>>

OnConnect(g) ==
  /\ pc[g] = "notify"
  /\ pool' = [pool EXCEPT ![conn[g]] = got[g]]
  /\ Goes(g, "monitor")
  /\ UNCHANGED <<registryVars, conn, got, proxies, ears>>

\* The session dies while its goroutine is anywhere.
SessionEnds(g) ==
  /\ SessionCloses(g)
  /\ UNCHANGED <<serverVars, pool>>

\* monitorSession wakes up and, under ts.mu, closes the listeners unless
\* another generation installed them.
CloseProxies_Always(g) ==
  /\ pc[g] = "monitor" /\ g \notin open
  /\ proxies' = [proxies EXCEPT ![conn[g]] = 0] /\ ears' = Closed(conn[g])
  /\ Goes(g, "unregister")
  /\ UNCHANGED <<registryVars, conn, got, pool>>

CloseProxies(g) ==
  /\ pc[g] = "monitor" /\ g \notin open
  /\ LET s == conn[g] IN
       IF proxies[s] \notin {0, g}
       THEN Goes(g, "done") /\ UNCHANGED <<proxies, ears>>
       ELSE Goes(g, "unregister") /\ proxies' = [proxies EXCEPT ![s] = 0] /\ ears' = Closed(s)
  /\ UNCHANGED <<registryVars, conn, got, pool>>

\* UnregisterIfCurrent, under the registry's lock.
UnregisterIfCurrent_Notifies(g) ==
  /\ pc[g] = "unregister"
  /\ IF spots[conn[g]] = g THEN Removes(conn[g]) ELSE UNCHANGED registryVars
  /\ Goes(g, "disconnect")
  /\ UNCHANGED <<conn, got, proxies, ears, pool>>

UnregisterIfCurrent(g) ==
  /\ pc[g] = "unregister"
  /\ IF spots[conn[g]] = g
     THEN Removes(conn[g]) /\ Goes(g, "disconnect")
     ELSE UNCHANGED registryVars /\ Goes(g, "done")
  /\ UNCHANGED <<conn, got, proxies, ears, pool>>

\* OnTunnelDisconnect: BackendPool.Remove, by id.
OnDisconnect(g) ==
  /\ pc[g] = "disconnect"
  /\ pool' = [pool EXCEPT ![conn[g]] = 0]
  /\ Goes(g, "done")
  /\ UNCHANGED <<registryVars, conn, got, proxies, ears>>

Handler(g) ==
  \/ Respond(g)
  \/ StartProxies(g)
  \/ GetSpot(g)
  \/ OnConnect(g)
  \/ CloseProxies(g)
  \/ UnregisterIfCurrent(g)
  \/ OnDisconnect(g)

Next ==
  \/ \E s \in Spots : Accept(s)
  \/ \E s \in Spots : RefusedReconnect(s)
  \/ \E g \in Gens : Handler(g)
  \/ \E g \in Gens : RespondFails(g)
  \/ \E g \in Gens : SessionEnds(g)

Spec == Init /\ [][Next]_vars

\* A goroutine that can take its next step takes it.
FairSpec == Spec /\ \A g \in Gens : WF_vars(Handler(g))

----------------------------------------------------------------------------
(* Properties *)

\* Two registered spots never share a loopback address, and the address of a
\* registered spot stays reserved for it whatever fails on the way.
DistinctAddresses ==
  \A s \in Spots : spots[s] # 0 =>
    /\ <<local[s], s>> \in usedIPs
    /\ \A t \in Spots \ {s} : <<local[s], t>> \notin usedIPs

\* #769: a registered tunnel that is up and has finished its handshake keeps
\* the listeners startProxies bound for it, however late the goroutines of its
\* earlier sessions wake up.
LiveTunnelServes ==
  \A s \in Spots :
    LET g == spots[s]
    IN g \in open /\ pc[g] \in {"get", "notify", "monitor"} => proxies[s] = g /\ ears[g] # "none"

\* A listener that is open is in the installed set of its spot, and a goroutine
\* is left that will close it: none goes on accepting, and holding its address,
\* for a session that was replaced or has ended.
NoStrayListener ==
  \A g \in Gens : ears[g] # "none" => proxies[conn[g]] = g /\ pc[g] \in {"get", "notify", "monitor"}

\* #769 for the routing: a registered tunnel that is up and was announced to
\* the manager keeps a backend in the pool, so that traffic, certificates
\* and ssh users still reach it after a reconnect.
LiveTunnelKeepsBackend ==
  \A s \in Spots :
    LET g == spots[s]
    IN g \in open /\ pc[g] = "monitor" => pool[s] # 0

\* A tunnel that stays up is in the end routed to at its own address, unless
\* its listeners could not be bound there.
TunnelIsRouted ==
  \A s \in Spots : \A g \in Gens :
    spots[s] = g ~> \/ pool[s] = g /\ ears[g] = "own"
                    \/ ears[g] \in {"localhost", "failed"}
                    \/ spots[s] # g \/ g \notin open
=============================================================================
