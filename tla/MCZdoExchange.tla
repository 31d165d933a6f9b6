---------------------------- MODULE MCZdoExchange ----------------------------
\* A router with two endpoints and three neighbours, an end device with one
\* endpoint, and the coordinator.
EXTENDS ZdoExchange, TLC

CONSTANTS c1, c2

MCDevs == {"coordinator", "router", "end"}
MCKnown == <<"router", "end">>
Device(eps, basic, lqi, rtg, bindings, router) ==
  [eps |-> eps, basic |-> basic, lqi |-> lqi, rtg |-> rtg, bindings |-> bindings, router |-> router]
MCNetwork == ("coordinator" :> Device(<<1>>, {1}, 1, 1, 0, TRUE)) @@
             ("router" :> Device(<<2, 1>>, {1, 2}, 3, 2, 3, TRUE)) @@
             ("end" :> Device(<<2>>, {}, 0, 0, 1, FALSE))
MCCallers == {c1, c2}
Ask(kind, d) == [kind |-> kind, dev |-> d]
One(j, n) == [jobs |-> c1 :> j, faults |-> n]
Two(j, k, n) == [jobs |-> (c1 :> j) @@ (c2 :> k), faults |-> n]
Request(x) == [kind |-> "request", request |-> x]
Single(d) == {IeeeAddrReq(d), NodeDescReq(d), ActiveEpReq(d), SimpleDescReq(d, 1), GetAllNeighbors(d), GetAllRoutes(d), GetAllBindings(d),
              MgmtLeaveReq(d), BindReq(d), UnbindReq(d), MgmtPermitJoinReq, StartupFromApp, MgmtNwkUpdateReq}
MCScenarios ==
  {One(Ask("interview", "router"), 3), One(Ask("interview", "end"), 2), One(Ask("interviewAll", "coordinator"), 2)}
  \cup {One(Request(x), 2) : x \in Single("router")} \cup {One(Ask("capabilities", "router"), 2)} \cup {One(Ask("health", "coordinator"), 2), One(Ask("networkInfo", "coordinator"), 1)}
  \cup {One(Ask("deviceHealth", d), 2) : d \in {"router", "coordinator"}}
  \cup {Two(Ask("interview", "router"), Ask("capabilities", "end"), 1), Two(Ask("interview", "router"), Request(IeeeAddrReq("end")), 1),
         Two(Request(GetAllNeighbors("router")), Request(GetAllNeighbors("coordinator")), 1), Two(Ask("capabilities", "router"), Ask("capabilities", "end"), 1)}
=============================================================================
