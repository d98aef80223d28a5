---------------------------- MODULE MCServices ----------------------------
(* Instances of the components around the delivery core.  A behaviour is   *)
(* one of a single component, the part; the others keep an initial state.  *)
EXTENDS GroupTopology, AgentWorkload, BrokerBridge, AckManager, ClusterRoute

CONSTANTS n1, n2, n3, g1, g2, s1, s2, u1, u2

VARIABLE part

GtDo(k, n, g, ns, u) == [kind |-> k, node |-> n, group |-> g, ns |-> ns, user |-> u]

GtServiceScripts ==
    { <<<<GtDo("read", n1, g1, s1, u1), GtDo("read", n1, g1, s1, u1)>>, <<GtDo("add", n2, g1, s1, u1)>>>>,
      <<<<GtDo("create", n1, g1, s1, u1), GtDo("add", n1, g1, s1, u1), GtDo("remove", n1, g1, s1, u1)>>, <<GtDo("add", n1, g1, s1, u2)>>>>,
      <<<<GtDo("join", n1, g1, s1, u1), GtDo("leave", n1, g1, s1, u1)>>,
        <<GtDo("join", n1, g1, s2, u2), GtDo("read", n1, g1, s1, u1)>>>>,
      <<<<GtDo("join", n1, g1, s1, u1)>>,
        <<GtDo("add", n1, g2, s1, u1), GtDo("disband", n1, g2, s1, u1)>>>> }

BrServiceNodes == <<n1, n2>>

BrPost(k, t, x, v) == [key |-> k, topic |-> t, express |-> x, valid |-> v]

BrServiceScenarios ==
    { <<BrPost("m", "deliver", FALSE, TRUE), BrPost("m", "deliver", FALSE, TRUE), BrPost("m", "deliver", FALSE, TRUE)>>,
      <<BrPost("m", "deliver", FALSE, TRUE), BrPost("b", "broadcast", FALSE, TRUE)>>,
      <<BrPost("m", "deliver", TRUE, TRUE), BrPost("b", "deliver", FALSE, FALSE)>> }

\* Two PendingMessages with one message id: a message sent again.
AkServiceId == [m \in AkPending |-> "id"]

RouteSetup(at, ix, kn, roams, o, f) ==
    [grpc |-> kn # {}, pubsub |-> TRUE, at |-> at, index |-> ix, known |-> kn,
     roams |-> roams, outages |-> o, faults |-> f]

\* The user moves between two nodes while the message is routed.
RouteMoving == {RouteSetup({n1}, {n1}, kn, {n1, n2}, 0, 0) : kn \in {{}, Nodes}}

\* The index is stale, nodes and calls fail.
RouteFailing ==
    {RouteSetup({n3}, {n1, n2}, {n1, n3}, {}, 1, 0), RouteSetup({n3}, {n1}, {}, {}, 1, 1),
     RouteSetup({n2}, {n1, n2}, {n1, n2}, {}, 1, 1), RouteSetup({}, {}, {n1, n2}, {}, 0, 1)}

\* gRPC only.
RouteDirect ==
    {[s EXCEPT !.pubsub = FALSE] :
        s \in {RouteSetup({n2}, {n1}, Nodes, {}, 0, 1), RouteSetup({n1, n2}, {n1, n2}, Nodes, {}, 1, 1)}}

RouteSetups == RouteMoving \cup RouteFailing \cup RouteDirect

Parts == {"groups", "workload", "broker", "acks", "route"}

servicesVars == <<part, gtVars, wlVars, brVars, akVars, vars>>

ServicesInit ==
    /\ part \in Parts
    /\ GtInit /\ (part # "groups" => gtTodo = CHOOSE s \in GtScripts : TRUE)
    /\ WlInit
    /\ BrInit /\ (part # "broker" => brEnv = CHOOSE s \in BrScenarios : TRUE)
    /\ AkInit
    /\ Init /\ (part # "route" => setup = CHOOSE s \in Setups : TRUE)

ServicesNext ==
    \/ part = "groups" /\ GtNext /\ UNCHANGED <<part, wlVars, brVars, akVars, vars>>
    \/ part = "workload" /\ WlNext /\ UNCHANGED <<part, gtVars, brVars, akVars, vars>>
    \/ part = "broker" /\ BrNext /\ UNCHANGED <<part, gtVars, wlVars, akVars, vars>>
    \/ part = "acks" /\ AkNext /\ UNCHANGED <<part, gtVars, wlVars, brVars, vars>>
    \/ part = "route" /\ Next /\ UNCHANGED <<part, gtVars, wlVars, brVars, akVars>>

\* The fairness of AckManager and of ClusterRoute, each in its part.
acksRest == <<part, gtVars, wlVars, brVars, vars>>
routeRest == <<part, gtVars, wlVars, brVars, akVars>>

AcksPartFairness ==
    \A m \in AkPending :
        /\ WF_servicesVars(part = "acks" /\ Deadline(m) /\ UNCHANGED acksRest)
        /\ WF_servicesVars(part = "acks" /\ AkWaits(m) /\ UNCHANGED acksRest)

RoutePartFairness ==
    /\ WF_servicesVars(part = "route" /\ Sender /\ UNCHANGED routeRest)
    /\ WF_servicesVars(part = "route" /\ Subscriber /\ UNCHANGED routeRest)
    /\ \A n \in Nodes : WF_servicesVars(part = "route" /\ OtherNode(n) /\ UNCHANGED routeRest)
    /\ WF_servicesVars(part = "route" /\ AckTimeout /\ UNCHANGED routeRest)
    /\ WF_servicesVars(part = "route" /\ SweepRerouteGuard /\ UNCHANGED routeRest)

ServicesSpec ==
    /\ ServicesInit /\ [][ServicesNext]_servicesVars
    /\ AcksPartFairness /\ RoutePartFairness
=============================================================================
