----------------------------- MODULE MCCluster -----------------------------
(* What the nodes know of users and of each other: the online index in     *)
(* Redis, and a node's batcher, cache, registry and pool for the others.   *)
(* A behaviour is one of a single part; the others keep an initial state.  *)
EXTENDS MCOnlineIndex, ClusterLinks

VARIABLE part

\* A user that is there, one whose connection is full and one that has gone.
LinkItems == [p \in {"i1", "i2", "i3"} |->
    CASE p = "i1" -> [addr |-> "x", op |-> "groups", there |-> "yes"]
      [] p = "i2" -> [addr |-> "x", op |-> "send", there |-> "full"]
      [] p = "i3" -> [addr |-> "x", op |-> "kick", there |-> "no"]]
LinkLives == [n \in {"n1", "n2"} |-> IF n = "n1" THEN 1 ELSE 2]
LinkLookups == [l \in {"l1", "l2", "l3"} |-> IF l = "l3" THEN "v" ELSE "u"]

clusterVars == <<part, vars, clGbVars, clNcVars, clNrVars>>
indexRest == <<part, clGbVars, clNcVars, clNrVars>>
batcherRest == <<part, vars, clNcVars, clNrVars>>
cacheRest == <<part, vars, clGbVars, clNrVars>>
registryRest == <<part, vars, clGbVars, clNcVars>>

ClusterInit ==
    /\ part \in {"index", "batcher", "cache", "registry"}
    /\ Init /\ (part # "index" => setup = CHOOSE s \in Setups : TRUE)
    /\ NewGRPCBatchDispatcher /\ NewNodeIndexCache /\ InitNodeGRPC

ClusterNext ==
    \/ part = "index" /\ Next /\ UNCHANGED indexRest
    \/ part = "batcher" /\ GbNext /\ UNCHANGED batcherRest
    \/ part = "cache" /\ NcNext /\ UNCHANGED cacheRest
    \/ part = "registry" /\ NrNext /\ UNCHANGED registryRest

\* The fairness of OnlineIndex and of the parts of ClusterLinks, each in its part.
IndexPartFairness ==
    /\ WF_clusterVars(part = "index" /\ Tick /\ UNCHANGED indexRest)
    /\ WF_clusterVars(part = "index" /\ (\E n \in Nodes : SyncOnlineStatus(n) \/ SetOffline(n)) /\ UNCHANGED indexRest)
    /\ \A c \in Clients : WF_clusterVars(part = "index" /\ KeepAlive(c) /\ UNCHANGED indexRest)

LinksPartFairness ==
    /\ \A a \in Addrs :
          /\ WF_clusterVars(part = "batcher" /\ TimerFires(a) /\ UNCHANGED batcherRest)
          /\ WF_clusterVars(part = "batcher" /\ flush(a) /\ UNCHANGED batcherRest)
          /\ WF_clusterVars(part = "batcher" /\ (\E call \in clCalls : call[1] = a /\ sendAndResolve(call)) /\ UNCHANGED batcherRest)
    /\ \A l \in Lookups : WF_clusterVars(part = "cache" /\ NcStep(l) /\ UNCHANGED cacheRest)
    /\ \A n \in ClNodes : WF_clusterVars(part = "registry" /\ NrStep(n) /\ UNCHANGED registryRest)

ClusterSpec == ClusterInit /\ [][ClusterNext]_clusterVars /\ IndexPartFairness /\ LinksPartFairness
=============================================================================
