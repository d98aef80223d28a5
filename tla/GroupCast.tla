----------------------------- MODULE GroupCast -----------------------------
(***************************************************************************)
(* Messages to many: a group, a namespace, everyone, the users with some   *)
(* attribute, and the order to kick a user from every node.  Deliver fans  *)
(* a message out to the connections of its node, tells the observers, and  *)
(* hands a dispatch to the pool that carries it to the other nodes, by     *)
(* gRPC calls or by the Redis channels.  Each node fans out to its own     *)
(* connections and passes nothing on.                                      *)
(*                                                                         *)
(* On the way a message waits in bounded places: the aggregation window of *)
(* a group, the delay queue of a node that is overloaded, the dispatch     *)
(* pool, the observer batcher, and the semaphore all gRPC calls of a node  *)
(* share.                                                                  *)
(***************************************************************************)
EXTENDS Naturals, Sequences, FiniteSets

CONSTANTS
    CastNodes,
    CastConns,      \* connections, and of each:
    CastHome,       \*   its node
    CastUser,       \*   its user
    CastSpace,      \*   its namespace
    CastGroups,     \*   Client.GetGroupIDs
    CastSSE,        \* the connections that are SSE streams
    CastObservers,  \* the connections of observers
    CastSetups,     \* the cluster and the messages to send
    CastPoolCap,    \* the queue of the distributed pool
    CastPermits,    \* grpcDispatchConcurrency
    CastDelayCap,   \* the broadcast delay queue
    CastWindowCap,  \* maxPerGroup of the aggregator
    CastObsCap      \* the queue of the observer batcher

CastGrades == {"guaranteed", "standard", "aggregatable", "ephemeral"}

\* call: the operation on the origin.  ack: RequireAck.  match: the connections
\* with the attribute, or of the users the caller lists.  bus: the message comes
\* from the bus, which hands it to every node.
Casts == [call : {"deliver", "attribute", "members", "users", "kick"}, origin : CastNodes,
          groups : SUBSET UNION {CastGroups[c] : c \in CastConns}, ack : BOOLEAN,
          space : {CastSpace[c] : c \in CastConns} \cup {""}, match : SUBSET CastConns,
          sender : {CastUser[c] : c \in CastConns}, exclude : BOOLEAN, grade : CastGrades,
          bus : BOOLEAN]

ASSUME CastAssumption ==
    /\ CastHome \in [CastConns -> CastNodes]
    /\ \A n \in {CastPoolCap, CastPermits, CastDelayCap, CastWindowCap, CastObsCap} : n \in Nat \ {0}
    /\ \A s \in CastSetups :
          /\ \A i \in DOMAIN s.casts : s.casts[i] \in Casts
          /\ s.known \subseteq CastNodes /\ s.stale \subseteq CastNodes /\ s.slow \subseteq CastConns /\ s.faults \in Nat
          /\ s.grpc \/ s.pubsub
          /\ s.batch => s.grpc /\ s.pubsub

VARIABLES
    castEnv,    \* one of CastSetups
    castTodo,   \* <<i, n>>: Deliver of message i is called on node n
    castAsync,  \* <<i, n>>: a goroutine of deliverGlobally runs handleBroadcast
    castFan,    \* [i, left, missed] of deliverToGroupReliable: members to go, and those collected
    castWin,    \* per node and group, the aggregation window
    castLater,  \* per node, the broadcast delay queue
    castHeld,   \* sends held back while offline messages of the user are replayed
    castObs,    \* per node, the queue of the observer batcher
    castPool,   \* per node, the dispatches queued in the distributed pool
    castJobs,   \* calls of routeToCluster that run
    castSem,    \* per node, grpcDispatchSem: permits taken
    castNet,    \* published and not yet handled
    castGot,    \* copies of a message a connection took
    castSeen,   \* copies an observer took
    castStored, \* <<i, u>>: stored offline for the user
    castLost,   \* <<i, c, why>>: given up for the connection
    castUnsure, \* <<i, n>>: a call to n failed after n had handled it
    castFaults

castSend == <<castGot, castStored, castLost, castLater, castHeld>>
castCarry == <<castPool, castJobs>>
castVars == <<castEnv, castTodo, castAsync, castFan, castWin, castSend, castObs, castCarry,
              castSem, castNet, castSeen, castUnsure, castFaults>>

Cast(i) == castEnv.casts[i]
CastIds == DOMAIN castEnv.casts
IsExpress(i) == Cast(i).grade \in {"ephemeral", "aggregatable"}
On(n) == {c \in CastConns : CastHome[c] = n}
CastFault == castFaults < castEnv.faults /\ castFaults' = castFaults + 1

-----------------------------------------------------------------------------
(* Who is meant.                                                           *)

LocalGroupMembers(n, gs) == {CastUser[c] : c \in {d \in On(n) : CastGroups[d] \cap gs # {}}}

\* Connections of a set of users on a node: a group message matches every namespace.
ConnsOf(n, us) == {c \in On(n) : CastUser[c] \in us}

GroupTargets(n, gs, i) ==
    ConnsOf(n, LocalGroupMembers(n, gs) \ (IF Cast(i).exclude THEN {Cast(i).sender} ELSE {}))

LocalNamespaceUsers(n, s) == {CastUser[c] : c \in {d \in On(n) : CastSpace[d] = s}}

\* batchGetGroupMembers and the filter of the sender.
ReliableMembers(i) ==
    UNION {castEnv.members[g] : g \in Cast(i).groups} \ (IF Cast(i).exclude THEN {Cast(i).sender} ELSE {})

\* The list of the caller; only SendToGroupMembers leaves out the sender.
ListedUsers(i) ==
    {CastUser[c] : c \in Cast(i).match} \ (IF Cast(i).call = "members" /\ Cast(i).exclude THEN {Cast(i).sender} ELSE {})

\* The decision tree of Deliver.  A group message must name a namespace.
Deliver(i) ==
    CASE Cast(i).groups # {} /\ Cast(i).space = "" -> "rejected"
      [] Cast(i).groups # {} -> IF Cast(i).ack THEN "reliable" ELSE "group"
      [] Cast(i).space # ""  -> "namespace"
      [] OTHER -> "global"

Mode(i) == IF Cast(i).call = "deliver" THEN Deliver(i) ELSE Cast(i).call

Targets(n, i) ==
    CASE Mode(i) = "group"     -> GroupTargets(n, Cast(i).groups, i)
      [] Mode(i) = "reliable"  -> ConnsOf(n, ReliableMembers(i))
      [] Mode(i) = "namespace" -> {c \in On(n) : CastSpace[c] = Cast(i).space}
      [] Mode(i) = "global"    -> On(n)
      [] Mode(i) = "kick"      -> ConnsOf(n, {Cast(i).sender})
      [] Mode(i) \in {"members", "users"} -> {c \in ConnsOf(n, ListedUsers(i)) : CastSpace[c] = Cast(i).space}
      [] Mode(i) = "attribute" -> IF n = Cast(i).origin THEN On(n) \cap Cast(i).match ELSE {}
      [] OTHER -> {}

-----------------------------------------------------------------------------
(* Fan-out on one node.                                                    *)

\* routeDeliveryFallback: what a refused WebSocket send stores, nothing for
\* the ephemeral grade.
routeDeliveryFallback(ids, refused, grade) ==
    IF grade = "ephemeral" THEN {} ELSE {<<i, CastUser[c]>> : i \in ids, c \in refused \ CastSSE}

\* TrySendWithFallback, TrySendSSE to each: the queue of a slow connection may
\* refuse.  lost: what the caller gives up in the same step.
TrySendWithFallback(ids, to, grade, lost) ==
    \E refused \in SUBSET (to \cap castEnv.slow) :
        LET stored == routeDeliveryFallback(ids, refused, grade)
        IN  /\ castGot' = [c \in CastConns |-> [i \in CastIds |->
                              castGot[c][i] + IF i \in ids /\ c \in to \ refused THEN 1 ELSE 0]]
            /\ castStored' = castStored \cup stored
            /\ castLost' = castLost \cup lost
                   \cup {<<i, c, "refused">> : i \in ids, c \in {d \in refused : \A j \in ids : <<j, CastUser[d]>> \notin stored}}

\* All connections of a user, once nothing holds them back.
deliverFanoutToUser(h) ==
    /\ h \in castHeld
    /\ castHeld' = castHeld \ {h}
    /\ TrySendWithFallback(h.ids, h.to, h.grade, {})
    /\ UNCHANGED <<castEnv, castTodo, castAsync, castFan, castWin, castLater, castObs, castCarry, castSem,
                   castNet, castSeen, castUnsure, castFaults>>

\* To users: one whose offline messages are being replayed waits for the end.
broadcastFrameToUserIDsNow(ids, to, grade, lost) ==
    \E held \in SUBSET ({CastUser[c] : c \in to} \cap castEnv.replayed) :
        LET wait == {c \in to : CastUser[c] \in held}
        IN  /\ TrySendWithFallback(ids, to \ wait, grade, lost)
            /\ castHeld' = IF wait = {} THEN castHeld ELSE castHeld \cup {[ids |-> ids, to |-> wait, grade |-> grade]}

\* To connections that match: nothing is held back.
broadcastToFilteredNow(ids, to, grade, lost) == TrySendWithFallback(ids, to, grade, lost) /\ UNCHANGED castHeld

\* To every WebSocket connection, then BroadcastToSSEClients: nothing is held back.
doBroadcastMessage(ids, to, grade, lost) == TrySendWithFallback(ids, to, grade, lost) /\ UNCHANGED castHeld

\* AdmitMessage and the shaper stop nothing that is guaranteed.
AdmitMessage(grade) == IF castEnv.loaded /\ grade # "guaranteed" THEN BOOLEAN ELSE {TRUE}

\* DeferBroadcast, and Offer of the delay queue.  kind: the function to retry.
DeferBroadcast(kind, n, ids, to, grade, lost) ==
    /\ IF Len(castLater[n]) < CastDelayCap
       THEN /\ castLater' = [castLater EXCEPT ![n] = Append(@, [kind |-> kind, ids |-> ids, to |-> to, grade |-> grade])]
            /\ castLost' = castLost \cup lost
       ELSE /\ castLost' = castLost \cup lost \cup {<<i, c, "delay">> : i \in ids, c \in to}
            /\ UNCHANGED castLater
    /\ UNCHANGED <<castGot, castStored, castHeld>>

broadcastWithFrame(n, ids, to, grade, lost) ==
    \E admitted \in AdmitMessage(grade) :
        IF admitted THEN broadcastFrameToUserIDsNow(ids, to, grade, lost) /\ UNCHANGED castLater
                    ELSE DeferBroadcast("users", n, ids, to, grade, lost)

broadcastToFilteredScoped(n, ids, to, grade, lost) ==
    \E admitted \in AdmitMessage(grade) :
        IF admitted THEN broadcastToFilteredNow(ids, to, grade, lost) /\ UNCHANGED castLater
                    ELSE DeferBroadcast("filtered", n, ids, to, grade, lost)

HandleBroadcastMessage(n, i) ==
    \E admitted \in AdmitMessage(Cast(i).grade) :
        IF admitted THEN doBroadcastMessage({i}, On(n), Cast(i).grade, {}) /\ UNCHANGED castLater
                    ELSE DeferBroadcast("all", n, {i}, On(n), Cast(i).grade, {})

\* DrainLoop: the retry asks no gate.
DrainLoop(n) ==
    /\ castLater[n] # <<>>
    /\ castLater' = [castLater EXCEPT ![n] = Tail(@)]
    /\ LET e == Head(castLater[n])
       IN  CASE e.kind = "users"    -> broadcastFrameToUserIDsNow(e.ids, e.to, e.grade, {})
             [] e.kind = "filtered" -> broadcastToFilteredNow(e.ids, e.to, e.grade, {})
             [] e.kind = "all"      -> doBroadcastMessage(e.ids, e.to, e.grade, {})
    /\ UNCHANGED <<castEnv, castTodo, castAsync, castFan, castWin, castObs, castCarry, castSem, castNet,
                   castSeen, castUnsure, castFaults>>

NothingToSend(lost) == castLost' = castLost \cup lost /\ UNCHANGED <<castGot, castStored, castLater, castHeld>>

\* BroadcastToUserIDs; the callers skip an empty list.
BroadcastToUserIDs(n, i, to, lost) ==
    IF to = {} THEN NothingToSend(lost) ELSE broadcastWithFrame(n, {i}, to, Cast(i).grade, lost)

\* The users of the index, or a scan when they are half the connections.
BroadcastToNamespace(n, i, lost) ==
    LET users == LocalNamespaceUsers(n, Cast(i).space)
        to    == {c \in ConnsOf(n, users) : CastSpace[c] = Cast(i).space}
    IN  IF users # {} /\ Cardinality(users) * 100 >= Cardinality(On(n)) * 50
        THEN broadcastToFilteredScoped(n, {i}, to, Cast(i).grade, lost)
        ELSE BroadcastToUserIDs(n, i, to, lost)

\* The index of an attribute only narrows the scan: the condition is asked of
\* every connection.
broadcastByAttr(n, i) ==
    IF On(n) \cap Cast(i).match = {} THEN NothingToSend({})
    ELSE broadcastToFilteredScoped(n, {i}, On(n) \cap Cast(i).match, Cast(i).grade, {})

-----------------------------------------------------------------------------
(* Handing over to the other nodes.                                        *)

\* queryUserNodes for the user to kick: the index may name nodes it has left.
KickNodes(i) == castEnv.stale \cup {n \in CastNodes : ConnsOf(n, {Cast(i).sender}) # {}}

\* routeToCluster up to the choice of dispatchViaGRPC: a broadcast goes by the
\* channel, without gRPC every node is left to PubSub.
RouteToCluster(op, i, n) ==
    LET others == (IF op = "kick" THEN KickNodes(i) ELSE castEnv.known) \ {n}
    IN  [op |-> op, i |-> i, from |-> n, work |-> {}, hit |-> FALSE,
         todo |-> IF op # "broadcast" /\ castEnv.grpc THEN others ELSE {},
         fall |-> IF op # "broadcast" /\ ~castEnv.grpc THEN others ELSE {}]

Elsewhere(i, n, why) == {<<i, c, why>> : c \in UNION {Targets(k, i) : k \in CastNodes \ {n}}}

submitClusterDispatch_FromBus(op, i, n) ==
    castPool' = [castPool EXCEPT ![n] = @ \cup {[op |-> op, i |-> i]}] /\ UNCHANGED castJobs

\* A full pool drops what is express and makes the caller route the rest.
submitClusterDispatch(op, i, n) ==
    \/ Cast(i).bus /\ UNCHANGED castCarry
    \/ /\ ~Cast(i).bus /\ Cardinality(castPool[n]) < CastPoolCap
       /\ castPool' = [castPool EXCEPT ![n] = @ \cup {[op |-> op, i |-> i]}]
       /\ UNCHANGED castJobs
    \/ /\ ~Cast(i).bus /\ Cardinality(castPool[n]) >= CastPoolCap
       /\ castJobs' = IF IsExpress(i) THEN castJobs ELSE castJobs \cup {RouteToCluster(op, i, n)}
       /\ UNCHANGED castPool

\* What submitClusterDispatch gives up.
DroppedByPool(i, n) ==
    IF ~Cast(i).bus /\ Cardinality(castPool[n]) >= CastPoolCap /\ IsExpress(i) THEN Elsewhere(i, n, "pool") ELSE {}

\* NotifyObservers: nothing unless observers are enabled; a full queue drops the
\* notification.
NotifyObservers(n, i) ==
    castObs' = IF castEnv.observed /\ Cardinality(castObs[n]) < CastObsCap THEN [castObs EXCEPT ![n] = @ \cup {i}] ELSE castObs

-----------------------------------------------------------------------------
(* Deliver.                                                                *)

Called(i, n, mode) == <<i, n>> \in castTodo /\ castTodo' = castTodo \ {<<i, n>>} /\ Mode(i) = mode

Aggregates(n, i) ==
    /\ Cast(i).grade = "aggregatable" /\ ~Cast(i).exclude /\ Cardinality(Cast(i).groups) = 1
    /\ \A g \in Cast(i).groups : Len(castWin[n][g]) < CastWindowCap

\* OfferAggregatable puts the message into the window of the group, or it is
\* fanned out; either way the observers are told and the other nodes served.
deliverToGroupFireForget(i, n) ==
    /\ Called(i, n, "group")
    /\ IF Aggregates(n, i)
       THEN /\ castWin' = [castWin EXCEPT ![n] = [g \in DOMAIN @ |-> IF g \in Cast(i).groups THEN Append(castWin[n][g], i) ELSE castWin[n][g]]]
            /\ NothingToSend(DroppedByPool(i, n))
       ELSE BroadcastToUserIDs(n, i, Targets(n, i), DroppedByPool(i, n)) /\ UNCHANGED castWin
    /\ NotifyObservers(n, i)
    /\ submitClusterDispatch("group", i, n)
    /\ UNCHANGED <<castEnv, castAsync, castFan, castSem, castNet, castSeen, castUnsure, castFaults>>

deliverToNamespace(i, n) ==
    /\ Called(i, n, "namespace")
    /\ BroadcastToNamespace(n, i, DroppedByPool(i, n))
    /\ NotifyObservers(n, i)
    /\ submitClusterDispatch("broadcast", i, n)
    /\ UNCHANGED <<castEnv, castAsync, castFan, castWin, castSem, castNet, castSeen, castUnsure, castFaults>>

\* The dispatch is submitted first; the node itself is served by a goroutine.
deliverGlobally(i, n) ==
    /\ Called(i, n, "global")
    /\ castAsync' = castAsync \cup {<<i, n>>}
    /\ NothingToSend(DroppedByPool(i, n))
    /\ submitClusterDispatch("broadcast", i, n)
    /\ UNCHANGED <<castEnv, castFan, castWin, castObs, castSem, castNet, castSeen, castUnsure, castFaults>>

handleBroadcast(i, n) ==
    /\ <<i, n>> \in castAsync
    /\ castAsync' = castAsync \ {<<i, n>>}
    /\ NotifyObservers(n, i)
    /\ HandleBroadcastMessage(n, i)
    /\ UNCHANGED <<castEnv, castTodo, castFan, castWin, castCarry, castSem, castNet, castSeen, castUnsure, castFaults>>

\* Deliver of a group message without a namespace: an error.
DeliverRejected(i, n) ==
    /\ Called(i, n, "rejected")
    /\ UNCHANGED <<castEnv, castAsync, castFan, castWin, castSend, castObs, castCarry, castSem, castNet,
                   castSeen, castUnsure, castFaults>>

\* BroadcastByUserType, BroadcastToRole, ...: this node only.
BroadcastToAttribute(i, n) ==
    /\ Called(i, n, "attribute")
    /\ broadcastByAttr(n, i)
    /\ UNCHANGED <<castEnv, castAsync, castFan, castWin, castObs, castCarry, castSem, castNet, castSeen, castUnsure, castFaults>>

\* All connections of the user on a node go at once.
KickUser(n, i) ==
    castGot' = [c \in CastConns |-> IF c \in Targets(n, i) THEN [castGot[c] EXCEPT ![i] = 1] ELSE castGot[c]]

\* The order for the other nodes is dropped when the pool is full.
dispatchKickToRemoteNodes(i, n) ==
    /\ Called(i, n, "kick")
    /\ KickUser(n, i)
    /\ IF KickNodes(i) \subseteq {n} THEN UNCHANGED <<castPool, castLost>>
       ELSE IF Cardinality(castPool[n]) < CastPoolCap
       THEN castPool' = [castPool EXCEPT ![n] = @ \cup {[op |-> "kick", i |-> i]}] /\ UNCHANGED castLost
       ELSE castLost' = castLost \cup Elsewhere(i, n, "pool") /\ UNCHANGED castPool
    /\ UNCHANGED <<castEnv, castAsync, castFan, castWin, castStored, castLater, castHeld, castObs, castJobs,
                   castSem, castNet, castSeen, castUnsure, castFaults>>

deliverToGroupReliable(i, n) ==
    /\ Called(i, n, "reliable")
    /\ castFan' = IF ReliableMembers(i) = {} THEN castFan
                  ELSE castFan \cup {[i |-> i, left |-> ReliableMembers(i), missed |-> {}]}
    /\ UNCHANGED <<castEnv, castAsync, castWin, castSend, castObs, castCarry, castSem, castNet, castSeen,
                   castUnsure, castFaults>>

SendToGroupMembers(i, n) ==
    /\ Called(i, n, "members")
    /\ castFan' = castFan \cup {[i |-> i, left |-> ListedUsers(i), missed |-> {}]}
    /\ UNCHANGED <<castEnv, castAsync, castWin, castSend, castObs, castCarry, castSem, castNet, castSeen,
                   castUnsure, castFaults>>

SendToMultipleUsers(i, n) ==
    /\ Called(i, n, "users")
    /\ castFan' = IF ListedUsers(i) = {} THEN castFan
                  ELSE castFan \cup {[i |-> i, left |-> ListedUsers(i), missed |-> {}]}
    /\ UNCHANGED <<castEnv, castAsync, castWin, castSend, castObs, castCarry, castSem, castNet, castSeen,
                   castUnsure, castFaults>>

\* The connections of u that message i is for, on all nodes.
Everywhere(i, u) == {c \in UNION {Targets(n, i) : n \in CastNodes} : CastUser[c] = u}

\* runFanout takes the members in any order: one send with its own retries.
\* A member the index does not know is stored offline and collected.  A send
\* that panics is given up and the others go on.
fanoutInvoke(f, u) ==
    /\ f \in castFan /\ u \in f.left
    /\ LET to == Everywhere(f.i, u)
           unseen == u \in castEnv.hidden \/ to = {}
           next(missed) == castFan' = (castFan \ {f}) \cup {[f EXCEPT !.left = @ \ {u}, !.missed = @ \cup missed]}
       IN  \/ unseen /\ next({u}) /\ castStored' = castStored \cup {<<f.i, u>>} /\ UNCHANGED <<castGot, castLost, castFaults>>
           \/ ~unseen /\ next({}) /\ TrySendWithFallback({f.i}, to, Cast(f.i).grade, {}) /\ UNCHANGED castFaults
           \/ /\ CastFault /\ next({})
              /\ castLost' = castLost \cup {<<f.i, c, "panic">> : c \in to}
              /\ UNCHANGED <<castGot, castStored>>
    /\ UNCHANGED <<castEnv, castTodo, castAsync, castWin, castLater, castHeld, castObs, castCarry, castSem, castNet,
                   castSeen, castUnsure>>

\* NotifyObservers, except for SendToMultipleUsers, and, deferred,
\* flushOfflineBroadcasts: the collected members are looked for on every node.
flushOfflineBroadcasts(f) ==
    /\ f \in castFan /\ f.left = {}
    /\ castFan' = castFan \ {f}
    /\ IF Mode(f.i) = "users" THEN UNCHANGED castObs ELSE NotifyObservers(Cast(f.i).origin, f.i)
    /\ castNet' = castNet \cup {[op |-> "find", i |-> f.i, from |-> Cast(f.i).origin, to |-> n, users |-> {u}] :
                                   n \in CastNodes \ {Cast(f.i).origin}, u \in f.missed}
    /\ UNCHANGED <<castEnv, castTodo, castAsync, castWin, castSend, castCarry, castSem, castSeen, castUnsure, castFaults>>

\* startAggregatorDrain, Flush and deliverAggregatedBatch: the window of a group
\* becomes one frame, of the grade standard.
deliverAggregatedBatch(n, g) ==
    /\ castWin[n][g] # <<>>
    /\ castWin' = [castWin EXCEPT ![n] = [h \in DOMAIN @ |-> IF h = g THEN <<>> ELSE castWin[n][h]]]
    /\ LET to == ConnsOf(n, LocalGroupMembers(n, {g}))
       IN  IF to = {} THEN NothingToSend({})
           ELSE broadcastWithFrame(n, {castWin[n][g][k] : k \in DOMAIN castWin[n][g]}, to, "standard", {})
    /\ UNCHANGED <<castEnv, castTodo, castAsync, castFan, castObs, castCarry, castSem, castNet, castSeen, castUnsure, castFaults>>

-----------------------------------------------------------------------------
(* Observers.                                                              *)

\* notifyObserverClients: a refused send is logged.
notifyObserverClients(n, i) ==
    \E refused \in SUBSET (On(n) \cap CastObservers \cap castEnv.slow) :
        castSeen' = [c \in CastObservers |-> [j \in CastIds |->
                        castSeen[c][j] + IF j = i /\ CastHome[c] = n /\ c \notin refused THEN 1 ELSE 0]]

\* Flush of the observer batcher: the observers here, then those elsewhere.
NotifyObserversDirect(n, i) ==
    /\ i \in castObs[n]
    /\ castObs' = [castObs EXCEPT ![n] = @ \ {i}]
    /\ notifyObserverClients(n, i)
    /\ castJobs' = castJobs \cup {RouteToCluster("observe", i, n)}
    /\ UNCHANGED <<castEnv, castTodo, castAsync, castFan, castWin, castSend, castPool, castSem, castNet, castUnsure, castFaults>>

-----------------------------------------------------------------------------
(* routeToCluster.                                                         *)

Sub(j, k) == castJobs' = (castJobs \ {j}) \cup {k}

\* A worker of the distributed pool takes a dispatch.
SubmitClusterDispatch(n, d) ==
    /\ d \in castPool[n]
    /\ castPool' = [castPool EXCEPT ![n] = @ \ {d}]
    /\ castJobs' = castJobs \cup {RouteToCluster(d.op, d.i, n)}
    /\ UNCHANGED <<castEnv, castTodo, castAsync, castFan, castWin, castSend, castObs, castSem, castNet,
                   castSeen, castUnsure, castFaults>>

\* dispatchViaGRPC: a permit of the semaphore and a goroutine for a node.  The
\* groups of a message are one call each, buildDispatchItem or grpcBroadcastGroups.
dispatchViaGRPC(j, n) ==
    /\ j \in castJobs /\ n \in j.todo /\ castSem[j.from] < CastPermits
    /\ castSem' = [castSem EXCEPT ![j.from] = @ + 1]
    /\ Sub(j, [j EXCEPT !.todo = @ \ {n},
                        !.work = @ \cup {[node |-> n, calls |-> {}, failed |-> {}, hit |-> FALSE, miss |-> FALSE,
                                          left |-> IF j.op = "group" THEN Cast(j.i).groups ELSE {"all"}]}])
    /\ UNCHANGED <<castEnv, castTodo, castAsync, castFan, castWin, castSend, castObs, castPool, castNet,
                   castSeen, castUnsure, castFaults>>

\* Without the batcher the calls of the groups run side by side, and each needs
\* another permit of the same semaphore.
Nested(j) == j.op = "group" /\ ~castEnv.batch

StartCall(j, w, g) ==
    /\ j \in castJobs /\ w \in j.work /\ g \in w.left
    /\ IF Nested(j)
       THEN castSem[j.from] < CastPermits /\ castSem' = [castSem EXCEPT ![j.from] = @ + 1]
       ELSE w.calls = {} /\ UNCHANGED castSem
    /\ Sub(j, [j EXCEPT !.work = (@ \ {w}) \cup {[w EXCEPT !.left = @ \ {g}, !.calls = @ \cup {g}]}])
    /\ UNCHANGED <<castEnv, castTodo, castAsync, castFan, castWin, castSend, castObs, castPool, castNet,
                   castSeen, castUnsure, castFaults>>

\* The server side of a call: the local members of the one group.
BroadcastGroup(n, i, g) == BroadcastToUserIDs(n, i, GroupTargets(n, {g}, i), {}) /\ UNCHANGED castSeen

NotifyObserversCall(n, i) == notifyObserverClients(n, i) /\ UNCHANGED castSend

KickUserCall(n, i) == KickUser(n, i) /\ UNCHANGED <<castStored, castLost, castLater, castHeld, castSeen>>

Handled(j, n, g) ==
    CASE j.op = "group"   -> BroadcastGroup(n, j.i, g)
      [] j.op = "observe" -> NotifyObserversCall(n, j.i)
      [] j.op = "kick"    -> KickUserCall(n, j.i)

\* executeGRPCDispatch, Submit of the batcher: the call returns, or fails
\* without or after having been handled.  No connection kicked is a miss.
CallReturns(j, w, g) ==
    /\ j \in castJobs /\ w \in j.work /\ g \in w.calls
    /\ castSem' = IF Nested(j) THEN [castSem EXCEPT ![j.from] = @ - 1] ELSE castSem
    /\ LET miss == j.op = "kick" /\ Targets(w.node, j.i) = {}
           done(ok) == [w EXCEPT !.calls = @ \ {g}, !.failed = IF ok THEN @ ELSE @ \cup {g},
                                 !.hit = @ \/ (ok /\ ~miss), !.miss = ok /\ miss]
           next(ok) == Sub(j, [j EXCEPT !.work = (@ \ {w}) \cup {done(ok)}])
       IN  \/ next(TRUE) /\ Handled(j, w.node, g) /\ UNCHANGED <<castFaults, castUnsure>>
           \/ CastFault /\ next(FALSE) /\ UNCHANGED <<castSend, castSeen, castUnsure>>
           \/ /\ CastFault /\ next(FALSE) /\ Handled(j, w.node, g)
              /\ castUnsure' = castUnsure \cup {<<j.i, w.node>>}
    /\ UNCHANGED <<castEnv, castTodo, castAsync, castFan, castWin, castObs, castPool, castNet>>

\* dispatchNode, dispatchNodeViaBatch: one group delivered counts as the node
\* delivered, and nothing makes up for the others; a node without any is left
\* to PubSub.
Resolved(j, w) ==
    /\ j \in castJobs /\ w \in j.work /\ w.left = {} /\ w.calls = {}
    /\ Sub(j, [j EXCEPT !.work = @ \ {w}, !.hit = @ \/ w.hit,
                        !.fall = IF w.hit \/ w.miss THEN @ ELSE @ \cup {w.node}])
    /\ castLost' = IF w.hit /\ j.op = "group"
                   THEN castLost \cup {<<j.i, c, "partial">> : c \in GroupTargets(w.node, w.failed, j.i)}
                   ELSE castLost
    /\ UNCHANGED <<castEnv, castTodo, castAsync, castFan, castWin, castGot, castStored, castLater, castHeld, castObs,
                   castPool, castNet, castSeen, castUnsure, castFaults>>

dispatchNode_KeepsPermit(j, w) == Resolved(j, w) /\ UNCHANGED castSem

\* The goroutine of a node ends, and gives its permit back.
dispatchNode(j, w) == Resolved(j, w) /\ castSem' = [castSem EXCEPT ![j.from] = @ - 1]

Packet(j, n) == [op |-> j.op, i |-> j.i, from |-> j.from, to |-> n, users |-> {}]

LostOn(j, ns, why) == IF j.op = "observe" THEN {} ELSE {<<j.i, c, why>> : c \in UNION {Targets(n, j.i) : n \in ns}}

\* The nodes left over are forgotten once another was reached.
publishTo_NoneOnceHit(j) ==
    IF j.hit THEN {} ELSE IF j.fall # {} THEN j.fall ELSE CastNodes \ {j.from}

\* The nodes left over, on their own channels; when no node was named and none
\* was reached, the channel all listen to.
publishTo(j) ==
    IF j.fall # {} THEN j.fall ELSE IF j.hit THEN {} ELSE CastNodes \ {j.from}

\* The end of routeToCluster: publish, or give up without PubSub.
publishToCluster(j) ==
    /\ j \in castJobs /\ j.todo = {} /\ j.work = {}
    /\ castJobs' = castJobs \ {j}
    /\ \/ /\ castEnv.pubsub
          /\ castNet' = castNet \cup {Packet(j, n) : n \in publishTo(j)}
          /\ UNCHANGED <<castLost, castFaults>>
       \/ /\ castEnv.pubsub /\ publishTo(j) # {} /\ CastFault
          /\ castLost' = castLost \cup LostOn(j, publishTo(j), "publish")
          /\ UNCHANGED castNet
       \/ /\ ~castEnv.pubsub
          /\ castLost' = castLost \cup LostOn(j, publishTo(j), "route")
          /\ UNCHANGED <<castNet, castFaults>>
    /\ UNCHANGED <<castEnv, castTodo, castAsync, castFan, castWin, castGot, castStored, castLater, castHeld, castObs,
                   castPool, castSem, castSeen, castUnsure>>

-----------------------------------------------------------------------------
(* The channels.                                                           *)

Receive(p) == p \in castNet /\ castNet' = castNet \ {p}

\* The members of all the groups together, each once.
handleDistributedGroupsBroadcast(p) ==
    /\ Receive(p) /\ p.op = "group"
    /\ BroadcastToUserIDs(p.to, p.i, Targets(p.to, p.i), {})
    /\ UNCHANGED <<castEnv, castTodo, castAsync, castFan, castWin, castObs, castCarry, castSem, castSeen, castUnsure, castFaults>>

handleDistributedBroadcast_Observers(p) ==
    /\ Receive(p) /\ p.op = "broadcast"
    /\ IF Mode(p.i) = "namespace" THEN BroadcastToNamespace(p.to, p.i, {}) ELSE HandleBroadcastMessage(p.to, p.i)
    /\ NotifyObservers(p.to, p.i)
    /\ UNCHANGED <<castEnv, castTodo, castAsync, castFan, castWin, castCarry, castSem, castSeen, castUnsure, castFaults>>

\* HandleBroadcastMessage or BroadcastToNamespace, not handleBroadcast: the
\* observers were told by the node the message came from.
handleDistributedBroadcast(p) ==
    /\ Receive(p) /\ p.op = "broadcast"
    /\ IF Mode(p.i) = "namespace" THEN BroadcastToNamespace(p.to, p.i, {}) ELSE HandleBroadcastMessage(p.to, p.i)
    /\ UNCHANGED <<castEnv, castTodo, castAsync, castFan, castWin, castObs, castCarry, castSem, castSeen, castUnsure, castFaults>>

handleDistributedObserverNotify(p) ==
    /\ Receive(p) /\ p.op = "observe"
    /\ notifyObserverClients(p.to, p.i)
    /\ UNCHANGED <<castEnv, castTodo, castAsync, castFan, castWin, castSend, castObs, castCarry, castSem, castUnsure, castFaults>>

handleDistributedKickUser(p) ==
    /\ Receive(p) /\ p.op = "kick"
    /\ KickUser(p.to, p.i)
    /\ UNCHANGED <<castEnv, castTodo, castAsync, castFan, castWin, castStored, castLost, castLater, castHeld, castObs,
                   castCarry, castSem, castSeen, castUnsure, castFaults>>

\* A collected member found on a node after all.
OfflineBroadcastArrives(p) ==
    /\ Receive(p) /\ p.op = "find"
    /\ TrySendWithFallback({p.i}, Targets(p.to, p.i) \cap ConnsOf(p.to, p.users), Cast(p.i).grade, {})
    /\ UNCHANGED <<castEnv, castTodo, castAsync, castFan, castWin, castLater, castHeld, castObs, castCarry, castSem, castSeen, castUnsure, castFaults>>

\* PubSub delivers at most once.
ChannelLoses(p) ==
    /\ Receive(p) /\ CastFault
    /\ castLost' = castLost \cup LostOn(p, {p.to}, "channel")
    /\ UNCHANGED <<castEnv, castTodo, castAsync, castFan, castWin, castGot, castStored, castLater, castHeld, castObs,
                   castCarry, castSem, castSeen, castUnsure>>

-----------------------------------------------------------------------------
CastInit ==
    /\ castEnv \in CastSetups
    /\ castTodo = {<<i, n>> \in CastIds \X CastNodes : Cast(i).bus \/ n = Cast(i).origin}
    /\ castAsync = {} /\ castFan = {} /\ castHeld = {} /\ castJobs = {} /\ castNet = {}
    /\ castWin = [n \in CastNodes |-> [g \in UNION {CastGroups[c] : c \in CastConns} |-> <<>>]]
    /\ castLater = [n \in CastNodes |-> <<>>]
    /\ castObs = [n \in CastNodes |-> {}] /\ castPool = [n \in CastNodes |-> {}]
    /\ castSem = [n \in CastNodes |-> 0]
    /\ castGot = [c \in CastConns |-> [i \in CastIds |-> 0]]
    /\ castSeen = [c \in CastObservers |-> [i \in CastIds |-> 0]]
    /\ castStored = {} /\ castLost = {} /\ castUnsure = {} /\ castFaults = 0

CastNext ==
    \/ \E i \in CastIds, n \in CastNodes :
          \/ deliverToGroupFireForget(i, n) \/ deliverToNamespace(i, n) \/ deliverGlobally(i, n)
          \/ handleBroadcast(i, n) \/ BroadcastToAttribute(i, n) \/ dispatchKickToRemoteNodes(i, n)
          \/ deliverToGroupReliable(i, n) \/ NotifyObserversDirect(n, i) \/ DeliverRejected(i, n)
          \/ SendToGroupMembers(i, n) \/ SendToMultipleUsers(i, n)
    \/ \E h \in castHeld : deliverFanoutToUser(h)
    \/ \E f \in castFan : flushOfflineBroadcasts(f) \/ \E u \in f.left : fanoutInvoke(f, u)
    \/ \E n \in CastNodes :
          \/ DrainLoop(n)
          \/ \E g \in DOMAIN castWin[n] : deliverAggregatedBatch(n, g)
          \/ \E d \in castPool[n] : SubmitClusterDispatch(n, d)
    \/ \E j \in castJobs :
          \/ publishToCluster(j)
          \/ \E n \in j.todo : dispatchViaGRPC(j, n)
          \/ \E w \in j.work :
                \/ dispatchNode(j, w)
                \/ \E g \in w.left : StartCall(j, w, g)
                \/ \E g \in w.calls : CallReturns(j, w, g)
    \/ \E p \in castNet :
          \/ handleDistributedGroupsBroadcast(p) \/ handleDistributedBroadcast(p)
          \/ handleDistributedObserverNotify(p) \/ handleDistributedKickUser(p)
          \/ OfflineBroadcastArrives(p) \/ ChannelLoses(p)

\* Goroutines run, tickers tick, calls return within their timeouts.
CastFairness == WF_castVars(CastNext)

CastSpec == CastInit /\ [][CastNext]_castVars /\ CastFairness

-----------------------------------------------------------------------------
\* Nothing that has to do with message i is on its way.
Settled(i) ==
    /\ \A n \in CastNodes :
          /\ <<i, n>> \notin castTodo \cup castAsync
          /\ \A g \in DOMAIN castWin[n] : \A k \in DOMAIN castWin[n][g] : castWin[n][g][k] # i
          /\ \A k \in DOMAIN castLater[n] : i \notin castLater[n][k].ids
          /\ \A d \in castPool[n] : d.i # i
    /\ \A h \in castHeld : i \notin h.ids
    /\ \A x \in castFan \cup castJobs \cup castNet : x.i # i

\* Every connection message i was meant for took it, or its user has it in the
\* offline store, or it was given up for one of the reasons.
Accounted(i, reasons) ==
    \A n \in CastNodes : \A c \in Targets(n, i) :
        \/ castGot[c][i] > 0 \/ <<i, CastUser[c]>> \in castStored
        \/ \E why \in reasons : <<i, c, why>> \in castLost

Reasons == {"refused", "delay", "pool", "publish", "route", "channel", "partial", "panic"}

\* No message vanishes without a trace: when nothing of a message is left in a
\* window, a queue, the pool or a channel, every connection it was meant for has
\* taken it, or its user has it in the offline store, or the step that gave it
\* up said so (a full delay queue, an express message with a full pool, a
\* refusing SSE or ephemeral send, a channel that lost it, a batch of which only
\* some groups failed, a send that panicked).  This crosses Deliver, runFanout,
\* the aggregator, the delay queue, dispatchViaGRPC and the PubSub fallback of
\* routeToCluster.
CastIsAccountedFor == \A i \in CastIds : Settled(i) => Accounted(i, Reasons)

\* A message sent to groups reaches a connection at most once for each of these
\* groups its user is in (the gRPC path makes one call per group), any other
\* message at most once: nodes pass nothing on, PubSub serves only the nodes gRPC
\* did not, and what comes from the bus is not dispatched again
\* (submitClusterDispatch).  A call that failed after it was handled is excepted.
NoMoreThanOncePerGroup ==
    \A i \in CastIds, c \in CastConns :
        <<i, CastHome[c]>> \notin castUnsure =>
            castGot[c][i] <=
               LET gs == {g \in Cast(i).groups : CastUser[c] \in LocalGroupMembers(CastHome[c], {g})}
               IN  IF Mode(i) = "group" /\ castEnv.grpc /\ Cardinality(gs) > 1 THEN Cardinality(gs) ELSE 1

\* An observer hears of a message at most once, whatever path the message takes
\* through the cluster: only the node that sends it notifies
\* (handleDistributedBroadcast bypasses handleBroadcast).  Messages from the bus,
\* which every node sends, are excepted.
ObserversHearOnce ==
    \A i \in CastIds, c \in CastObservers :
        ~Cast(i).bus /\ <<i, CastHome[c]>> \notin castUnsure => castSeen[c][i] <= 1

\* A dispatch to the cluster ends: no call of routeToCluster waits for ever for
\* a permit of the gRPC semaphore (dispatchViaGRPC, dispatchNode).
DispatchEnds == []<>(castJobs = {})

\* Every receiver of a message to many gets it, or there is a trace of why not;
\* nobody gets more copies than the paths of the message explain.
CastIsExact == CastIsAccountedFor /\ NoMoreThanOncePerGroup /\ ObserversHearOnce
=============================================================================
