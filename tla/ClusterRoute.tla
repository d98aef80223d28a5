--------------------------- MODULE ClusterRoute ---------------------------
(***************************************************************************)
(* One message from this node to a user whose connections are on other     *)
(* nodes.  The online index says where to send it, but it is a snapshot:   *)
(* the user moves, nodes crash, subscriptions break.  routeToCluster calls *)
(* the nodes by gRPC and publishes to the node channels what gRPC did not  *)
(* settle.  A node without the user says so, in its answer or in a         *)
(* user_not_found report, and decideUserNotFoundReroute sends the message  *)
(* on to nodes that are new in the index, or stores it once every node     *)
(* tried has declined.  The reroute guard remembers who was tried.         *)
(*                                                                         *)
(* routeToCluster and decideUserNotFoundReroute call each other: a thread  *)
(* has a stack of frames.  The offline store and the message record are    *)
(* modelled elsewhere: here a message that is stored counts as stored, and *)
(* a message accepted or stored is out of the state sending.               *)
(***************************************************************************)
EXTENDS Naturals, Sequences, FiniteSets

CONSTANTS
    Nodes,      \* the other nodes of the cluster
    MaxTries,   \* RetryPolicy.MaxRetries + 1
    Setups      \* the cluster at the start, and bounds

ASSUME RouteAssumption ==
    /\ MaxTries \in Nat \ {0}
    /\ Setups \subseteq [grpc : BOOLEAN, pubsub : BOOLEAN, at : SUBSET Nodes,
                         index : SUBSET Nodes, known : SUBSET Nodes,
                         roams : SUBSET Nodes, outages : Nat, faults : Nat]

Threads == {"send", "sub"}      \* the sender; the subscription of this node

VARIABLES
    setup,      \* one of Setups: transports in use, where the user is, what the
                \* index says, the nodes discovered, those the user goes on
                \* moving between, bounds on outages (crashes, lost subscriptions) and
                \* on faults (of a call, a publication or a query)
    alive,      \* nodes that run
    subscribed, \* nodes that listen to their channels
    known,      \* nodeRegistry: nodes with a fresh heartbeat and an address
    present,    \* nodes with a connection of the user
    index,      \* GetUserNodes
    healing,    \* nodes with a selfHealDeadIndexEntries task
    guards,     \* the rerouteGuardEntry objects made for the message so far
    guard,      \* rerouteGuard: the one the map holds, 0 for none
    chan,       \* published and not yet handled, per kind and node
    probes,     \* probeDeadNodeAsync tasks per node
    stack,      \* frames of a thread, the innermost first
    pc,         \* of the sender
    tries,      \* attempts made
    result,     \* of the route that has returned to the sender
    timer,      \* the ACK timeout is armed
    settled,    \* the record has left the state sending
    accepted,   \* times the user's connections on a node took the message
    aimed,      \* of these, not by the broadcast channel
    stored,     \* times the message was put into the offline store
    outages, faults \* those so far

env == <<alive, subscribed, known, present, index>>
node == <<healing, accepted, aimed>>
sender == <<pc, tries, result, timer>>
vars == <<setup, env, node, guards, guard, chan, probes, stack, sender, settled, stored,
          outages, faults>>

Kinds == {"targeted", "broadcast", "report"}
Phases == {"call", "miss", "query", "decide", "store", "publish", "dead"}

\* A call of routeToCluster ("route") or of handleDistributedUserNotFound.
Frame == [kind : {"route", "report"}, phase : Phases, aim : BOOLEAN,
          todo : SUBSET Nodes, miss : SUBSET Nodes, fallback : SUBSET Nodes,
          delivered : BOOLEAN, rejected : BOOLEAN, rerouted : BOOLEAN,
          entry : Nat, seen : SUBSET Nodes]

Guard == [attempted : SUBSET Nodes, rejected : SUBSET Nodes, p2p : BOOLEAN]

TypeOK ==
    /\ setup \in Setups
    /\ alive \subseteq Nodes /\ subscribed \subseteq alive /\ known \subseteq Nodes
    /\ present \subseteq alive /\ index \subseteq Nodes /\ healing \subseteq Nodes
    /\ guards \in Seq(Guard) /\ guard \in 0 .. Len(guards)
    /\ chan \in [Kinds \X Nodes -> Nat] /\ probes \in [Nodes -> Nat]
    /\ stack \in [Threads -> Seq(Frame)]
    /\ pc \in {"start", "p2p", "offline", "retry", "done"}
    /\ tries \in 0 .. MaxTries /\ result \in {"none", "ok", "err"}
    /\ timer \in BOOLEAN /\ settled \in BOOLEAN
    /\ accepted \in [Nodes -> Nat] /\ aimed \in [Nodes -> Nat] /\ stored \in Nat
    /\ outages \in 0 .. setup.outages /\ faults \in 0 .. setup.faults

NoOne == [n \in Nodes |-> 0]

Init ==
    /\ setup \in Setups
    /\ alive = Nodes /\ present = setup.at /\ index = setup.index
    /\ subscribed = IF setup.pubsub THEN Nodes ELSE {}
    /\ known = setup.known
    /\ healing = {} /\ accepted = NoOne /\ aimed = NoOne
    /\ guards = <<>> /\ guard = 0
    /\ chan = [k \in Kinds \X Nodes |-> 0] /\ probes = NoOne
    /\ stack = [t \in Threads |-> <<>>]
    /\ pc = "start" /\ tries = 0 /\ result = "none" /\ timer = FALSE
    /\ settled = FALSE /\ stored = 0
    /\ outages = 0 /\ faults = 0

Fault == faults < setup.faults /\ faults' = faults + 1

\* StoreOfflineOnDeliveryFailure and StoreOfflineMessage: the status becomes
\* user_offline and the ACK timeout is cancelled.
StoreOffline == stored' = stored + 1 /\ settled' = TRUE

-----------------------------------------------------------------------------
(* The reroute guard.                                                      *)

\* LoadOrStore: the entries, and the place of the one that was there or is new.
Loaded(p2p) ==
    IF guard = 0
    THEN Append(guards, [attempted |-> {}, rejected |-> {}, p2p |-> p2p])
    ELSE guards

LoadedAt == IF guard = 0 THEN Len(guards) + 1 ELSE guard

markRerouteAttempted(targets, p2p) ==
    /\ guards' = [Loaded(p2p) EXCEPT ![LoadedAt].attempted = @ \cup targets,
                                     ![LoadedAt].p2p = @ \/ p2p]
    /\ guard' = LoadedAt

markRerouteRejected(n) ==
    /\ guards' = [Loaded(FALSE) EXCEPT ![LoadedAt].rejected = @ \cup {n}]
    /\ guard' = LoadedAt

-----------------------------------------------------------------------------
(* Frames.                                                                 *)

Top(t) == Head(stack[t])

In(t, phase) == stack[t] # <<>> /\ Top(t).phase = phase

SetTop(t, f) == stack' = [stack EXCEPT ![t] = <<f>> \o Tail(@)]

Goto(t, phase) == SetTop(t, [Top(t) EXCEPT !.phase = phase])

\* A new call of routeToCluster; aim: TargetNodeIDs is set.
Route(targets, aim) ==
    [kind |-> "route", phase |-> "call", aim |-> aim, todo |-> targets,
     miss |-> {}, fallback |-> {}, delivered |-> FALSE, rejected |-> FALSE,
     rerouted |-> FALSE, entry |-> 0, seen |-> {}]

Report(n) == [Route({}, TRUE) EXCEPT !.kind = "report", !.phase = "miss", !.miss = {n}]

\* routeToCluster returns: to decideUserNotFoundReroute, whose caller learns
\* whether the reroute went well, or to the sender.
Return(t, ok) ==
    LET rest == Tail(stack[t])
    IN  IF rest = <<>>
        THEN /\ stack' = [stack EXCEPT ![t] = <<>>]
             /\ result' = IF ok THEN "ok" ELSE "err"
        ELSE /\ stack' = [stack EXCEPT ![t] =
                    <<[Head(rest) EXCEPT !.phase = "miss",
                                         !.rerouted = @ \/ ok]>> \o Tail(rest)]
             /\ UNCHANGED result

-----------------------------------------------------------------------------
(* routeToCluster, part one: gRPC to every target, and what it returned.   *)

\* The connections of the user on n take the message.
Accept(n, single) ==
    /\ accepted' = [accepted EXCEPT ![n] = @ + 1]
    /\ aimed' = IF single THEN [aimed EXCEPT ![n] = @ + 1] ELSE aimed
    /\ settled' = TRUE
    /\ UNCHANGED healing

\* n has no connection of the user and starts to clean its index entries.
NotHere(n) ==
    /\ healing' = healing \cup {n}
    /\ UNCHANGED <<accepted, aimed, settled>>

Untouched == UNCHANGED <<node, settled>>

\* executeGRPCDispatch of a send, and GRPCServer.SendToUser on the other side.
executeGRPCDispatch(n, outcome) ==
    \/ outcome = "fallback" /\ n \notin alive /\ Untouched /\ UNCHANGED faults
    \/ /\ n \in alive \cap present /\ Accept(n, TRUE)
       /\ \/ outcome = "delivered" /\ UNCHANGED faults
          \/ outcome = "fallback" /\ Fault           \* the answer is lost
    \/ outcome = "rejected" /\ n \in alive \cap present /\ Untouched /\ Fault
    \/ outcome = "miss" /\ n \in alive \ present /\ NotHere(n) /\ UNCHANGED faults
    \/ outcome = "fallback" /\ n \in alive /\ Untouched /\ Fault    \* the call is lost

\* dispatchViaGRPC, the worker of one target.  A worker that panics leaves
\* its outcome at zero, which is delivered.
Dispatch(t, n) ==
    LET f == [Top(t) EXCEPT !.todo = @ \ {n}]
    IN  /\ In(t, "call") /\ setup.grpc /\ n \in Top(t).todo
        /\ \E outcome \in {"delivered", "fallback", "miss", "rejected"} :
             /\ \/ n \in known /\ executeGRPCDispatch(n, outcome)
                \/ n \in known /\ outcome = "delivered" /\ Untouched /\ Fault
                \/ n \notin known /\ outcome = "fallback" /\ Untouched /\ UNCHANGED faults
             /\ SetTop(t, [f EXCEPT
                    !.delivered = @ \/ outcome = "delivered",
                    !.rejected = @ \/ outcome = "rejected",
                    !.miss = IF outcome = "miss" THEN @ \cup {n} ELSE @,
                    !.fallback = IF outcome = "fallback" THEN @ \cup {n} ELSE @])
        /\ UNCHANGED <<setup, env, guards, guard, chan, probes, sender, stored, outages>>

\* All workers are done, or gRPC is off.  Targets that refused: an error if
\* nobody took the message, else the message is also stored for them.
Answered(t) ==
    LET f == [Top(t) EXCEPT !.phase = "miss", !.todo = {},
                            !.fallback = @ \cup Top(t).todo]
    IN  /\ In(t, "call") /\ (setup.grpc => Top(t).todo = {})
        /\ \/ /\ f.rejected /\ ~f.delivered
              /\ Return(t, FALSE) /\ UNCHANGED <<stored, settled>>
           \/ /\ f.rejected /\ f.delivered
              /\ SetTop(t, f) /\ UNCHANGED result
              /\ IF f.aim THEN StoreOffline ELSE UNCHANGED <<stored, settled>>
           \/ /\ ~f.rejected
              /\ SetTop(t, f) /\ UNCHANGED <<result, stored, settled>>
        /\ UNCHANGED <<setup, env, node, guards, guard, chan, probes, pc, tries, timer,
                       outages, faults>>

-----------------------------------------------------------------------------
(* decideUserNotFoundReroute, for each node that has said user_not_found.  *)

MarkMiss(t) ==
    /\ In(t, "miss")
    /\ \E n \in Top(t).miss :
         /\ markRerouteRejected(n)
         /\ SetTop(t, [Top(t) EXCEPT !.phase = "query", !.miss = @ \ {n},
                                     !.entry = LoadedAt])
    /\ UNCHANGED <<setup, env, node, chan, probes, sender, settled, stored, outages, faults>>

Requery(t) ==
    /\ In(t, "query")
    /\ \/ SetTop(t, [Top(t) EXCEPT !.phase = "decide", !.seen = index]) /\ UNCHANGED faults
       \/ Goto(t, "miss") /\ Fault
    /\ UNCHANGED <<setup, env, node, guards, guard, chan, probes, sender, settled, stored,
                   outages>>

\* Faulty: the new nodes are not booked.
Decide_Unbooked(t) ==
    LET e == guards[Top(t).entry]
        candidates == Top(t).seen \ (e.attempted \cup e.rejected)
        allRejected == e.attempted # {} /\ e.attempted \subseteq e.rejected
    IN  /\ In(t, "decide")
        /\ \/ /\ candidates # {}
              /\ stack' = [stack EXCEPT ![t] = <<Route(candidates, TRUE)>> \o @]
           \/ /\ candidates = {}
              /\ Goto(t, IF allRejected /\ e.p2p THEN "store" ELSE "miss")
        /\ UNCHANGED <<setup, env, node, guards, guard, chan, probes, sender, settled, stored,
                       outages, faults>>

\* Under the lock of the entry: new nodes are booked before they are tried.
Decide(t) ==
    LET e == guards[Top(t).entry]
        candidates == Top(t).seen \ (e.attempted \cup e.rejected)
        allRejected == e.attempted # {} /\ e.attempted \subseteq e.rejected
    IN  /\ In(t, "decide")
        /\ \/ /\ candidates # {}
              /\ guards' = [guards EXCEPT ![Top(t).entry].attempted = @ \cup candidates]
              /\ stack' = [stack EXCEPT ![t] = <<Route(candidates, TRUE)>> \o @]
           \/ /\ candidates = {}
              /\ Goto(t, IF allRejected /\ e.p2p THEN "store" ELSE "miss")
              /\ UNCHANGED guards
        /\ UNCHANGED <<setup, env, node, guard, chan, probes, sender, settled, stored,
                       outages, faults>>

\* Faulty: the guard is dropped and nothing stored.
StoreRejected_Drop(t) ==
    /\ In(t, "store")
    /\ guard' = 0
    /\ Goto(t, "miss")
    /\ UNCHANGED <<setup, env, node, guards, chan, probes, sender, settled, stored,
                   outages, faults>>

StoreRejected(t) ==
    /\ In(t, "store")
    /\ StoreOffline
    /\ guard' = 0
    /\ Goto(t, "miss")
    /\ UNCHANGED <<setup, env, node, guards, chan, probes, sender, outages, faults>>

\* The last node has been dealt with.
MissesDone(t) ==
    /\ In(t, "miss") /\ Top(t).miss = {}
    /\ IF Top(t).kind = "route" THEN Goto(t, "publish")
       ELSE stack' = [stack EXCEPT ![t] = <<>>]
    /\ UNCHANGED <<setup, env, node, guards, guard, chan, probes, sender, settled, stored,
                   outages, faults>>

-----------------------------------------------------------------------------
(* routeToCluster, part two: PubSub for what gRPC did not settle.          *)

Published(kind, ns) ==
    [m \in Kinds \X Nodes |-> IF m[1] = kind /\ m[2] \in ns THEN chan[m] + 1 ELSE chan[m]]

\* handleDeadNodesForP2P: nobody listens on the channels of the dead nodes,
\* and the index names no other node.
handleDeadNodesForP2P(dead) ==
    IF index # {} /\ index \subseteq dead THEN StoreOffline ELSE UNCHANGED <<stored, settled>>

\* publishToTargetedNodes: a node that nobody listens for is probed again
\* when its heartbeat is fresh, and dead otherwise.
PublishTargeted(t) ==
    LET f == Top(t)
    IN  \E failed \in SUBSET f.fallback :
          LET silent == f.fallback \ (failed \cup subscribed)
              dead == silent \ known
          IN  /\ chan' = Published("targeted", (f.fallback \ failed) \cap subscribed)
              /\ probes' = [n \in Nodes |->
                    IF n \in silent \cap known THEN probes[n] + 1 ELSE probes[n]]
              /\ \/ /\ failed # {} /\ Fault
                    /\ Return(t, f.delivered)
                 \/ /\ failed = {} /\ dead = {} /\ UNCHANGED faults
                    /\ Return(t, TRUE)
                 \/ /\ failed = {} /\ dead # {} /\ UNCHANGED <<faults, result>>
                    /\ SetTop(t, [f EXCEPT !.phase = "dead", !.fallback = dead])

\* publishToCluster, on the channel of all nodes.
PublishAll(t) ==
    /\ UNCHANGED probes
    /\ \/ chan' = Published("broadcast", subscribed) /\ Return(t, TRUE) /\ UNCHANGED faults
       \/ UNCHANGED chan /\ Return(t, FALSE) /\ Fault

Publish(t) ==
    LET f == Top(t)
        covered == f.fallback = {} /\ f.delivered
    IN  /\ In(t, "publish")
        /\ \/ setup.pubsub /\ f.fallback # {} /\ PublishTargeted(t)
           \/ setup.pubsub /\ f.fallback = {} /\ ~f.delivered /\ ~f.rerouted /\ PublishAll(t)
           \/ /\ covered \/ ~setup.pubsub \/ (f.fallback = {} /\ f.rerouted)
              /\ Return(t, f.delivered \/ f.rerouted)
              /\ UNCHANGED <<chan, probes, faults>>
        /\ UNCHANGED <<setup, env, node, guards, guard, pc, tries, timer, settled, stored,
                       outages>>

DeadNodes(t) ==
    /\ In(t, "dead")
    /\ \/ handleDeadNodesForP2P(Top(t).fallback) /\ UNCHANGED faults
       \/ UNCHANGED <<stored, settled>> /\ Fault      \* the query fails
    /\ Return(t, TRUE)
    /\ UNCHANGED <<setup, env, node, guards, guard, chan, probes, pc, tries, timer, outages>>

\* probeDeadNodeAsync, after deadNodeProbeRetryDelay.
Probe(n) ==
    /\ probes[n] > 0
    /\ probes' = [probes EXCEPT ![n] = @ - 1]
    /\ \/ /\ n \in subscribed
          /\ chan' = Published("targeted", {n}) /\ UNCHANGED <<stored, settled, faults>>
       \/ n \notin subscribed /\ handleDeadNodesForP2P({n}) /\ UNCHANGED <<chan, faults>>
       \/ /\ Fault /\ UNCHANGED chan       \* the publication, or the query, fails
          /\ handleDeadNodesForP2P({n}) \/ UNCHANGED <<stored, settled>>
    /\ UNCHANGED <<setup, env, node, guards, guard, stack, sender, outages>>

-----------------------------------------------------------------------------
(* The subscriptions: handleDistributedSendMessage on the other nodes,     *)
(* handleDistributedUserNotFound here.                                     *)

Taken(m) == [chan EXCEPT ![m] = @ - 1]

\* A refusal stores the message and is an error, so PubSub may try again.
HandleSendMessage(kind, n) ==
    /\ kind \in {"targeted", "broadcast"} /\ chan[kind, n] > 0
    /\ \/ /\ n \in present
          /\ Accept(n, kind = "targeted")
          /\ chan' = Taken(<<kind, n>>) /\ UNCHANGED <<stored, faults>>
       \/ /\ n \in present /\ Fault
          /\ StoreOffline
          /\ chan' \in {chan, Taken(<<kind, n>>)} /\ UNCHANGED node
       \/ /\ n \notin present /\ kind = "targeted"
          /\ NotHere(n)
          /\ chan' = [Taken(<<kind, n>>) EXCEPT !["report", n] = @ + 1]
          /\ UNCHANGED <<stored, faults>>
       \/ /\ n \notin present /\ kind = "broadcast"
          /\ chan' = Taken(<<kind, n>>) /\ Untouched /\ UNCHANGED <<stored, faults>>
    /\ UNCHANGED <<setup, env, guards, guard, probes, stack, sender, outages>>

HandleUserNotFound(n) ==
    /\ chan["report", n] > 0 /\ stack["sub"] = <<>>
    /\ chan' = Taken(<<"report", n>>)
    /\ stack' = [stack EXCEPT !["sub"] = <<Report(n)>>]
    /\ UNCHANGED <<setup, env, node, guards, guard, probes, sender, settled, stored,
                   outages, faults>>

\* PubSub drops a message.
Lose(m) ==
    /\ chan[m] > 0 /\ Fault
    /\ chan' = Taken(m)
    /\ UNCHANGED <<setup, env, node, guards, guard, probes, stack, sender, settled, stored,
                   outages>>

\* doSelfHealDeadIndexEntries.
SelfHeal(n) ==
    /\ n \in healing
    /\ healing' = healing \ {n}
    /\ index' = IF n \in present THEN index ELSE index \ {n}
    /\ UNCHANGED <<setup, alive, subscribed, known, present, accepted, aimed, guards, guard,
                   chan, probes, stack, sender, settled, stored, outages, faults>>

-----------------------------------------------------------------------------
(* The sender: sendToUserWithRetryCore, sendToUser, checkAndRouteToNode.   *)

Call(frame) == stack' = [stack EXCEPT !["send"] = <<frame>>]

\* An attempt to send to the nodes the user is on, the record written first.
Attempt(nodes) ==
    /\ pc' = "p2p" /\ tries' = tries + 1 /\ timer' = TRUE
    /\ IF nodes # {}
       THEN /\ markRerouteAttempted(nodes, TRUE)
            /\ Call(Route(nodes, TRUE)) /\ result' = "none"
       ELSE result' = "err" /\ UNCHANGED <<guards, guard, stack>>
    /\ UNCHANGED faults

\* doOfflineBroadcast: the user is in no index, all nodes are asked.
AskAll ==
    /\ pc' = "offline"
    /\ markRerouteAttempted(known, FALSE)
    /\ Call(Route(known, FALSE))
    /\ UNCHANGED <<tries, timer, result>>

Send ==
    /\ pc = "start"
    /\ \/ index # {} /\ Attempt(index)
       \/ index = {} /\ AskAll /\ UNCHANGED faults
       \/ index # {} /\ AskAll /\ Fault        \* BatchGetUserNodes fails
    /\ UNCHANGED <<setup, env, node, chan, probes, settled, stored, outages>>

\* An attempt after a failed one looks the user up again, in the index or in
\* what the lookup of an earlier message has left in nodeIndexCache.
Retry ==
    /\ pc = "retry"
    /\ \/ \E nodes \in {index, setup.index} : Attempt(nodes)
       \/ /\ pc' = "p2p" /\ tries' = tries + 1 /\ result' = "err" /\ Fault
          /\ UNCHANGED <<timer, guards, guard, stack>>
    /\ UNCHANGED <<setup, env, node, chan, probes, settled, stored, outages>>

Returned ==
    /\ result # "none" /\ pc \in {"p2p", "offline"}
    /\ \/ /\ pc = "p2p" /\ result = "ok"
          /\ pc' = "done" /\ UNCHANGED <<stored, settled>>
       \/ /\ pc = "p2p" /\ result = "err" /\ tries < MaxTries
          /\ pc' = "retry" /\ UNCHANGED <<stored, settled>>
       \/ /\ pc = "offline" \/ (result = "err" /\ tries = MaxTries)
          /\ pc' = "done" /\ StoreOffline
    /\ result' = "none"
    /\ UNCHANGED <<setup, env, node, guards, guard, chan, probes, stack, tries, timer,
                   outages, faults>>

\* Nothing happens to the message any more.
Quiet ==
    /\ pc = "done" /\ \A t \in Threads : stack[t] = <<>>
    /\ \A m \in DOMAIN chan : chan[m] = 0
    /\ \A n \in Nodes : probes[n] = 0

\* Faulty: the record is claimed and the message not stored.
AckTimeout_NoStore ==
    /\ Quiet /\ timer
    /\ timer' = FALSE /\ guard' = 0 /\ settled' = TRUE
    /\ UNCHANGED <<setup, env, node, guards, chan, probes, stack, pc, tries, result, stored,
                   outages, faults>>

\* makeAckTimeoutCallback.  Its 30 s are longer than any step here.
AckTimeout ==
    /\ Quiet /\ timer
    /\ timer' = FALSE /\ guard' = 0
    /\ IF settled THEN UNCHANGED <<stored, settled>> ELSE StoreOffline
    /\ UNCHANGED <<setup, env, node, guards, chan, probes, stack, pc, tries, result,
                   outages, faults>>

\* sweepRerouteGuard, two minutes later.
SweepRerouteGuard ==
    /\ Quiet /\ ~timer /\ guard # 0
    /\ guard' = 0
    /\ UNCHANGED <<setup, env, node, guards, chan, probes, stack, sender, settled, stored,
                   outages, faults>>

-----------------------------------------------------------------------------
(* The user and the cluster.                                               *)

quietVars == <<setup, node, guards, guard, chan, probes, stack, sender, settled, stored, faults>>

Connect(n) ==
    /\ n \in (setup.roams \cap alive) \ present
    /\ present' = present \cup {n}
    /\ UNCHANGED <<alive, subscribed, known, index, outages, quietVars>>

Disconnect(n) ==
    /\ n \in setup.roams \cap present
    /\ present' = present \ {n}
    /\ UNCHANGED <<alive, subscribed, known, index, outages, quietVars>>

\* OnlineIndex: an entry is written some time after the connection is there,
\* and fades some time after it is gone.
IndexFollows(n) ==
    /\ \/ n \in present \ index /\ index' = index \cup {n}
       \/ n \in index \ present /\ index' = index \ {n}
    /\ UNCHANGED <<alive, subscribed, known, present, outages, quietVars>>

Outage == outages < setup.outages /\ outages' = outages + 1

\* What was on its way to the node, or to be done by it, is gone.
Crash(n) ==
    /\ n \in alive /\ Outage
    /\ alive' = alive \ {n} /\ subscribed' = subscribed \ {n} /\ present' = present \ {n}
    /\ healing' = healing \ {n}
    /\ chan' = [chan EXCEPT !["targeted", n] = 0, !["broadcast", n] = 0]
    /\ UNCHANGED <<setup, known, index, accepted, aimed, guards, guard, probes, stack,
                   sender, settled, stored, faults>>

\* The subscription breaks, and is made again.
Unsubscribe(n) ==
    /\ n \in subscribed /\ Outage
    /\ subscribed' = subscribed \ {n}
    /\ UNCHANGED <<alive, known, present, index, quietVars>>

Resubscribe(n) ==
    /\ setup.pubsub /\ n \in alive \ subscribed
    /\ subscribed' = subscribed \cup {n}
    /\ UNCHANGED <<alive, known, present, index, outages, quietVars>>

\* refreshNodes: a new node is discovered, the heartbeat of a dead one expires.
RefreshNodes(n) ==
    /\ \/ setup.grpc /\ n \in alive \ known /\ known' = known \cup {n}
       \/ n \in known \ alive /\ known' = known \ {n}
    /\ UNCHANGED <<alive, subscribed, present, index, outages, quietVars>>

-----------------------------------------------------------------------------
Thread(t) ==
    \/ \E n \in Nodes : Dispatch(t, n)
    \/ Answered(t) \/ MarkMiss(t) \/ Requery(t) \/ Decide(t) \/ StoreRejected(t)
    \/ MissesDone(t) \/ Publish(t) \/ DeadNodes(t)

Sender == Send \/ Retry \/ Returned \/ Thread("send")

Subscriber == (\E n \in Nodes : HandleUserNotFound(n)) \/ Thread("sub")

OtherNode(n) == Probe(n) \/ \E kind \in Kinds : HandleSendMessage(kind, n)

Environment ==
    \E n \in Nodes :
        \/ SelfHeal(n) \/ Connect(n) \/ Disconnect(n) \/ IndexFollows(n) \/ Crash(n)
        \/ Unsubscribe(n) \/ Resubscribe(n) \/ RefreshNodes(n)
        \/ \E kind \in Kinds : Lose(<<kind, n>>)

Next ==
    \/ Sender \/ Subscriber \/ AckTimeout \/ SweepRerouteGuard \/ Environment
    \/ \E n \in Nodes : OtherNode(n)

Spec == Init /\ [][Next]_vars

\* Goroutines run, subscriptions are read, the timer wheel turns.
Fairness ==
    /\ WF_vars(Sender) /\ WF_vars(Subscriber)
    /\ \A n \in Nodes : WF_vars(OtherNode(n))
    /\ WF_vars(AckTimeout) /\ WF_vars(SweepRerouteGuard)

FairSpec == Spec /\ Fairness

-----------------------------------------------------------------------------
(* Properties *)

Received == \E n \in Nodes : accepted[n] > 0

\* Without lost answers and failed publications no node is made to deliver
\* the message twice, however the user moves while it is routed: the guard
\* books a node before it is tried and never tries it again.
OneDispatchPerNode == faults = 0 => \A n \in Nodes : aimed[n] <= 1

\* While nodes run and calls succeed, a message whose routing is over has
\* been accepted or stored: nothing waits for the ACK timeout.
SettledAtOnce == Quiet /\ outages = 0 /\ faults = 0 => Received \/ stored > 0

\* Once a message was sent its routing comes to an end, although the user goes on
\* moving and calls fail: the guard does not let it go back and forth between the
\* nodes, it is accepted or stored, and the guard is removed by the ACK timeout or
\* by the sweep, also when late reports have made it anew.
RoutingSettles == []<>(pc = "start" \/ (Quiet /\ guard = 0 /\ (Received \/ stored > 0)))

\* Routing neither repeats itself nor gives up: where nothing is lost on the way,
\* a node is made to deliver at most once, and the message has a fate as soon as
\* its routing is over.
RoutingIsExact == OneDispatchPerNode /\ SettledAtOnce
=============================================================================
