--------------------------- MODULE BrokerBridge ---------------------------
(***************************************************************************)
(* Other services publish messages to an event bus and the nodes consume   *)
(* them: a message of the topic deliver goes to one node, one of the topic *)
(* broadcast to every node.  The bus is the one of adapter/memory: per     *)
(* topic a bounded queue and one dispatcher, which calls a handler again   *)
(* when it fails, a bounded number of times.  The handler of a node skips  *)
(* what its window of two generations has seen, marks a message before it  *)
(* is delivered and unmarks it when the delivery fails.                    *)
(*                                                                         *)
(* A key is dropped after two swaps of the generations; swaps are due to   *)
(* time and made by Seen.  What Deliver does is modelled elsewhere.        *)
(***************************************************************************)
EXTENDS Naturals, Sequences, FiniteSets

CONSTANTS
    BrNodes,        \* subscribers in the order of their subscription
    BrScenarios,    \* the envelopes published, by publication
    BrQueueSize,    \* dispatchQueueSize
    BrMaxRedeliver, \* maxRedeliver
    BrMaxErrors,    \* bound on deliveries that fail
    BrMaxPanics,    \* bound on deliveries that panic
    BrMaxSwaps      \* bound on swaps of the generations

BrTopics == {"deliver", "broadcast"}
BrKeys == UNION {{s[p].key : p \in DOMAIN s} : s \in BrScenarios}
BrNodeSet == {BrNodes[i] : i \in DOMAIN BrNodes}

ASSUME BrAssumption ==
    /\ BrNodes \in Seq(BrNodeSet) /\ BrNodes # <<>> /\ BrQueueSize \in Nat \ {0} /\ BrMaxRedeliver \in Nat
    /\ BrMaxErrors \in Nat /\ BrMaxPanics \in Nat /\ BrMaxSwaps \in Nat
    /\ \A s \in BrScenarios : \A p \in DOMAIN s :
        s[p] \in [key : BrKeys, topic : BrTopics, express : BOOLEAN, valid : BOOLEAN]

VARIABLES
    brEnv,      \* the envelopes
    brPub,      \* of a publication: "new", "entered" (the topic is looked up), "done"
    brQueue,    \* of a topic
    brDisp,     \* its dispatcher: place, envelope, nodes to serve, attempt
    brCursor,   \* rrCursor of deliver
    brActive, brPrev,   \* the generations of a node
    brBus,      \* "open", "stopping", "closed"
    brErrors,   \* deliveries failed
    brPanicked, \* keys whose delivery panicked, per node
    brSwaps,    \* swaps made
    brDelivered,\* keys a node has delivered
    brAcked,    \* keys a node has acknowledged
    brAge       \* swaps since a node marked a key, 2 when out of the window

brWindow == <<brActive, brPrev, brAge, brSwaps>>
brFaults == <<brErrors, brPanicked>>
brGhost == <<brDelivered, brAcked, brEnv>>
brVars == <<brPub, brQueue, brDisp, brCursor, brWindow, brBus, brFaults, brGhost>>

BrIdle == [pc |-> "idle", env |-> 0, to |-> <<>>, attempt |-> 0]

BrInit ==
    /\ brEnv \in BrScenarios
    /\ brPub = [p \in DOMAIN brEnv |-> "new"]
    /\ brQueue = [t \in BrTopics |-> <<>>]
    /\ brDisp = [t \in BrTopics |-> BrIdle]
    /\ brCursor = 0
    /\ brActive = [n \in BrNodeSet |-> {}]
    /\ brPrev = brActive
    /\ brBus = "open"
    /\ brErrors = 0 /\ brSwaps = 0
    /\ brPanicked = brActive
    /\ brDelivered = brActive
    /\ brAcked = brActive
    /\ brAge = [n \in BrNodeSet |-> [k \in BrKeys |-> 2]]
-----------------------------------------------------------------------------
\* Publish: the topic is looked up while the bus is open; what follows may come
\* after Close, and then either branch of the select is taken.
PublishEnter(p) ==
    /\ brPub[p] = "new"
    /\ brPub' = [brPub EXCEPT ![p] = IF brBus = "open" THEN "entered" ELSE "done"]
    /\ UNCHANGED <<brQueue, brDisp, brCursor, brWindow, brBus, brFaults, brGhost>>

Enqueue(p) ==
    LET t == brEnv[p].topic IN
    /\ brPub[p] = "entered"
    /\ \/ /\ Len(brQueue[t]) < BrQueueSize
          /\ brQueue' = [brQueue EXCEPT ![t] = Append(@, p)]
       \/ brBus # "open" /\ UNCHANGED brQueue
    /\ brPub' = [brPub EXCEPT ![p] = "done"]
    /\ UNCHANGED <<brDisp, brCursor, brWindow, brBus, brFaults, brGhost>>

\* dispatch: one node in turn, or every node.
BrDispatch(t) ==
    LET p == Head(brQueue[t]) IN
    /\ brDisp[t].pc = "idle" /\ brQueue[t] # <<>>
    /\ brQueue' = [brQueue EXCEPT ![t] = Tail(@)]
    /\ brDisp' = [brDisp EXCEPT ![t] =
                    [pc |-> "call", env |-> p, attempt |-> 0,
                     to |-> IF t = "broadcast" THEN BrNodes
                            ELSE <<BrNodes[(brCursor % Len(BrNodes)) + 1]>>]]
    /\ brCursor' = IF t = "deliver" THEN brCursor + 1 ELSE brCursor
    /\ UNCHANGED <<brPub, brWindow, brBus, brFaults, brGhost>>

\* The handler has returned nil: the next node, if any.
BrAckNext(t) ==
    brDisp' = IF Len(brDisp[t].to) = 1 THEN [brDisp EXCEPT ![t] = BrIdle]
              ELSE [brDisp EXCEPT ![t].pc = "call", ![t].to = Tail(@), ![t].attempt = 0]

\* deliverWithRetry after an error.
BrNack(t) ==
    IF brDisp[t].attempt < BrMaxRedeliver
    THEN brDisp' = [brDisp EXCEPT ![t].pc = "call", ![t].attempt = @ + 1]
    ELSE BrAckNext(t)

\* The generations of a node after i swaps.
ActiveAfter(n, i) == IF i = 0 THEN brActive[n] ELSE {}
PrevAfter_None(n, i) == IF i = 0 THEN brPrev[n] ELSE {}
PrevAfter(n, i) == CASE i = 0 -> brPrev[n] [] i = 1 -> brActive[n] [] OTHER -> {}

\* handle: validation, and Seen unless the message is express.  Seen first makes
\* the swaps that are due.
Handle(t) ==
    LET d == brDisp[t]
        env == brEnv[d.env]
        n == Head(d.to) IN
    /\ d.pc = "call"
    /\ \/ ~env.valid /\ BrAckNext(t) /\ UNCHANGED <<brWindow, brGhost>>
       \/ /\ env.valid /\ env.express
          /\ brDisp' = [brDisp EXCEPT ![t].pc = "deliver"]
          /\ UNCHANGED <<brWindow, brGhost>>
       \/ /\ env.valid /\ ~env.express
          /\ \E i \in 0..2 :
              LET active == ActiveAfter(n, i)
                  prev == PrevAfter(n, i)
                  first == env.key \notin active \cup prev IN
              /\ brSwaps + i <= BrMaxSwaps
              /\ brSwaps' = brSwaps + i
              /\ brPrev' = [brPrev EXCEPT ![n] = prev]
              /\ brActive' = [brActive EXCEPT ![n] = IF first THEN active \cup {env.key} ELSE active]
              /\ brAge' = [brAge EXCEPT ![n] = [k \in BrKeys |->
                    IF first /\ k = env.key THEN 0 ELSE IF @[k] + i > 2 THEN 2 ELSE @[k] + i]]
              /\ IF first
                 THEN brDisp' = [brDisp EXCEPT ![t].pc = "deliver"] /\ UNCHANGED brAcked
                 ELSE BrAckNext(t) /\ brAcked' = [brAcked EXCEPT ![n] = @ \cup {env.key}]
              /\ UNCHANGED <<brDelivered, brEnv>>
    /\ UNCHANGED <<brPub, brQueue, brCursor, brBus, brFaults>>

BrDeliver(t) ==
    LET n == Head(brDisp[t].to)
        k == brEnv[brDisp[t].env].key IN
    /\ brDisp[t].pc = "deliver"
    /\ brDelivered' = [brDelivered EXCEPT ![n] = @ \cup {k}]
    /\ brAcked' = [brAcked EXCEPT ![n] = @ \cup {k}]
    /\ BrAckNext(t)
    /\ UNCHANGED <<brEnv, brPub, brQueue, brCursor, brWindow, brBus, brFaults>>

DeliverFails_StaysMarked(t) ==
    /\ brDisp[t].pc = "deliver" /\ brErrors < BrMaxErrors
    /\ brErrors' = brErrors + 1
    /\ BrNack(t)
    /\ UNCHANGED <<brPub, brQueue, brCursor, brWindow, brBus, brPanicked, brGhost>>

\* Unmark, from both generations, and NACK.
DeliverFails(t) ==
    LET n == Head(brDisp[t].to)
        env == brEnv[brDisp[t].env]
        gone == IF env.express THEN {} ELSE {env.key} IN
    /\ brDisp[t].pc = "deliver" /\ brErrors < BrMaxErrors
    /\ brErrors' = brErrors + 1
    /\ brActive' = [brActive EXCEPT ![n] = @ \ gone]
    /\ brPrev' = [brPrev EXCEPT ![n] = @ \ gone]
    /\ brAge' = [brAge EXCEPT ![n] = [k \in BrKeys |-> IF k \in gone THEN 2 ELSE @[k]]]
    /\ BrNack(t)
    /\ UNCHANGED <<brPub, brQueue, brCursor, brSwaps, brBus, brPanicked, brGhost>>

\* A panic of Deliver passes handle by and is a NACK in invoke.
DeliverPanics(t) ==
    /\ brDisp[t].pc = "deliver" /\ \A m \in BrNodeSet : Cardinality(brPanicked[m]) < BrMaxPanics
    /\ brPanicked' = [brPanicked EXCEPT ![Head(brDisp[t].to)] = @ \cup {brEnv[brDisp[t].env].key}]
    /\ BrNack(t)
    /\ UNCHANGED <<brPub, brQueue, brCursor, brWindow, brBus, brErrors, brGhost>>

\* Close, and the dispatchers that leave once their queue is empty.
BusClose ==
    /\ brBus = "open"
    /\ brBus' = "stopping"
    /\ UNCHANGED <<brPub, brQueue, brDisp, brCursor, brWindow, brFaults, brGhost>>

DispatcherExits(t) ==
    /\ brBus = "stopping" /\ brDisp[t].pc = "idle" /\ brQueue[t] = <<>>
    /\ brDisp' = [brDisp EXCEPT ![t].pc = "gone"]
    /\ brBus' = IF \A s \in BrTopics : brDisp'[s].pc = "gone" THEN "closed" ELSE brBus
    /\ UNCHANGED <<brPub, brQueue, brCursor, brWindow, brFaults, brGhost>>

BrStep(t) ==
    BrDispatch(t) \/ Handle(t) \/ BrDeliver(t) \/ DeliverFails(t) \/ DeliverPanics(t) \/ DispatcherExits(t)

BrNext ==
    \/ \E p \in DOMAIN brEnv : PublishEnter(p) \/ Enqueue(p)
    \/ \E t \in BrTopics : BrStep(t)
    \/ BusClose

BrSpec == BrInit /\ [][BrNext]_brVars
-----------------------------------------------------------------------------
(* A reliable message a node acknowledges has been delivered by it, unless  *)
(* its delivery panicked: neither the window that marks before the          *)
(* delivery, nor a redelivery after a failure, nor a second copy ends in a  *)
(* message confirmed and never delivered (Consumer.handle).                 *)
AckedWasDelivered ==
    \A n \in BrNodeSet : brAcked[n] \ brPanicked[n] \subseteq brDelivered[n]

(* A node starts to deliver a reliable message again only when its mark is  *)
(* out of the window: copies of the other topic, redeliveries and swaps in  *)
(* between do not let a second copy through earlier.                        *)
NoSecondCopy ==
    \A t \in BrTopics :
        LET env == brEnv[brDisp[t].env]
            n == Head(brDisp[t].to) IN
        (brDisp[t].pc = "call" /\ brDisp'[t].pc = "deliver" /\ ~env.express /\ brSwaps' < brSwaps + 2)
            => brAge[n][env.key] + (brSwaps' - brSwaps) >= 2

(* The window that drops second copies drops nothing else and lets none     *)
(* through: what a node confirms it delivered, what it has delivered it does *)
(* not deliver again while its window remembers it.                         *)
WindowIsExact == [][AckedWasDelivered' /\ NoSecondCopy]_brVars
=============================================================================
