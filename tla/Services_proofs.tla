------------------------ MODULE Services_proofs ------------------------
(***************************************************************************)
(* Three services of a node that share no variable: the window of the     *)
(* broker bridge (WindowExact), the workload of agents (WorkloadExact) and *)
(* the acknowledgements of clients (PromiseKept).                          *)
(***************************************************************************)
EXTENDS BrokerBridge, AgentWorkload, AckManager, TLAPS

(***************************************************************************)
(* The window of a broker consumer. BrInv says where a marked key is: it   *)
(* was delivered, its delivery panicked, or a dispatcher is delivering it; *)
(* and in which generation of the window it is, by its age.                *)
(***************************************************************************)

\* A key is published to one topic: an envelope of a broadcast has no receiver
\* in its key.
BrOneTopic ==
    \A s \in BrScenarios : \A p, q \in DOMAIN s : s[p].key = s[q].key => s[p].topic = s[q].topic

\* The values of brDisp.
BrDisps == [pc : {"idle", "call", "deliver", "gone"}, env : DOMAIN brEnv \cup {0}, to : Seq(BrNodeSet), attempt : Nat]

\* A dispatcher that is busy has an envelope of its topic and a node to serve.
BrBusy(t) == brDisp[t].pc \in {"call", "deliver"}

\* The types of the variables.
BrShape ==
    /\ brEnv \in BrScenarios
    /\ brQueue \in [BrTopics -> Seq(DOMAIN brEnv)]
    /\ brDisp \in [BrTopics -> BrDisps]
    /\ brCursor \in Nat /\ brSwaps \in Nat
    /\ brActive \in [BrNodeSet -> SUBSET BrKeys]
    /\ brPrev \in [BrNodeSet -> SUBSET BrKeys]
    /\ brAge \in [BrNodeSet -> [BrKeys -> 0 .. 2]]
    /\ brDelivered \in [BrNodeSet -> SUBSET BrKeys]
    /\ brAcked \in [BrNodeSet -> SUBSET BrKeys]
    /\ brPanicked \in [BrNodeSet -> SUBSET BrKeys]

\* Envelopes stay on the topic they were published to.
BrOnTopic ==
    \A t \in BrTopics :
        /\ \A i \in 1 .. Len(brQueue[t]) : brEnv[brQueue[t][i]].topic = t
        /\ BrBusy(t) => brDisp[t].env \in DOMAIN brEnv /\ brEnv[brDisp[t].env].topic = t /\ brDisp[t].to # <<>>

\* The age of a key says in which generation it is.
BrAges ==
    \A n \in BrNodeSet, k \in BrKeys :
        (brAge[n][k] = 0 => k \in brActive[n]) /\ (brAge[n][k] = 1 => k \in brPrev[n])

\* The dispatcher of t is delivering the reliable message k to n.
BrDelivering(t, n, k) ==
    /\ brDisp[t].pc = "deliver" /\ Head(brDisp[t].to) = n
    /\ brEnv[brDisp[t].env].key = k /\ brEnv[brDisp[t].env].express = FALSE

\* The keys a node has an answer for.
BrTold(n) == brDelivered[n] \cup brPanicked[n]

\* A key in the window was delivered, panicked, or is being delivered.
BrMarked ==
    \A n \in BrNodeSet : \A k \in brActive[n] \cup brPrev[n] :
        k \in BrTold(n) \/ \E t \in BrTopics : BrDelivering(t, n, k)

\* The inductive invariant.
BrInv ==
    /\ BrShape /\ BrOnTopic /\ BrAges
    /\ AckedWasDelivered
    /\ BrMarked

\* The window is empty and no dispatcher is busy.
LEMMA BrInitially == BrInit => BrInv
  BY DEF BrShape, BrDisps, BrIdle, BrOnTopic, BrBusy, BrAges, AckedWasDelivered, BrMarked, BrInv,
     BrInit

\* The dispatcher of t has done with a call: it is idle or calls again.
BrMovesOn(t) ==
    /\ brDisp' \in [BrTopics -> BrDisps]
    /\ \A u \in BrTopics : u # t => brDisp'[u] = brDisp[u]
    /\ brDisp'[t].pc \in {"idle", "call"}
    /\ brDisp'[t].pc = "call" => brDisp'[t].env = brDisp[t].env /\ brDisp'[t].to # <<>>

\* Both ends of a call, the acknowledgement and the redelivery, move it on.
LEMMA BrAckMoves ==
    ASSUME BrInv, NEW t \in BrTopics, BrBusy(t), BrAckNext(t) \/ BrNack(t)
    PROVE  BrMovesOn(t)
<1>1. /\ brDisp \in [BrTopics -> BrDisps] /\ brDisp[t] \in BrDisps /\ brDisp[t].to \in Seq(BrNodeSet)
      /\ brDisp[t].to # <<>> /\ brDisp[t].attempt \in Nat
  BY Zenon DEF BrInv, BrShape, BrOnTopic, BrDisps
<1>2. Tail(brDisp[t].to) \in Seq(BrNodeSet) /\ (Len(brDisp[t].to) # 1 => Tail(brDisp[t].to) # <<>>)
  <2>1. PICK s \in Seq(BrNodeSet) : s = brDisp[t].to /\ s # <<>>
    BY <1>1
  <2>2. Tail(s) \in Seq(BrNodeSet) /\ Len(Tail(s)) = Len(s) - 1 /\ Len(s) \in Nat /\ Len(<<>>) = 0
    BY <2>1
  <2>3. Len(s) # 1 => Tail(s) # <<>>
    <3>1. PICK e : e = Tail(s)
      BY Zenon
    <3>2. e = <<>> => Len(e) = 0
      OBVIOUS
    <3> QED  BY <2>2, <3>1, <3>2
  <2> QED  BY <2>1, <2>2, <2>3, Zenon
<1>3. CASE brDisp' = [brDisp EXCEPT ![t] = BrIdle]
  BY <1>1, <1>3 DEF BrIdle, BrDisps, BrMovesOn
<1>4. CASE Len(brDisp[t].to) # 1 /\ brDisp' = [brDisp EXCEPT ![t].pc = "call", ![t].to = Tail(@), ![t].attempt = 0]
  BY <1>1, <1>2, <1>4, Zenon DEF BrMovesOn, BrDisps
<1>5. CASE brDisp' = [brDisp EXCEPT ![t].pc = "call", ![t].attempt = @ + 1]
  BY <1>1, <1>5 DEF BrMovesOn, BrDisps
<1> QED  BY <1>3, <1>4, <1>5, Zenon DEF BrAckNext, BrNack

\* What such a step leaves for the other parts of the invariant.
LEMMA BrMovedOn ==
    ASSUME BrInv, NEW t \in BrTopics, BrBusy(t), BrMovesOn(t), UNCHANGED <<brEnv, brQueue>>
    PROVE  /\ BrOnTopic'
           /\ \A u \in BrTopics : \A n, k : u # t /\ BrDelivering(u, n, k) => BrDelivering(u, n, k)'
  BY DEF BrInv, BrOnTopic, BrBusy, BrMovesOn, BrDelivering

\* The node and the key of a call.
LEMMA BrCallOf ==
    ASSUME BrInv, NEW t \in BrTopics, BrBusy(t)
    PROVE  /\ Head(brDisp[t].to) \in BrNodeSet
           /\ brDisp[t].env \in DOMAIN brEnv /\ brEnv[brDisp[t].env].key \in BrKeys
           /\ brEnv[brDisp[t].env].topic = t
           /\ brEnv[brDisp[t].env].express \in BOOLEAN
  BY BrAssumption DEF BrInv, BrShape, BrOnTopic, BrDisps

\* A delivery that is accepted.
LEMMA BrDeliverKeeps ==
    ASSUME BrInv, NEW t \in BrTopics, BrDeliver(t)
    PROVE  BrInv'
<1>1. PICK n, k : n = Head(brDisp[t].to) /\ k = brEnv[brDisp[t].env].key
  BY Zenon
<1>2. /\ brDisp[t].pc = "deliver" /\ BrBusy(t)
      /\ brDelivered' = [brDelivered EXCEPT ![n] = @ \cup {k}] /\ brAcked' = [brAcked EXCEPT ![n] = @ \cup {k}]
      /\ UNCHANGED <<brEnv, brQueue, brCursor, brActive, brPrev, brAge, brSwaps, brPanicked>>
  BY <1>1, Zenon DEF BrDeliver, BrBusy, brWindow, brFaults
<1>3. n \in BrNodeSet /\ k \in BrKeys
  BY <1>1, <1>2, BrCallOf, Zenon
<1>4. BrMovesOn(t)
  BY <1>2, BrAckMoves, Zenon DEF BrDeliver
<1>5. /\ brDelivered \in [BrNodeSet -> SUBSET BrKeys] /\ brAcked \in [BrNodeSet -> SUBSET BrKeys]
      /\ brDisp' \in [BrTopics -> BrDisps]
  BY <1>4, Zenon DEF BrInv, BrShape, BrMovesOn
<1>6. BrShape'
  BY <1>2, <1>3, <1>5, Zenon DEF BrInv, BrShape, BrDisps
<1>7. BrAges' /\ AckedWasDelivered'
  BY <1>2, <1>3, <1>5, Zenon DEF BrInv, BrAges, AckedWasDelivered
<1>8. BrMarked'
  <2> SUFFICES ASSUME NEW m \in BrNodeSet, NEW j \in brActive[m] \cup brPrev[m]
               PROVE  j \in BrTold(m)' \/ \E u \in BrTopics : BrDelivering(u, m, j)'
    BY <1>2, Zenon DEF BrMarked
  <2>1. BrDelivering(t, m, j) => m = n /\ j = k
    BY <1>1, Zenon DEF BrDelivering
  <2> QED  BY <1>2, <1>3, <1>4, <1>5, <2>1, BrMovedOn, Zenon DEF BrInv, BrMarked, BrTold
<1> QED  BY <1>2, <1>4, <1>6, <1>7, <1>8, BrMovedOn, Zenon DEF BrInv

\* A delivery that fails: Unmark and NACK.
LEMMA BrFailsKeeps ==
    ASSUME BrInv, NEW t \in BrTopics, DeliverFails(t)
    PROVE  BrInv'
<1>1. PICK n, k, x, gone : /\ n = Head(brDisp[t].to) /\ k = brEnv[brDisp[t].env].key
                           /\ x = brEnv[brDisp[t].env].express /\ gone = IF x THEN {} ELSE {k}
  BY Zenon
<1>2. /\ brDisp[t].pc = "deliver" /\ BrBusy(t)
      /\ brActive' = [brActive EXCEPT ![n] = @ \ gone] /\ brPrev' = [brPrev EXCEPT ![n] = @ \ gone]
      /\ brAge' = [brAge EXCEPT ![n] = [j \in BrKeys |-> IF j \in gone THEN 2 ELSE @[j]]]
      /\ UNCHANGED <<brEnv, brQueue, brCursor, brSwaps, brPanicked, brDelivered, brAcked>>
  BY <1>1, Zenon DEF DeliverFails, BrBusy, brGhost
<1>3. n \in BrNodeSet /\ k \in BrKeys /\ x \in BOOLEAN
  BY <1>1, <1>2, BrCallOf, Zenon
<1>4. BrMovesOn(t)
  BY <1>2, BrAckMoves, Zenon DEF DeliverFails
<1>5. /\ brActive \in [BrNodeSet -> SUBSET BrKeys] /\ brPrev \in [BrNodeSet -> SUBSET BrKeys]
      /\ brAge \in [BrNodeSet -> [BrKeys -> 0 .. 2]]
      /\ brDisp' \in [BrTopics -> BrDisps]
  BY <1>4, Zenon DEF BrInv, BrShape, BrMovesOn
<1>6. BrShape'
  <2>1. brActive' \in [BrNodeSet -> SUBSET BrKeys] /\ brPrev' \in [BrNodeSet -> SUBSET BrKeys]
    BY <1>2, <1>3, <1>5, Zenon
  <2>2. brAge' \in [BrNodeSet -> [BrKeys -> 0 .. 2]]
    BY <1>2, <1>3, <1>5
  <2> QED  BY <1>2, <1>5, <2>1, <2>2, Zenon DEF BrInv, BrShape, BrDisps
<1>7. BrAges'
  BY <1>2, <1>3, <1>5 DEF BrAges, BrInv
<1>8. AckedWasDelivered'
  BY <1>2, Zenon DEF BrInv, AckedWasDelivered
<1>9. BrMarked'
  <2> SUFFICES ASSUME NEW m \in BrNodeSet, NEW j \in brActive'[m] \cup brPrev'[m]
               PROVE  j \in BrTold(m)' \/ \E u \in BrTopics : BrDelivering(u, m, j)'
    BY DEF BrMarked
  <2>1. j \in brActive[m] \cup brPrev[m] /\ (m = n => j \notin gone)
    BY <1>2, <1>3, <1>5, Zenon
  <2>2. ~BrDelivering(t, m, j)
    BY <1>1, <2>1, Zenon DEF BrDelivering
  <2> QED  BY <1>2, <1>4, <2>1, <2>2, BrMovedOn, Zenon DEF BrInv, BrMarked, BrTold
<1> QED  BY <1>2, <1>4, <1>6, <1>7, <1>8, <1>9, BrMovedOn, Zenon DEF BrInv

\* A delivery that panics stays marked.
LEMMA BrPanicsKeeps ==
    ASSUME BrInv, NEW t \in BrTopics, DeliverPanics(t)
    PROVE  BrInv'
<1>1. PICK n, k : n = Head(brDisp[t].to) /\ k = brEnv[brDisp[t].env].key
  BY Zenon
<1>2. /\ brDisp[t].pc = "deliver" /\ BrBusy(t)
      /\ brPanicked' = [brPanicked EXCEPT ![n] = @ \cup {k}]
      /\ UNCHANGED <<brEnv, brQueue, brCursor, brActive, brPrev, brAge, brSwaps, brDelivered, brAcked>>
  BY <1>1, Zenon DEF DeliverPanics, BrBusy, brWindow, brGhost
<1>3. n \in BrNodeSet /\ k \in BrKeys
  BY <1>1, <1>2, BrCallOf, Zenon
<1>4. BrMovesOn(t)
  BY <1>2, BrAckMoves, Zenon DEF DeliverPanics
<1>5. brPanicked \in [BrNodeSet -> SUBSET BrKeys] /\ brDisp' \in [BrTopics -> BrDisps]
  BY <1>4, Zenon DEF BrInv, BrShape, BrMovesOn
<1>6. BrShape'
  BY <1>2, <1>3, <1>5, Zenon DEF BrInv, BrShape, BrDisps
<1>7. BrAges' /\ AckedWasDelivered'
  BY <1>2, <1>3, <1>5, Zenon DEF BrInv, BrAges, AckedWasDelivered
<1>8. BrMarked'
  <2> SUFFICES ASSUME NEW m \in BrNodeSet, NEW j \in brActive[m] \cup brPrev[m]
               PROVE  j \in BrTold(m)' \/ \E u \in BrTopics : BrDelivering(u, m, j)'
    BY <1>2, Zenon DEF BrMarked
  <2>1. BrDelivering(t, m, j) => m = n /\ j = k
    BY <1>1, Zenon DEF BrDelivering
  <2> QED  BY <1>2, <1>3, <1>4, <1>5, <2>1, BrMovedOn, Zenon DEF BrInv, BrMarked, BrTold
<1> QED  BY <1>2, <1>4, <1>6, <1>7, <1>8, BrMovedOn, Zenon DEF BrInv

\* The dispatcher takes the next envelope of its topic.
LEMMA BrDispatchKeeps ==
    ASSUME BrInv, NEW t \in BrTopics, BrDispatch(t)
    PROVE  BrInv'
<1>1. PICK q, p, to : /\ q = brQueue[t] /\ p = Head(q)
                      /\ to = IF t = "broadcast" THEN BrNodes ELSE <<BrNodes[(brCursor % Len(BrNodes)) + 1]>>
  BY Zenon
<1> DEFINE d == [pc |-> "call", env |-> p, attempt |-> 0, to |-> to]
<1>2. /\ brDisp[t].pc = "idle" /\ q # <<>> /\ brQueue' = [brQueue EXCEPT ![t] = Tail(q)]
      /\ brDisp' = [brDisp EXCEPT ![t] = d]
      /\ brCursor' \in {brCursor, brCursor + 1}
      /\ UNCHANGED <<brEnv, brActive, brPrev, brAge, brSwaps, brPanicked, brDelivered, brAcked>>
  BY <1>1, Zenon DEF BrDispatch, brWindow, brFaults, brGhost
<1>3. /\ brQueue \in [BrTopics -> Seq(DOMAIN brEnv)] /\ brDisp \in [BrTopics -> BrDisps]
      /\ brCursor \in Nat /\ q \in Seq(DOMAIN brEnv)
      /\ \A i \in 1 .. Len(q) : brEnv[q[i]].topic = t
  BY <1>1, Zenon DEF BrInv, BrShape, BrOnTopic
<1>4. /\ p \in DOMAIN brEnv /\ brEnv[p].topic = t /\ Tail(q) \in Seq(DOMAIN brEnv)
      /\ \A i \in 1 .. Len(Tail(q)) : brEnv[Tail(q)[i]].topic = t
  <2>1. Len(q) \in Nat \ {0} /\ p = q[1] /\ p \in DOMAIN brEnv /\ Tail(q) \in Seq(DOMAIN brEnv)
    BY <1>1, <1>2, <1>3
  <2>2. Len(Tail(q)) = Len(q) - 1 /\ \A i \in 1 .. Len(q) - 1 : Tail(q)[i] = q[i + 1] /\ i + 1 \in 1 .. Len(q)
    BY <1>2, <1>3
  <2> QED  BY <1>3, <2>1, <2>2
<1>5. to \in Seq(BrNodeSet) /\ to # <<>>
  <2>1. BrNodes \in Seq(BrNodeSet) /\ BrNodes # <<>> /\ Len(BrNodes) \in Nat \ {0}
    BY BrAssumption
  <2>2. (brCursor % Len(BrNodes)) + 1 \in 1 .. Len(BrNodes)
    BY <1>3, <2>1
  <2>3. BrNodes[(brCursor % Len(BrNodes)) + 1] \in BrNodeSet
    BY <2>1, <2>2
  <2> QED  BY <1>1, <2>1, <2>3
<1>6. d \in BrDisps
  BY <1>4, <1>5, Zenon DEF BrDisps
<1>7. BrShape'
  <2>1. brQueue' \in [BrTopics -> Seq(DOMAIN brEnv)] /\ brDisp' \in [BrTopics -> BrDisps] /\ brCursor' \in Nat
    <3> HIDE DEF d
    <3> QED  BY <1>2, <1>3, <1>4, <1>6
  <2> QED  BY <1>2, <2>1, Zenon DEF BrInv, BrShape, BrDisps
<1>8. BrOnTopic'
  <2>1. ASSUME NEW u \in BrTopics
        PROVE  /\ u # t => brQueue'[u] = brQueue[u] /\ brDisp'[u] = brDisp[u]
               /\ u = t => brQueue'[u] = Tail(q) /\ brDisp'[u] = d
    <3> HIDE DEF d
    <3> QED  BY <1>2, <1>3, Zenon
  <2>2. d.env = p /\ d.to = to
    OBVIOUS
  <2> HIDE DEF d
  <2> QED  BY <1>2, <1>4, <1>5, <2>1, <2>2 DEF BrInv, BrOnTopic, BrBusy
<1>9. BrAges' /\ AckedWasDelivered'
  BY <1>2, Zenon DEF BrInv, BrAges, AckedWasDelivered
<1>10. BrMarked'
  <2>1. \A u \in BrTopics : \A n, k : BrDelivering(u, n, k) => BrDelivering(u, n, k)'
    <3> HIDE DEF d
    <3> QED  BY <1>2, <1>3, Zenon DEF BrDelivering
  <2> QED  BY <1>2, <2>1, Zenon DEF BrInv, BrMarked, BrTold
<1> QED  BY <1>7, <1>8, <1>9, <1>10 DEF BrInv

\* A publication enters the queue of its topic.
LEMMA BrEnqueueKeeps ==
    ASSUME BrInv, NEW p \in DOMAIN brEnv, Enqueue(p)
    PROVE  BrInv'
<1>1. PICK t : t = brEnv[p].topic
  OBVIOUS
<1>2. /\ brQueue' = brQueue \/ brQueue' = [brQueue EXCEPT ![t] = Append(@, p)]
      /\ UNCHANGED <<brEnv, brDisp, brCursor, brActive, brPrev, brAge, brSwaps, brPanicked, brDelivered, brAcked>>
  BY <1>1, Zenon DEF Enqueue, brWindow, brFaults, brGhost
<1>3. brQueue \in [BrTopics -> Seq(DOMAIN brEnv)] /\ t \in BrTopics
  BY <1>1, BrAssumption, Zenon DEF BrInv, BrShape
<1>4. brQueue' \in [BrTopics -> Seq(DOMAIN brEnv)]
  <2>1. PICK q \in Seq(DOMAIN brEnv) : q = brQueue[t]
    BY <1>3
  <2>2. Append(q, p) \in Seq(DOMAIN brEnv)
    BY <2>1
  <2> QED  BY <1>2, <1>3, <2>1, <2>2, Zenon
<1>5. ASSUME NEW u \in BrTopics, NEW i \in 1 .. Len(brQueue'[u])  PROVE  brEnv[brQueue'[u][i]].topic = u
  <2>1. CASE brQueue'[u] = brQueue[u]
    BY <1>5, <2>1 DEF BrInv, BrOnTopic
  <2>2. CASE u = t /\ brQueue'[u] = Append(brQueue[u], p)
    BY <1>1, <1>3, <1>5, <2>2 DEF BrInv, BrOnTopic
  <2> QED  BY <1>2, <1>3, <2>1, <2>2, Zenon
<1>6. BrShape'
  BY <1>2, <1>4, Zenon DEF BrInv, BrShape, BrDisps
<1>7. BrOnTopic'
  BY <1>2, <1>5, Zenon DEF BrInv, BrOnTopic, BrBusy
<1>8. BrAges' /\ AckedWasDelivered' /\ BrMarked'
  BY <1>2 DEF BrInv, BrAges, AckedWasDelivered, BrMarked, BrTold, BrDelivering
<1> QED  BY <1>6, <1>7, <1>8 DEF BrInv

\* A publication that is looked up, the close of the bus, and a dispatcher that
\* leaves while it is idle.
LEMMA BrQuietKeeps ==
    ASSUME BrInv, UNCHANGED <<brEnv, brQueue, brCursor, brActive, brPrev, brAge, brSwaps, brPanicked, brDelivered, brAcked>>,
           \/ brDisp' = brDisp
           \/ \E t \in BrTopics : brDisp[t].pc = "idle" /\ brDisp' = [brDisp EXCEPT ![t].pc = "gone"]
    PROVE  BrInv'
<1>1. brDisp \in [BrTopics -> BrDisps]
  BY Zenon DEF BrInv, BrShape
<1>2. \A u \in BrTopics : \/ brDisp'[u] = brDisp[u]
                          \/ /\ brDisp[u].pc = "idle" /\ brDisp'[u].pc = "gone"
                             /\ brDisp'[u] \in BrDisps
  <2> SUFFICES ASSUME NEW t \in BrTopics, brDisp[t].pc = "idle", brDisp' = [brDisp EXCEPT ![t].pc = "gone"],
                      NEW u \in BrTopics, u = t
               PROVE  brDisp'[u].pc = "gone" /\ brDisp'[u] \in BrDisps
    BY <1>1, Zenon
  <2>1. brDisp[t] \in BrDisps
    BY <1>1, Zenon
  <2> QED  BY <1>1, <2>1, Zenon DEF BrDisps
<1>3. brDisp' \in [BrTopics -> BrDisps]
  BY <1>1, <1>2, Zenon
<1>4. BrShape'
  BY <1>3, Zenon DEF BrInv, BrShape, BrDisps
<1>5. BrOnTopic'
  BY <1>2 DEF BrInv, BrOnTopic, BrBusy
<1>6. BrAges' /\ AckedWasDelivered'
  BY Zenon DEF BrInv, BrAges, AckedWasDelivered
<1> QED  BY <1>2, <1>4, <1>5, <1>6 DEF BrInv, BrMarked, BrTold, BrDelivering

\* The swaps i of Seen for the key k on node n, and whether k is new to it.
BrWindowMoves(n, k, i, first) ==
    /\ brSwaps' = brSwaps + i
    /\ brPrev' = [brPrev EXCEPT ![n] = PrevAfter(n, i)]
    /\ brActive' = [brActive EXCEPT ![n] = IF first THEN ActiveAfter(n, i) \cup {k} ELSE ActiveAfter(n, i)]
    /\ brAge' = [brAge EXCEPT ![n] = [j \in BrKeys |->
          IF first /\ j = k THEN 0 ELSE IF @[j] + i > 2 THEN 2 ELSE @[j] + i]]
    /\ first = (k \notin ActiveAfter(n, i) \cup PrevAfter(n, i))

\* The branch of Handle that looks into the window.
BrSeen(t, n, k, i) ==
    LET active == ActiveAfter(n, i)
        prev == PrevAfter(n, i)
        first == k \notin active \cup prev IN
    /\ brSwaps' = brSwaps + i
    /\ brPrev' = [brPrev EXCEPT ![n] = prev]
    /\ brActive' = [brActive EXCEPT ![n] = IF first THEN active \cup {k} ELSE active]
    /\ brAge' = [brAge EXCEPT ![n] = [j \in BrKeys |->
          IF first /\ j = k THEN 0 ELSE IF @[j] + i > 2 THEN 2 ELSE @[j] + i]]
    /\ IF first
       THEN brDisp' = [brDisp EXCEPT ![t].pc = "deliver"] /\ UNCHANGED brAcked
       ELSE BrAckNext(t) /\ brAcked' = [brAcked EXCEPT ![n] = @ \cup {k}]

\* The three outcomes of handle.
LEMMA BrHandled ==
    ASSUME BrInv, NEW t \in BrTopics, Handle(t), NEW n, n = Head(brDisp[t].to),
           NEW k, k = brEnv[brDisp[t].env].key
    PROVE  /\ brDisp[t].pc = "call" /\ BrBusy(t) /\ n \in BrNodeSet /\ k \in BrKeys
           /\ UNCHANGED <<brEnv, brQueue, brCursor, brPanicked, brDelivered>>
           /\ \/ UNCHANGED <<brActive, brPrev, brAge, brSwaps, brAcked>> /\ BrMovesOn(t)
              \/ /\ UNCHANGED <<brActive, brPrev, brAge, brSwaps, brAcked>>
                 /\ brEnv[brDisp[t].env].express = TRUE /\ brDisp' = [brDisp EXCEPT ![t].pc = "deliver"]
              \/ /\ brEnv[brDisp[t].env].express = FALSE
                 /\ \E i \in 0 .. 2 :
                      \/ /\ BrWindowMoves(n, k, i, TRUE) /\ brAcked' = brAcked
                         /\ brDisp' = [brDisp EXCEPT ![t].pc = "deliver"]
                      \/ /\ BrWindowMoves(n, k, i, FALSE) /\ brAcked' = [brAcked EXCEPT ![n] = @ \cup {k}]
                         /\ BrMovesOn(t)
<1>1. brDisp[t].pc = "call" /\ BrBusy(t) /\ UNCHANGED <<brEnv, brQueue, brCursor, brPanicked, brDelivered>>
  BY Zenon DEF Handle, BrBusy, brFaults, brGhost
<1>2. n \in BrNodeSet /\ k \in BrKeys /\ brEnv[brDisp[t].env].express \in BOOLEAN
  BY <1>1, BrCallOf, Zenon
<1>3. BrAckNext(t) => BrMovesOn(t)
  BY <1>1, BrAckMoves, Zenon
<1> DEFINE x == brEnv[brDisp[t].env].express
<1>4. \/ UNCHANGED <<brActive, brPrev, brAge, brSwaps, brAcked>> /\ BrAckNext(t)
      \/ /\ UNCHANGED <<brActive, brPrev, brAge, brSwaps, brAcked>>
         /\ x /\ brDisp' = [brDisp EXCEPT ![t].pc = "deliver"]
      \/ /\ ~x
         /\ \E i \in 0 .. 2 : BrSeen(t, n, k, i)
  BY ZenonT(60) DEF Handle, BrSeen, brWindow, brGhost
<1>5. ASSUME NEW i \in 0 .. 2, BrSeen(t, n, k, i)
      PROVE  \/ /\ BrWindowMoves(n, k, i, TRUE) /\ brAcked' = brAcked
                /\ brDisp' = [brDisp EXCEPT ![t].pc = "deliver"]
             \/ /\ BrWindowMoves(n, k, i, FALSE) /\ brAcked' = [brAcked EXCEPT ![n] = @ \cup {k}]
                /\ BrAckNext(t)
  BY <1>5, Zenon DEF BrSeen, BrWindowMoves
<1>6. x \in BOOLEAN
  BY <1>2, Zenon
<1> QED  BY <1>1, <1>2, <1>3, <1>4, <1>5, <1>6, Zenon

\* A call that goes on to the delivery.
LEMMA BrGoesOn ==
    ASSUME BrInv, NEW t \in BrTopics, brDisp[t].pc = "call", UNCHANGED <<brEnv, brQueue>>,
           brDisp' = [brDisp EXCEPT ![t].pc = "deliver"]
    PROVE  /\ brDisp' \in [BrTopics -> BrDisps] /\ BrOnTopic'
           /\ brDisp'[t].pc = "deliver" /\ brDisp'[t].env = brDisp[t].env /\ brDisp'[t].to = brDisp[t].to
           /\ \A u \in BrTopics : \A n, k : BrDelivering(u, n, k) => BrDelivering(u, n, k)'
<1>1. brDisp \in [BrTopics -> BrDisps] /\ brDisp[t] \in BrDisps
  BY Zenon DEF BrInv, BrShape
<1>2. /\ brDisp'[t] \in BrDisps /\ brDisp'[t].pc = "deliver"
      /\ brDisp'[t].env = brDisp[t].env /\ brDisp'[t].to = brDisp[t].to
      /\ \A u \in BrTopics : u # t => brDisp'[u] = brDisp[u]
  BY <1>1, Zenon DEF BrDisps
<1> QED  BY <1>1, <1>2 DEF BrInv, BrOnTopic, BrBusy, BrDelivering

\* After i swaps the mark of k is out of the window.
BrForgotten(n, k, i) == i < 2 => brAge[n][k] + i >= 2

\* Seen keeps the ages right and remembers no key it did not remember before,
\* but for the new one.
LEMMA BrWindowMoved ==
    ASSUME BrShape, BrAges, NEW n \in BrNodeSet, NEW k \in BrKeys, NEW i \in 0 .. 2,
           NEW first \in BOOLEAN, BrWindowMoves(n, k, i, first)
    PROVE  /\ brActive' \in [BrNodeSet -> SUBSET BrKeys] /\ brPrev' \in [BrNodeSet -> SUBSET BrKeys]
           /\ brAge' \in [BrNodeSet -> [BrKeys -> 0 .. 2]] /\ brSwaps' \in Nat /\ BrAges'
           /\ \A m \in BrNodeSet : \A j \in brActive'[m] \cup brPrev'[m] :
                 j \in brActive[m] \cup brPrev[m] \/ (m = n /\ j = k /\ first = TRUE)
           /\ first = FALSE => k \in brActive[n] \cup brPrev[n]
           /\ first = TRUE => BrForgotten(n, k, i)
<1>1. /\ brActive \in [BrNodeSet -> SUBSET BrKeys] /\ brPrev \in [BrNodeSet -> SUBSET BrKeys]
      /\ brAge \in [BrNodeSet -> [BrKeys -> 0 .. 2]] /\ brSwaps \in Nat
  BY Zenon DEF BrShape
<1>2. PICK a, p : a = ActiveAfter(n, i) /\ p = PrevAfter(n, i)
  OBVIOUS
<1>3. /\ a \in SUBSET BrKeys /\ p \in SUBSET BrKeys /\ a \cup p \subseteq brActive[n] \cup brPrev[n]
      /\ i = 0 => a = brActive[n] /\ p = brPrev[n]
      /\ i = 1 => p = brActive[n]
  BY <1>1, <1>2 DEF ActiveAfter, PrevAfter
<1>4. /\ brSwaps' = brSwaps + i /\ brPrev' = [brPrev EXCEPT ![n] = p]
      /\ brActive' = [brActive EXCEPT ![n] = IF first THEN a \cup {k} ELSE a]
      /\ brAge' = [brAge EXCEPT ![n] = [j \in BrKeys |->
            IF first /\ j = k THEN 0 ELSE IF brAge[n][j] + i > 2 THEN 2 ELSE brAge[n][j] + i]]
      /\ first = (k \notin a \cup p)
  BY <1>2, Zenon DEF BrWindowMoves
<1>5. brActive' \in [BrNodeSet -> SUBSET BrKeys] /\ brPrev' \in [BrNodeSet -> SUBSET BrKeys] /\ brSwaps' \in Nat
  BY <1>1, <1>3, <1>4
<1>6. \A j \in BrKeys : brAge[n][j] \in 0 .. 2
  BY <1>1
<1>7. brAge' \in [BrNodeSet -> [BrKeys -> 0 .. 2]]
  <2>1. PICK g : g = [j \in BrKeys |->
                        IF first /\ j = k THEN 0 ELSE IF brAge[n][j] + i > 2 THEN 2 ELSE brAge[n][j] + i]
    BY Zenon
  <2>2. g \in [BrKeys -> 0 .. 2]
    BY <1>6, <2>1
  <2>3. brAge' = [brAge EXCEPT ![n] = g]
    BY <1>4, <2>1, Zenon
  <2> QED  BY <1>1, <2>2, <2>3, Zenon
<1>8. BrAges'
  <2> SUFFICES ASSUME NEW m \in BrNodeSet, NEW j \in BrKeys
               PROVE  /\ brAge'[m][j] = 0 => j \in brActive'[m]
                      /\ brAge'[m][j] = 1 => j \in brPrev'[m]
    BY Zenon DEF BrAges
  <2>1. CASE m # n
    BY <1>1, <1>4, <2>1, Zenon DEF BrAges
  <2>2. CASE m = n /\ first /\ j = k
    BY <1>1, <1>4, <2>2
  <2>3. CASE m = n /\ ~(first /\ j = k)
    <3>1. brAge'[m][j] = IF brAge[n][j] + i > 2 THEN 2 ELSE brAge[n][j] + i
      BY <1>1, <1>4, <2>3, Zenon
    <3>2. a \subseteq brActive'[n] /\ brPrev'[n] = p
      BY <1>1, <1>4, Zenon
    <3> QED  BY <1>3, <1>6, <2>3, <3>1, <3>2 DEF BrAges
  <2> QED  BY <2>1, <2>2, <2>3, Zenon
<1>9. ASSUME NEW m \in BrNodeSet, NEW j \in brActive'[m] \cup brPrev'[m]
      PROVE  j \in brActive[m] \cup brPrev[m] \/ (m = n /\ j = k /\ first = TRUE)
  BY <1>1, <1>3, <1>4, Zenon
<1>10. first = FALSE => k \in brActive[n] \cup brPrev[n]
  BY <1>3, <1>4, Zenon
<1>11. first = TRUE => BrForgotten(n, k, i)
  <2>1. first = TRUE => k \notin a /\ k \notin p
    BY <1>4, Zenon
  <2> QED  BY <1>3, <1>6, <2>1 DEF BrForgotten, BrAges
<1> QED  BY <1>5, <1>7, <1>8, <1>9, <1>10, <1>11, Zenon

\* A reliable message that is being called is not being delivered as well: its
\* copies are on the same topic.
LEMMA BrNotDelivering ==
    ASSUME BrOneTopic, BrInv, NEW t \in BrTopics, brDisp[t].pc = "call",
           NEW u \in BrTopics, NEW n, BrDelivering(u, n, brEnv[brDisp[t].env].key)
    PROVE  FALSE
<1>1. /\ brDisp[t].env \in DOMAIN brEnv /\ brDisp[u].env \in DOMAIN brEnv /\ brEnv \in BrScenarios
      /\ brEnv[brDisp[t].env].topic = t /\ brEnv[brDisp[u].env].topic = u
  BY Zenon DEF BrInv, BrOnTopic, BrShape, BrBusy, BrDelivering
<1> QED  BY <1>1, Zenon DEF BrDelivering, BrOneTopic

\* handle: validation and the window.
LEMMA BrHandleKeeps ==
    ASSUME BrOneTopic, BrInv, NEW t \in BrTopics, Handle(t)
    PROVE  BrInv'
<1>1. PICK n, k : n = Head(brDisp[t].to) /\ k = brEnv[brDisp[t].env].key
  BY Zenon
<1>2. /\ brDisp[t].pc = "call" /\ BrBusy(t) /\ n \in BrNodeSet /\ k \in BrKeys
      /\ UNCHANGED <<brEnv, brQueue, brCursor, brPanicked, brDelivered>>
  BY <1>1, BrHandled, Zenon
<1>3. \A m \in BrNodeSet : BrTold(m)' = BrTold(m)
  BY <1>2 DEF BrTold
<1>4. \A u \in BrTopics : ~BrDelivering(u, n, k)
  BY <1>1, <1>2, BrNotDelivering, Zenon
<1>5. \A m, j : ~BrDelivering(t, m, j)
  BY <1>2 DEF BrDelivering
<1>6. ASSUME BrMovesOn(t) \/ brDisp' = [brDisp EXCEPT ![t].pc = "deliver"]
      PROVE  /\ brDisp' \in [BrTopics -> BrDisps] /\ BrOnTopic'
             /\ \A u \in BrTopics : \A m, j : BrDelivering(u, m, j) => BrDelivering(u, m, j)'
  <2>1. CASE BrMovesOn(t)
    BY <1>2, <1>5, <2>1, BrMovedOn, Zenon DEF BrMovesOn
  <2>2. CASE brDisp' = [brDisp EXCEPT ![t].pc = "deliver"]
    BY <1>2, <2>2, BrGoesOn, Zenon
  <2> QED  BY <1>6, <2>1, <2>2, Zenon
<1>7. CASE /\ UNCHANGED <<brActive, brPrev, brAge, brSwaps, brAcked>>
           /\ BrMovesOn(t) \/ brDisp' = [brDisp EXCEPT ![t].pc = "deliver"]
  <2>1. BrShape'
    BY <1>2, <1>6, <1>7, Zenon DEF BrInv, BrShape, BrDisps
  <2>2. BrAges' /\ AckedWasDelivered'
    BY <1>2, <1>7, Zenon DEF BrInv, BrAges, AckedWasDelivered
  <2>3. BrMarked'
    BY <1>3, <1>6, <1>7, Zenon DEF BrInv, BrMarked
  <2> QED  BY <1>6, <1>7, <2>1, <2>2, <2>3, Zenon DEF BrInv
<1>8. ASSUME NEW i \in 0 .. 2, BrWindowMoves(n, k, i, TRUE), brAcked' = brAcked,
             brDisp' = [brDisp EXCEPT ![t].pc = "deliver"], brEnv[brDisp[t].env].express = FALSE
      PROVE  BrInv'
  <2>1. /\ brActive' \in [BrNodeSet -> SUBSET BrKeys] /\ brPrev' \in [BrNodeSet -> SUBSET BrKeys]
        /\ brAge' \in [BrNodeSet -> [BrKeys -> 0 .. 2]] /\ brSwaps' \in Nat /\ BrAges'
        /\ \A m \in BrNodeSet : \A j \in brActive'[m] \cup brPrev'[m] :
              j \in brActive[m] \cup brPrev[m] \/ (m = n /\ j = k)
    BY <1>2, <1>8, BrWindowMoved, Zenon DEF BrInv
  <2>2. BrShape'
    BY <1>2, <1>6, <1>8, <2>1, Zenon DEF BrInv, BrShape, BrDisps
  <2>3. AckedWasDelivered'
    BY <1>2, <1>8, Zenon DEF BrInv, AckedWasDelivered
  <2>4. BrDelivering(t, n, k)'
    BY <1>1, <1>2, <1>8, BrGoesOn, Zenon DEF BrDelivering
  <2>5. BrMarked'
    BY <1>3, <1>6, <1>8, <2>1, <2>4, Zenon DEF BrInv, BrMarked
  <2> QED  BY <1>6, <1>8, <2>1, <2>2, <2>3, <2>5, Zenon DEF BrInv
<1>9. ASSUME NEW i \in 0 .. 2, BrWindowMoves(n, k, i, FALSE), brAcked' = [brAcked EXCEPT ![n] = @ \cup {k}],
             BrMovesOn(t)
      PROVE  BrInv'
  <2>1. /\ brActive' \in [BrNodeSet -> SUBSET BrKeys] /\ brPrev' \in [BrNodeSet -> SUBSET BrKeys]
        /\ brAge' \in [BrNodeSet -> [BrKeys -> 0 .. 2]] /\ brSwaps' \in Nat /\ BrAges'
        /\ \A m \in BrNodeSet : brActive'[m] \cup brPrev'[m] \subseteq brActive[m] \cup brPrev[m]
        /\ k \in brActive[n] \cup brPrev[n]
    BY <1>2, <1>9, BrWindowMoved, Zenon DEF BrInv
  <2>2. brAcked \in [BrNodeSet -> SUBSET BrKeys]
    BY Zenon DEF BrInv, BrShape
  <2>3. BrShape'
    BY <1>2, <1>6, <1>9, <2>1, <2>2 DEF BrInv, BrShape, BrDisps
  <2>4. k \in BrTold(n)
    BY <1>2, <1>4, <2>1, Zenon DEF BrInv, BrMarked
  <2>5. AckedWasDelivered'
    BY <1>2, <1>9, <2>2, <2>4, Zenon DEF BrInv, AckedWasDelivered, BrTold
  <2>6. BrMarked'
    BY <1>3, <1>6, <1>9, <2>1, Zenon DEF BrInv, BrMarked
  <2> QED  BY <1>6, <1>9, <2>1, <2>3, <2>5, <2>6, Zenon DEF BrInv
<1> QED  BY <1>1, <1>7, <1>8, <1>9, BrHandled, Zenon

\* Every step keeps the invariant.
LEMMA BrStepKeeps ==
    ASSUME BrOneTopic, BrInv, [BrNext]_brVars
    PROVE  BrInv'
<1>1. ASSUME NEW p \in DOMAIN brEnv, PublishEnter(p) \/ Enqueue(p)  PROVE  BrInv'
  BY <1>1, BrQuietKeeps, BrEnqueueKeeps, Zenon DEF PublishEnter, brWindow, brFaults, brGhost
<1>2. ASSUME NEW t \in BrTopics, BrStep(t)  PROVE  BrInv'
  BY <1>2, BrQuietKeeps, BrDispatchKeeps, BrHandleKeeps, BrDeliverKeeps, BrFailsKeeps,
     BrPanicsKeeps, Zenon DEF DispatcherExits, brWindow, brFaults, brGhost, BrStep
<1>3. CASE BusClose \/ UNCHANGED brVars
  BY <1>3, BrQuietKeeps, Zenon DEF BusClose, brVars, brWindow, brFaults, brGhost
<1> QED  BY <1>1, <1>2, <1>3 DEF BrNext

\* A dispatcher starts a delivery in Handle only.
LEMMA BrStartsInHandle ==
    ASSUME BrInv, BrNext, NEW t \in BrTopics, brDisp[t].pc = "call", brDisp'[t].pc = "deliver"
    PROVE  Handle(t)
<1>1. brDisp \in [BrTopics -> BrDisps]
  BY Zenon DEF BrInv, BrShape
<1>2. ASSUME NEW p \in DOMAIN brEnv, PublishEnter(p) \/ Enqueue(p)  PROVE  FALSE
  BY <1>2, Zenon DEF PublishEnter, Enqueue
<1>3. ASSUME NEW u \in BrTopics, BrDispatch(u)  PROVE  FALSE
  BY <1>1, <1>3, Zenon DEF BrDispatch
<1>4. ASSUME NEW u \in BrTopics, DispatcherExits(u)  PROVE  FALSE
  BY <1>1, <1>4, Zenon DEF DispatcherExits, BrDisps
<1>5. ASSUME NEW u \in BrTopics, BrDeliver(u) \/ DeliverFails(u) \/ DeliverPanics(u)  PROVE  FALSE
  BY <1>5, BrAckMoves, Zenon DEF BrDeliver, DeliverFails, DeliverPanics, BrBusy, BrMovesOn
<1>6. ASSUME NEW u \in BrTopics, Handle(u), u # t  PROVE  FALSE
  BY <1>1, <1>6, BrHandled, Zenon DEF BrMovesOn
<1>7. CASE BusClose
  BY <1>7 DEF BusClose
<1> QED  BY <1>2, <1>3, <1>4, <1>5, <1>6, <1>7 DEF BrNext, BrStep

\* A delivery starts again only out of the window.
LEMMA BrNoSecond == BrInv /\ BrNext => NoSecondCopy
<1> SUFFICES ASSUME BrInv, BrNext, NEW t \in BrTopics, NEW n, n = Head(brDisp[t].to),
                    NEW k, k = brEnv[brDisp[t].env].key,
                    brDisp[t].pc = "call", brDisp'[t].pc = "deliver",
                    ~brEnv[brDisp[t].env].express, brSwaps' < brSwaps + 2
             PROVE  brAge[n][k] + (brSwaps' - brSwaps) >= 2
  BY Zenon DEF NoSecondCopy
<1>1. Handle(t)
  BY BrStartsInHandle, Zenon
<1>2. n \in BrNodeSet /\ k \in BrKeys /\ brSwaps \in Nat
  BY <1>1, BrHandled, Zenon DEF BrInv, BrShape
<1>3. PICK i \in 0 .. 2 : BrWindowMoves(n, k, i, TRUE)
  BY <1>1, BrHandled, Zenon DEF BrMovesOn
<1>4. brSwaps' = brSwaps + i /\ i < 2
  BY <1>2, <1>3 DEF BrWindowMoves
<1>5. brAge[n][k] + i >= 2
  <2>1. BrShape /\ BrAges
    BY Zenon DEF BrInv
  <2>2. BrForgotten(n, k, i)
    BY <1>2, <1>3, <2>1, BrWindowMoved, Zenon
  <2> QED  BY <1>4, <2>2, Zenon DEF BrForgotten
<1> QED  BY <1>2, <1>4, <1>5

\* WindowIsExact holds for every set of publications in which the copies of a
\* message are on one topic, for any number of nodes, failures, panics and
\* swaps: Consumer.handle confirms what it delivered and delivers no copy twice
\* while its window remembers it.
THEOREM WindowExact ==
    ASSUME BrOneTopic
    PROVE  BrSpec => WindowIsExact
<1> QED  BY BrInitially, BrStepKeeps, BrNoSecond, PTL DEF BrSpec, WindowIsExact, BrInv

-----------------------------------------------------------------------------
(***************************************************************************)
(* The realtime counts of an agent that may be handed out are the number   *)
(* of its tasks, for any agents and any number of calls.  WlKnown is the   *)
(* inductive invariant of one agent: while it has no string in Redis it    *)
(* has no task and there is nothing in the database a Reload could bring   *)
(* back; afterwards the string is the number of tasks, and a score is      *)
(* missing or the same, so that ZADD NX adds only what is current.         *)
(***************************************************************************)

WlKnown(a) ==
    LET key == wlKey[a]["realtime"]
        score == wlScore[a]["realtime"]
        pc == wlReload[a].pc
        v == wlReload[a].v
    IN  /\ wlTasks[a] \in Nat /\ v \in Nat
        /\ wlGet[a] = WlAbsent
        /\ score \in {WlAbsent, wlTasks[a]}
        /\ key = WlAbsent =>
              /\ wlTasks[a] = 0 /\ wlRow[a] = WlAbsent /\ v = 0
              /\ pc \in {"off", "row", "set"}
              /\ \A n : <<a, n>> \notin wlUpserts
        /\ key # WlAbsent => key = wlTasks[a] /\ pc \in {"off", "sync", "ready"}
        /\ pc = "sync" /\ score = WlAbsent => v = wlTasks[a]
        /\ pc = "ready" => score # WlAbsent

WlPlaces == {"off", "row", "set", "sync", "ready"}

WlShape ==
    /\ wlKey \in [WlAgents -> [WlDims -> Int]]
    /\ wlScore \in [WlAgents -> [WlDims -> Int]]
    /\ wlRow \in [WlAgents -> Int] /\ wlGet \in [WlAgents -> Int]
    /\ wlReload \in [WlAgents -> [pc : WlPlaces, v : Int]]
    /\ wlTasks \in [WlAgents -> Int]
    /\ wlUpserts \subseteq WlAgents \X Int

WlInv == ~wlWiped => WlShape /\ \A a \in WlAgents : WlKnown(a)

\* An agent none of whose realtime state changes stays known.
LEMMA SameIsKnown ==
    ASSUME NEW b \in WlAgents, WlKnown(b),
           wlKey'[b]["realtime"] = wlKey[b]["realtime"],
           wlScore'[b]["realtime"] = wlScore[b]["realtime"],
           wlRow'[b] = wlRow[b] \/ wlKey[b]["realtime"] # WlAbsent,
           \A n : <<b, n>> \in wlUpserts' => <<b, n>> \in wlUpserts \/ wlKey[b]["realtime"] # WlAbsent,
           wlReload'[b] = wlReload[b], wlGet'[b] = wlGet[b], wlTasks'[b] = wlTasks[b]
    PROVE  WlKnown(b)'
    BY Zenon DEF WlKnown

LEMMA UpsertAdds ==
    ASSUME WlShape, NEW a \in WlAgents, NEW v \in Int, Upsert(a, v)
    PROVE  /\ wlUpserts' \subseteq WlAgents \X Int
           /\ \A b \in WlAgents \ {a} : \A n : <<b, n>> \in wlUpserts' => <<b, n>> \in wlUpserts
    BY DEF Upsert, WlShape

\* incrementMultiDimension for an agent with a string, from unchanged scores.
LEMMA IncrementIsKnown ==
    ASSUME WlShape, \A b \in WlAgents : WlKnown(b),
           NEW a \in WlAgents, NEW delta \in {1, -1}, NEW scores \in [WlAgents -> [WlDims -> Int]],
           \A b \in WlAgents : scores[b]["realtime"] = wlScore[b]["realtime"],
           wlTasks[a] + delta \in Nat, wlKey[a]["realtime"] # WlAbsent,
           Increment(a, delta, scores), wlTasks' = [wlTasks EXCEPT ![a] = @ + delta],
           UNCHANGED <<wlRow, wlReload, wlGet>>
    PROVE  WlShape' /\ \A b \in WlAgents : WlKnown(b)'
<1> DEFINE counts == [d \in WlDims |-> Floor(Count(wlKey[a][d]) + delta)]
<1>1. counts \in [WlDims -> Int]
    BY DEF WlShape, Floor, Count
<1>2. wlKey[a]["realtime"] = wlTasks[a] /\ counts["realtime"] = wlTasks[a] + delta
    BY DEF WlKnown, WlDims, Floor, Count, WlAbsent
<1>3. wlKey' = [wlKey EXCEPT ![a] = counts]
    BY Zenon DEF Increment
<1> HIDE DEF counts
<1>4. wlKey' \in [WlAgents -> [WlDims -> Int]] /\ wlKey'[a] = counts
    BY <1>1, <1>3, Zenon DEF WlShape
<1>5. wlScore' = [scores EXCEPT ![a] = counts] /\ Upsert(a, counts["realtime"])
    BY <1>4, Zenon DEF Increment
<1>6. wlScore' \in [WlAgents -> [WlDims -> Int]] /\ wlTasks' \in [WlAgents -> Int]
    BY <1>1, <1>5 DEF WlShape
<1>7. counts["realtime"] \in Int
    BY <1>1, Zenon DEF WlDims
<1>8. WlShape'
    BY <1>4, <1>5, <1>6, <1>7, UpsertAdds, Zenon DEF WlShape
<1>9. WlKnown(a)'
    <2>1. wlKey'[a]["realtime"] = wlTasks'[a] /\ wlScore'[a]["realtime"] = wlTasks'[a] /\ wlTasks'[a] \in Nat
        BY <1>2, <1>4, <1>5, Zenon DEF WlShape
    <2>2. WlKnown(a)
        OBVIOUS
    <2> QED BY <2>1, <2>2 DEF WlKnown, WlAbsent
<1>10. ASSUME NEW b \in WlAgents \ {a} PROVE WlKnown(b)'
    <2>1. wlKey'[b] = wlKey[b] /\ wlScore'[b] = scores[b] /\ wlTasks'[b] = wlTasks[b]
        BY <1>3, <1>5, Zenon DEF WlShape
    <2>2. \A n : <<b, n>> \in wlUpserts' => <<b, n>> \in wlUpserts
        BY <1>5, <1>7, UpsertAdds, Zenon
    <2> QED BY <2>1, <2>2, SameIsKnown, Zenon
<1> QED BY <1>8, <1>9, <1>10, Zenon

\* setAllDimensions, to the number of tasks.
LEMMA SetIsKnown ==
    ASSUME WlShape, \A b \in WlAgents : WlKnown(b),
           NEW a \in WlAgents, NEW v \in Nat, setAllDimensions(a, v),
           wlTasks' = [wlTasks EXCEPT ![a] = v], UNCHANGED <<wlRow, wlGet>>,
           wlReload' \in [WlAgents -> [pc : WlPlaces, v : Int]],
           wlReload'[a].pc = "ready" /\ wlReload'[a].v \in Nat,
           \A b \in WlAgents \ {a} : wlReload'[b] = wlReload[b]
    PROVE  WlShape' /\ \A b \in WlAgents : WlKnown(b)'
<1>1. /\ wlKey' = [wlKey EXCEPT ![a] = [d \in WlDims |-> v]]
      /\ wlScore' = [wlScore EXCEPT ![a] = [d \in WlDims |-> v]]
      /\ Upsert(a, v)
    BY DEF setAllDimensions
<1>2. WlShape'
    <2>1. [d \in WlDims |-> v] \in [WlDims -> Int]
        OBVIOUS
    <2>2. wlKey' \in [WlAgents -> [WlDims -> Int]] /\ wlScore' \in [WlAgents -> [WlDims -> Int]]
        BY <1>1, <2>1, Zenon DEF WlShape
    <2>3. wlTasks' \in [WlAgents -> Int]
        BY DEF WlShape
    <2>4. wlUpserts' \subseteq WlAgents \X Int
        BY <1>1, UpsertAdds
    <2> QED BY <2>2, <2>3, <2>4, Zenon DEF WlShape
<1>3. WlKnown(a)'
    <2>1. wlKey'[a]["realtime"] = v /\ wlScore'[a]["realtime"] = v /\ wlTasks'[a] = v
        BY <1>1, Zenon DEF WlShape, WlDims
    <2>2. wlGet'[a] = WlAbsent
        BY Zenon DEF WlKnown
    <2> QED BY <2>1, <2>2 DEF WlKnown, WlAbsent
<1>4. ASSUME NEW b \in WlAgents \ {a} PROVE WlKnown(b)'
    <2>1. wlKey'[b] = wlKey[b] /\ wlScore'[b] = wlScore[b] /\ wlTasks'[b] = wlTasks[b]
        BY <1>1, Zenon DEF WlShape
    <2>2. \A n : <<b, n>> \in wlUpserts' => <<b, n>> \in wlUpserts
        BY <1>1, UpsertAdds
    <2> QED BY <2>1, <2>2, SameIsKnown, Zenon
<1> QED BY <1>2, <1>3, <1>4, Zenon

\* What Backfilled adds to a score that is missing is current.
LEMMA BackfilledIsKnown ==
    ASSUME WlShape, NEW asked, NEW dim \in WlDims
    PROVE  /\ Backfilled(asked, dim) \in [WlAgents -> [WlDims -> Int]]
           /\ \A b \in WlAgents : Backfilled(asked, dim)[b]["realtime"] =
                 IF b \in asked /\ dim = "realtime" /\ wlScore[b]["realtime"] = WlAbsent
                 THEN Count(wlKey[b]["realtime"]) ELSE wlScore[b]["realtime"]
    BY DEF Backfilled, WlShape, WlDims, Count

\* A Reload goes on without touching Redis: a step of its own agent only.
LEMMA ReloadIsKnown ==
    ASSUME WlShape, \A b \in WlAgents : WlKnown(b), NEW a \in WlAgents,
           wlReload' \in [WlAgents -> [pc : WlPlaces, v : Int]],
           \A b \in WlAgents \ {a} : wlReload'[b] = wlReload[b],
           \/ wlReload'[a].pc = "off" /\ wlReload'[a].v = 0
           \/ wlReload'[a].pc \in {"row", "set"} /\ wlReload'[a].v = 0 /\ wlKey[a]["realtime"] = WlAbsent
           \/ wlReload'[a].pc = "sync" /\ wlReload'[a].v = wlTasks[a] /\ wlKey[a]["realtime"] # WlAbsent,
           UNCHANGED <<wlKey, wlScore, wlRow, wlUpserts, wlGet, wlTasks>>
    PROVE  WlShape' /\ \A b \in WlAgents : WlKnown(b)'
<1>1. WlShape'
    BY Zenon DEF WlShape
<1>2. WlKnown(a)'
    <2>1. WlKnown(a)
        BY Zenon
    <2> QED BY <2>1 DEF WlKnown
<1>3. ASSUME NEW b \in WlAgents \ {a} PROVE WlKnown(b)'
    BY <1>3, SameIsKnown, Zenon
<1> QED BY <1>1, <1>2, <1>3, Zenon

LEMMA WlInductive == WlInv /\ [WlNext]_wlVars => WlInv'
<1> SUFFICES ASSUME WlInv, [WlNext]_wlVars, ~wlWiped' PROVE WlShape' /\ \A b \in WlAgents : WlKnown(b)'
    BY DEF WlInv
<1>1. ~wlWiped
    BY Zenon DEF WlNext, wlVars, ReloadGet, ReloadSync, ReloadRow, ReloadSet, ReloadFails,
       RemoveAgentWorkload, IncrementAgentWorkload, DecrementAgentWorkload, ForceSetAgentWorkload,
       GetAgentWorkload, GetWritesBack, AcquireLeastLoadedAgent, GetLeastLoadedAgent, UpsertEnds,
       NextBucket, RedisWiped
<1>2. WlShape /\ \A b \in WlAgents : WlKnown(b)
    BY <1>1 DEF WlInv
<1>3. ASSUME NEW a \in WlAgents, ReloadGet(a) PROVE WlShape' /\ \A b \in WlAgents : WlKnown(b)'
    <2>1. wlKey[a]["realtime"] # WlAbsent => wlKey[a]["realtime"] = wlTasks[a] /\ wlTasks[a] \in Nat
        BY <1>2, Zenon DEF WlKnown
    <2>2. \/ wlKey[a]["realtime"] # WlAbsent /\ wlReload' = [wlReload EXCEPT ![a] = [pc |-> "sync", v |-> wlTasks[a]]]
          \/ wlKey[a]["realtime"] = WlAbsent /\ wlReload' = [wlReload EXCEPT ![a] = [pc |-> "row", v |-> 0]]
        BY <1>3, <2>1, Zenon DEF ReloadGet, ReloadAt
    <2>3. UNCHANGED <<wlKey, wlScore, wlRow, wlUpserts, wlGet, wlTasks>>
        BY <1>3, Zenon DEF ReloadGet, wlRedis
    <2>4. /\ wlReload' \in [WlAgents -> [pc : WlPlaces, v : Int]]
          /\ \A b \in WlAgents \ {a} : wlReload'[b] = wlReload[b]
          /\ \/ wlReload'[a].pc = "row" /\ wlReload'[a].v = 0 /\ wlKey[a]["realtime"] = WlAbsent
             \/ wlReload'[a].pc = "sync" /\ wlReload'[a].v = wlTasks[a] /\ wlKey[a]["realtime"] # WlAbsent
        <3>1. CASE /\ wlKey[a]["realtime"] # WlAbsent
                   /\ wlReload' = [wlReload EXCEPT ![a] = [pc |-> "sync", v |-> wlTasks[a]]]
            BY <1>2, <2>1, <3>1, Zenon DEF WlShape, WlPlaces
        <3>2. CASE /\ wlKey[a]["realtime"] = WlAbsent
                   /\ wlReload' = [wlReload EXCEPT ![a] = [pc |-> "row", v |-> 0]]
            BY <1>2, <3>2 DEF WlShape, WlPlaces
        <3> QED BY <2>2, <3>1, <3>2, Zenon
    <2> QED BY <1>2, <2>3, <2>4, ReloadIsKnown, Zenon
<1>4. ASSUME NEW a \in WlAgents, ReloadRow(a) PROVE WlShape' /\ \A b \in WlAgents : WlKnown(b)'
    <2>1. wlReload[a].pc = "row" /\ wlReload' = [wlReload EXCEPT ![a] = [pc |-> "set", v |-> Count(wlRow[a])]]
        BY <1>4, Zenon DEF ReloadRow, ReloadAt
    <2>2. wlKey[a]["realtime"] = WlAbsent /\ Count(wlRow[a]) = 0
        BY <1>2, <2>1, Zenon DEF WlKnown, Count
    <2>3. UNCHANGED <<wlKey, wlScore, wlRow, wlUpserts, wlGet, wlTasks>>
        BY <1>4 DEF ReloadRow, wlRedis
    <2>4. /\ wlReload' \in [WlAgents -> [pc : WlPlaces, v : Int]]
          /\ \A b \in WlAgents \ {a} : wlReload'[b] = wlReload[b]
          /\ wlReload'[a].pc = "set" /\ wlReload'[a].v = 0
        BY <1>2, <2>1, <2>2 DEF WlShape, WlPlaces
    <2> QED BY <1>2, <2>2, <2>3, <2>4, ReloadIsKnown, Zenon
<1>5. ASSUME NEW a \in WlAgents, ReloadFails(a) PROVE WlShape' /\ \A b \in WlAgents : WlKnown(b)'
    <2>1. /\ wlReload' = [wlReload EXCEPT ![a] = [pc |-> "off", v |-> 0]]
          /\ UNCHANGED <<wlKey, wlScore, wlRow, wlUpserts, wlGet, wlTasks>>
        BY <1>5, Zenon DEF ReloadFails, ReloadAt, wlRedis
    <2>2. /\ wlReload' \in [WlAgents -> [pc : WlPlaces, v : Int]]
          /\ \A b \in WlAgents \ {a} : wlReload'[b] = wlReload[b]
          /\ wlReload'[a].pc = "off" /\ wlReload'[a].v = 0
        BY <1>2, <2>1 DEF WlShape, WlPlaces
    <2> QED BY <1>2, <2>1, <2>2, ReloadIsKnown, Zenon
<1>6. ASSUME NEW a \in WlAgents, ReloadSet(a) PROVE WlShape' /\ \A b \in WlAgents : WlKnown(b)'
    <2>1. wlReload[a].v = 0 /\ wlTasks[a] = 0
        BY <1>2, <1>6, Zenon DEF ReloadSet, WlKnown
    <2>2. setAllDimensions(a, 0) /\ UNCHANGED <<wlRow, wlGet>>
        BY <1>6, <2>1 DEF ReloadSet
    <2>3. wlTasks' = [wlTasks EXCEPT ![a] = 0]
        BY <1>2, <1>6, <2>1, Zenon DEF ReloadSet, WlShape
    <2>4. wlReload' = [wlReload EXCEPT ![a] = [pc |-> "ready", v |-> 0]]
        BY <1>6, Zenon DEF ReloadSet, ReloadAt
    <2>5. /\ wlReload' \in [WlAgents -> [pc : WlPlaces, v : Int]]
          /\ wlReload'[a].pc = "ready" /\ wlReload'[a].v \in Nat
          /\ \A b \in WlAgents \ {a} : wlReload'[b] = wlReload[b]
        BY <1>2, <2>4 DEF WlShape, WlPlaces
    <2> QED BY <1>2, <2>2, <2>3, <2>5, SetIsKnown, Zenon
<1>7. ASSUME NEW a \in WlAgents, NEW v \in 0..WlMaxTasks, ForceSetAgentWorkload(a, v)
      PROVE  WlShape' /\ \A b \in WlAgents : WlKnown(b)'
    <2>1. v \in Nat
        BY WlAssumption
    <2>2. wlReload[a].pc = "ready" /\ wlReload' = wlReload /\ wlReload[a].v \in Nat
        BY <1>2, <1>7, Zenon DEF ForceSetAgentWorkload, Ready, WlKnown
    <2>3. wlReload \in [WlAgents -> [pc : WlPlaces, v : Int]]
        BY <1>2, Zenon DEF WlShape
    <2>4. /\ setAllDimensions(a, v) /\ wlTasks' = [wlTasks EXCEPT ![a] = v]
          /\ UNCHANGED <<wlRow, wlGet>>
        BY <1>7 DEF ForceSetAgentWorkload
    <2> QED BY <1>2, <2>1, <2>2, <2>3, <2>4, SetIsKnown, Zenon
<1>8. ASSUME NEW a \in WlAgents, ReloadSync(a) PROVE WlShape' /\ \A b \in WlAgents : WlKnown(b)'
    <2> DEFINE v == wlReload[a].v
               filled == [d \in WlDims |-> IF wlScore[a][d] = WlAbsent THEN v ELSE wlScore[a][d]]
    <2>1. WlKnown(a) /\ wlReload[a].pc = "sync" /\ v \in Int
        BY <1>2, <1>8 DEF ReloadSync, WlKnown
    <2>2. filled \in [WlDims -> Int] /\ filled["realtime"] = wlTasks[a]
        BY <1>2, <2>1 DEF WlShape, WlKnown, WlDims
    <2>3. wlScore' = [wlScore EXCEPT ![a] = filled] /\ wlReload' = [wlReload EXCEPT ![a] = [pc |-> "ready", v |-> 0]]
        BY <1>8, Zenon DEF ReloadSync, syncToZSet, ReloadAt
    <2>4. UNCHANGED <<wlKey, wlRow, wlUpserts, wlGet, wlTasks>>
        BY <1>8, Zenon DEF ReloadSync, syncToZSet
    <2> HIDE DEF v, filled
    <2>5. WlShape'
        <3>1. wlScore' \in [WlAgents -> [WlDims -> Int]]
            BY <1>2, <2>2, <2>3, Zenon DEF WlShape
        <3>2. wlReload' \in [WlAgents -> [pc : WlPlaces, v : Int]]
            BY <1>2, <2>3 DEF WlShape, WlPlaces
        <3> QED BY <1>2, <2>4, <3>1, <3>2, Zenon DEF WlShape
    <2>6. WlKnown(a)'
        <3>1. wlScore'[a]["realtime"] = wlTasks[a] /\ wlReload'[a].pc = "ready" /\ wlReload'[a].v = 0
            BY <1>2, <2>2, <2>3, Zenon DEF WlShape
        <3> QED BY <2>1, <2>4, <3>1 DEF WlKnown, WlAbsent
    <2>7. ASSUME NEW b \in WlAgents \ {a} PROVE WlKnown(b)'
        <3>1. wlScore'[b] = wlScore[b] /\ wlReload'[b] = wlReload[b]
            BY <1>2, <2>3, Zenon DEF WlShape
        <3> QED BY <1>2, <2>4, <3>1, SameIsKnown, Zenon
    <2> QED BY <2>5, <2>6, <2>7
<1>9. ASSUME NEW a \in WlAgents, RemoveAgentWorkload(a) PROVE WlShape' /\ \A b \in WlAgents : WlKnown(b)'
    <2>1. /\ wlScore' = [wlScore EXCEPT ![a]["realtime"] = WlAbsent]
          /\ wlReload' = [wlReload EXCEPT ![a] = [pc |-> "off", v |-> 0]]
          /\ UNCHANGED <<wlKey, wlRow, wlUpserts, wlGet, wlTasks>>
        BY <1>9, Zenon DEF RemoveAgentWorkload, ReloadAt
    <2>2. WlShape'
        <3>1. wlScore' \in [WlAgents -> [WlDims -> Int]]
            BY <1>2, <2>1 DEF WlShape, WlDims, WlAbsent
        <3>2. wlReload' \in [WlAgents -> [pc : WlPlaces, v : Int]]
            BY <1>2, <2>1 DEF WlShape, WlPlaces
        <3> QED BY <1>2, <2>1, <3>1, <3>2, Zenon DEF WlShape
    <2>3. WlKnown(a)'
        <3>1. wlScore'[a]["realtime"] = WlAbsent /\ wlReload'[a].pc = "off" /\ wlReload'[a].v = 0
            BY <1>2, <2>1, Zenon DEF WlShape, WlDims
        <3>2. WlKnown(a)
            BY <1>2
        <3> QED BY <2>1, <3>1, <3>2 DEF WlKnown
    <2>4. ASSUME NEW b \in WlAgents \ {a} PROVE WlKnown(b)'
        <3>1. wlScore'[b] = wlScore[b] /\ wlReload'[b] = wlReload[b]
            BY <1>2, <2>1, Zenon DEF WlShape
        <3> QED BY <1>2, <2>1, <3>1, SameIsKnown, Zenon
    <2> QED BY <2>2, <2>3, <2>4
<1>10. ASSUME NEW a \in WlAgents, IncrementAgentWorkload(a) PROVE WlShape' /\ \A b \in WlAgents : WlKnown(b)'
    <2>1. wlKey[a]["realtime"] # WlAbsent /\ wlTasks[a] + 1 \in Nat
        BY <1>2, <1>10 DEF IncrementAgentWorkload, Ready, WlKnown
    <2>2. wlScore \in [WlAgents -> [WlDims -> Int]]
        BY <1>2, Zenon DEF WlShape
    <2>3. /\ Increment(a, 1, wlScore) /\ wlTasks' = [wlTasks EXCEPT ![a] = @ + 1]
          /\ UNCHANGED <<wlRow, wlReload, wlGet>>
        BY <1>10 DEF IncrementAgentWorkload
    <2> QED BY <1>2, <2>1, <2>2, <2>3, IncrementIsKnown, Zenon
<1>11. ASSUME NEW a \in WlAgents, DecrementAgentWorkload(a) PROVE WlShape' /\ \A b \in WlAgents : WlKnown(b)'
    <2>1. wlKey[a]["realtime"] # WlAbsent /\ wlTasks[a] + (-1) \in Nat
        BY <1>2, <1>11 DEF DecrementAgentWorkload, WlKnown
    <2>2. wlScore \in [WlAgents -> [WlDims -> Int]]
        BY <1>2, Zenon DEF WlShape
    <2>3. wlTasks' = [wlTasks EXCEPT ![a] = @ + (-1)]
        BY <1>2, <1>11, Zenon DEF DecrementAgentWorkload, WlShape
    <2>4. Increment(a, -1, wlScore) /\ UNCHANGED <<wlRow, wlReload, wlGet>>
        BY <1>11 DEF DecrementAgentWorkload
    <2> QED BY <1>2, <2>1, <2>2, <2>3, <2>4, IncrementIsKnown, Zenon
<1>12. ASSUME NEW asked \in SUBSET WlAgents, AcquireLeastLoadedAgent(asked)
       PROVE  WlShape' /\ \A b \in WlAgents : WlKnown(b)'
    <2> DEFINE scores == Backfilled(asked, "realtime")
    <2>1. \A b \in asked : wlReload[b].pc = "ready" /\ wlScore[b]["realtime"] # WlAbsent
        BY <1>2, <1>12, Zenon DEF AcquireLeastLoadedAgent, Ready, WlKnown
    <2>2. scores \in [WlAgents -> [WlDims -> Int]] /\ \A b \in WlAgents : scores[b]["realtime"] = wlScore[b]["realtime"]
        BY <1>2, <2>1, BackfilledIsKnown DEF WlDims
    <2>3. PICK a \in asked : Increment(a, 1, scores) /\ wlTasks' = [wlTasks EXCEPT ![a] = @ + 1]
        BY <1>12, Zenon DEF AcquireLeastLoadedAgent, Least
    <2>4. wlKey[a]["realtime"] # WlAbsent /\ wlTasks[a] + 1 \in Nat
        BY <1>2, <2>1 DEF WlKnown
    <2>5. UNCHANGED <<wlRow, wlReload, wlGet>>
        BY <1>12, Zenon DEF AcquireLeastLoadedAgent
    <2> HIDE DEF scores
    <2> QED BY <1>2, <2>2, <2>3, <2>4, <2>5, IncrementIsKnown, Zenon
<1>13. ASSUME NEW asked \in SUBSET WlAgents, NEW dim \in WlDims, GetLeastLoadedAgent(asked, dim)
       PROVE  WlShape' /\ \A b \in WlAgents : WlKnown(b)'
    <2>1. wlScore' = Backfilled(asked, dim) /\ UNCHANGED <<wlKey, wlRow, wlUpserts, wlReload, wlGet, wlTasks>>
        BY <1>13 DEF GetLeastLoadedAgent
    <2>2. WlShape'
        BY <1>2, <2>1, BackfilledIsKnown, Zenon DEF WlShape
    <2>3. ASSUME NEW b \in WlAgents PROVE WlKnown(b)'
        <3>1. WlKnown(b)
            BY <1>2
        <3>2. wlScore'[b]["realtime"] \in {wlScore[b]["realtime"], wlTasks[b]}
            BY <1>2, <2>1, <3>1, BackfilledIsKnown DEF WlKnown, Count
        <3> QED BY <2>1, <3>1, <3>2, Zenon DEF WlKnown, WlAbsent
    <2> QED BY <2>2, <2>3
<1>14. ASSUME NEW a \in WlAgents PROVE ~GetAgentWorkload(a) /\ ~GetWritesBack(a)
    BY <1>2, Zenon DEF WlKnown, GetAgentWorkload, GetWritesBack
<1>15. ASSUME NEW u \in wlUpserts, UpsertEnds(u) PROVE WlShape' /\ \A b \in WlAgents : WlKnown(b)'
    <2>1. PICK a \in WlAgents, n \in Int : u = <<a, n>>
        BY <1>2 DEF WlShape
    <2>2. /\ wlUpserts' = wlUpserts \ {u}
          /\ wlRow' = [wlRow EXCEPT ![a] = n] \/ UNCHANGED wlRow
          /\ UNCHANGED <<wlKey, wlScore, wlReload, wlGet, wlTasks>>
        BY <1>15, <2>1, Zenon DEF UpsertEnds, wlRedis
    <2>3. WlShape'
        BY <1>2, <2>2 DEF WlShape
    <2>4. wlKey[a]["realtime"] # WlAbsent
        BY <1>2, <1>15, <2>1, Zenon DEF WlKnown
    <2>5. \A b \in WlAgents : wlRow'[b] = wlRow[b] \/ wlKey[b]["realtime"] # WlAbsent
        BY <1>2, <2>2, <2>4, Zenon DEF WlShape
    <2>6. ASSUME NEW b \in WlAgents PROVE WlKnown(b)'
        BY <1>2, <2>2, <2>5, SameIsKnown, Zenon
    <2> QED BY <2>3, <2>6
<1>16. CASE NextBucket
    <2>1. /\ wlKey' = [a \in WlAgents |-> [wlKey[a] EXCEPT !["bucket"] = WlAbsent]]
          /\ wlScore' = [a \in WlAgents |-> [wlScore[a] EXCEPT !["bucket"] = WlAbsent]]
          /\ UNCHANGED <<wlRow, wlUpserts, wlReload, wlGet, wlTasks>>
        BY <1>16, Zenon DEF NextBucket
    <2>2. WlShape'
        BY <1>2, <2>1 DEF WlShape, WlDims, WlAbsent
    <2>3. \A b \in WlAgents : /\ wlKey'[b]["realtime"] = wlKey[b]["realtime"]
                              /\ wlScore'[b]["realtime"] = wlScore[b]["realtime"]
        BY <1>2, <2>1 DEF WlShape, WlDims
    <2>4. ASSUME NEW b \in WlAgents PROVE WlKnown(b)'
        BY <1>2, <2>1, <2>3, SameIsKnown, Zenon
    <2> QED BY <2>2, <2>4
<1>17. CASE UNCHANGED wlVars
    <2>1. UNCHANGED <<wlKey, wlScore, wlRow, wlUpserts, wlReload, wlGet, wlTasks>>
        BY <1>17 DEF wlVars, wlRedis
    <2> QED BY <1>2, <2>1, Zenon DEF WlShape, WlKnown
<1>18. ~RedisWiped
    BY DEF RedisWiped
<1> QED BY <1>3, <1>4, <1>5, <1>6, <1>7, <1>8, <1>9, <1>10, <1>11, <1>12, <1>13, <1>14, <1>15,
   <1>16, <1>17, <1>18, Zenon DEF WlNext

\* Until Redis loses its keys, the counts AcquireLeastLoadedAgent compares are the
\* numbers of tasks, for any agents and any overlap of Reload, Remove, the ends of tasks
\* and the upserts (workload_store.go).
THEOREM WorkloadExact == WlSpec => []WorkloadIsExact
<1>1. WlInit => WlInv
    <2>1. WlInit => WlShape
        BY DEF WlInit, WlShape, WlAbsent, WlPlaces
    <2>2. ASSUME WlInit, NEW a \in WlAgents PROVE WlKnown(a)
        <3>1. /\ wlKey[a]["realtime"] = WlAbsent /\ wlScore[a]["realtime"] = WlAbsent
              /\ wlRow[a] = WlAbsent /\ wlGet[a] = WlAbsent /\ wlTasks[a] = 0 /\ wlUpserts = {}
            BY <2>2, Zenon DEF WlInit, WlDims
        <3>2. wlReload[a].pc = "off" /\ wlReload[a].v = 0
            BY <2>2, Zenon DEF WlInit
        <3> QED BY <3>1, <3>2 DEF WlKnown
    <2> QED BY <2>1, <2>2 DEF WlInv
<1>2. WlInv => WorkloadIsExact
    BY Zenon DEF WlInv, WorkloadIsExact, WlKnown, Ready
<1> QED BY <1>1, <1>2, WlInductive, PTL DEF WlSpec

-----------------------------------------------------------------------------
(***************************************************************************)
(* AckManager implements AckPromise, for every set of pending messages,    *)
(* every assignment of ids and every number of retries.  The abstract      *)
(* promise knows only whether an acknowledgement came while it was open;   *)
(* the waiter looks at a channel.  AkInv ties the two: while a waiter has  *)
(* not returned, its channel is full exactly if it was acknowledged.       *)
(***************************************************************************)

AkResults == {"none", "open", "retry", "confirmed", "timeout", "failed"}

AkTypes ==
    /\ akWait \in [AkPending -> AkResults]
    /\ akMap \subseteq AkPending /\ akTaken \subseteq AkPending
    /\ akChan \subseteq AkPending /\ akAcked \subseteq AkPending

\* A waiter and its channel agree, and nothing is known of a message not yet added.
AkInv ==
    /\ AkTypes
    /\ \A m \in AkPending :
        /\ akWait[m] = "none" => m \notin akMap \cup akTaken \cup akChan \cup akAcked
        /\ AkWaiting(m) => (m \in akAcked <=> m \in akChan)

\* No step of AckManager breaks AkInv.
LEMMA AkInductive == AkInv /\ [AkNext]_akVars => AkInv'
<1> SUFFICES ASSUME AkInv, [AkNext]_akVars PROVE AkInv'
    OBVIOUS
<1> USE DEF AkInv, AkTypes, AkResults, AkWaiting
<1>1. ASSUME NEW m \in AkPending, AddPendingMessage(m) PROVE AkInv'
    BY <1>1, Zenon DEF AddPendingMessage
<1>2. ASSUME NEW m \in AkPending, ConfirmMessage(m) PROVE AkInv'
    BY <1>2, Zenon DEF ConfirmMessage, akWaiter
<1>3. ASSUME NEW m \in AkPending, ConfirmSends(m) PROVE AkInv'
    BY <1>3, Zenon DEF ConfirmSends, akWaiter
<1>4. ASSUME NEW m \in AkPending, ConfirmCancels(m) \/ Deadline(m) PROVE AkInv'
    BY <1>4, Zenon DEF ConfirmCancels, Deadline, akWaiter
<1>5. ASSUME NEW m \in AkPending, RemovePendingMessage(m) PROVE AkInv'
    BY <1>5, Zenon DEF RemovePendingMessage, akWaiter
<1>6. ASSUME NEW m \in AkPending, AkWaits(m) PROVE AkInv'
    BY <1>6, Zenon DEF AkWaits, WaitForAck, WaitForAckWithRetry, TimerFires, Retried, Receive,
       AkTimeout
<1>7. ASSUME NEW i \in akExpired, CleanupDelete(i) PROVE AkInv'
    BY <1>7, Zenon DEF CleanupDelete, akWaiter
<1>8. CASE CleanupScan \/ AkShutdown
    BY <1>8, Zenon DEF CleanupScan, AkShutdown, akWaiter
<1>9. CASE UNCHANGED akVars
    BY <1>9, Zenon DEF akVars, akWaiter
<1> QED
    BY <1>1, <1>2, <1>3, <1>4, <1>5, <1>6, <1>7, <1>8, <1>9, Zenon DEF AkNext

\* Every step of AckManager is a step of the promise or leaves it as it is.
LEMMA AkSimulates == AkInv /\ [AkNext]_akVars => [Promise!Next]_(Promise!promise)
<1> SUFFICES ASSUME AkInv, [AkNext]_akVars PROVE [Promise!Next]_(Promise!promise)
    OBVIOUS
<1> USE DEF AkInv, AkTypes, AkResults, AkWaiting
<1>1. ASSUME UNCHANGED <<akWait, akAcked>> PROVE UNCHANGED Promise!promise
    BY <1>1 DEF Promise!promise
<1>2. ASSUME NEW m \in AkPending \cap AkPlain, UNCHANGED akAcked, NEW r, akWait' = [akWait EXCEPT ![m] = r]
      PROVE UNCHANGED Promise!promise
    BY <1>2 DEF Promise!promise
<1>3. ASSUME NEW m \in AkPending, AddPendingMessage(m) PROVE [Promise!Next]_(Promise!promise)
    <2>1. CASE m \in AkPlain
        BY <1>2, <1>3, <2>1, Zenon DEF AddPendingMessage
    <2>2. CASE m \notin AkPlain
        <3>1. Promise!Open(m)
            BY <1>3, <2>2, Zenon DEF AddPendingMessage, Promise!Open
        <3> QED BY <2>2, <3>1 DEF Promise!Next
    <2> QED BY <2>1, <2>2
<1>4. ASSUME NEW m \in AkPending, ConfirmSends(m) PROVE [Promise!Next]_(Promise!promise)
    <2>1. CASE m \in AkPlain \/ ~AkWaiting(m)
        BY <1>4, <2>1, Zenon DEF ConfirmSends, akWaiter, Promise!promise
    <2>2. CASE m \notin AkPlain /\ AkWaiting(m)
        <3>1. Promise!Acknowledge(m)
            BY <1>4, <2>2, Zenon DEF ConfirmSends, akWaiter, Promise!Acknowledge
        <3> QED BY <2>2, <3>1 DEF Promise!Next
    <2> QED BY <2>1, <2>2
<1>5. ASSUME NEW m \in AkPending, AkWaits(m) PROVE [Promise!Next]_(Promise!promise)
    <2>1. CASE WaitForAck(m)
        BY <1>2, <1>5, <2>1, Zenon DEF WaitForAck, Receive, AkTimeout
    <2>2. ASSUME m \notin AkPlain, AkWaiting(m), UNCHANGED akAcked,
                 \/ m \in akChan /\ akWait' = [akWait EXCEPT ![m] = "confirmed"]
                 \/ m \notin akChan /\ akWait' = [akWait EXCEPT ![m] = "timeout"]
                 \/ akWait' = [akWait EXCEPT ![m] = "failed"]
          PROVE [Promise!Next]_(Promise!promise)
        <3>1. Promise!Settle(m)
            BY <2>2, Zenon DEF Promise!Settle
        <3> QED BY <2>2, <3>1, Zenon DEF Promise!Next
    <2>3. ASSUME AkWaiting(m), UNCHANGED akAcked,
                 NEW r \in {"open", "retry"}, akWait' = [akWait EXCEPT ![m] = r]
          PROVE UNCHANGED Promise!promise
        BY <2>3 DEF Promise!promise
    <2>4. CASE WaitForAckWithRetry(m)
        BY <2>2, <2>4, Zenon DEF WaitForAckWithRetry, Receive, AkTimeout
    <2>5. CASE TimerFires(m)
        BY <2>2, <2>3, <2>5, Zenon DEF TimerFires, Receive, AkTimeout
    <2>6. CASE Retried(m)
        BY <1>2, <2>2, <2>3, <2>6, Zenon DEF Retried, Receive
    <2> QED BY <1>5, <2>1, <2>4, <2>5, <2>6, Zenon DEF AkWaits
<1>6. ASSUME NEW m \in AkPending,
             ConfirmMessage(m) \/ ConfirmCancels(m) \/ RemovePendingMessage(m) \/ Deadline(m)
      PROVE UNCHANGED Promise!promise
    BY <1>1, <1>6, Zenon DEF ConfirmMessage, ConfirmCancels, RemovePendingMessage, Deadline,
       akWaiter
<1>7. ASSUME NEW i \in akExpired, CleanupDelete(i) PROVE UNCHANGED Promise!promise
    BY <1>1, <1>7, Zenon DEF CleanupDelete, akWaiter
<1>8. CASE CleanupScan \/ AkShutdown \/ UNCHANGED akVars
    BY <1>1, <1>8, Zenon DEF CleanupScan, AkShutdown, akVars, akWaiter
<1> QED BY <1>3, <1>4, <1>5, <1>6, <1>7, <1>8, Zenon DEF AkNext

\* WaitForAckWithRetry implements AckPromise: an acknowledgement that came while
\* it waited is never reported as a timeout, and none that did not come is reported,
\* however confirmations, deadlines, cleanups and a shutdown overlap (AckManager).
THEOREM PromiseKept == AkSpec => RetryKeepsPromise
<1>1. AkInit => AkInv
    BY DEF AkInit, AkInv, AkTypes, AkResults, AkWaiting
<1>2. AkInit => Promise!Init
    BY DEF AkInit, Promise!Init
<1> QED BY <1>1, <1>2, AkInductive, AkSimulates, PTL DEF AkSpec, RetryKeepsPromise, Promise!Spec
=============================================================================
