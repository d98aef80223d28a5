----------------------- MODULE OfflineReplay_proofs -----------------------
(* For any number of messages and logins: two replays of a user never      *)
(* drain together.  Then the invariant LiveInv of the messages, and the    *)
(* steps of the senders that keep it; LiveMessages_proofs has the others.  *)
EXTENDS OfflineReplay, WellFoundedInduction, TLAPS

-----------------------------------------------------------------------------
(* Induction on the natural numbers, stated for a set, and what the        *)
(* operators on sequences do to the set of the elements.                   *)

\* A set of natural numbers that is not empty has a least one.
LEMMA Least ==
    ASSUME NEW A, A \subseteq Nat, A # {}
    PROVE  \E i \in A : \A j \in A : i <= j
<1>1. PICK y \in A : \A z \in A : ~ (<<z, y>> \in OpToRel(<, Nat))
  BY WFMin, NatLessThanWellFounded, Zenon
<1>2. \A z \in A : ~(z < y)
  BY <1>1, Zenon DEF OpToRel
<1> QED  BY <1>2

\* A set that has 0 and the successor of each of its numbers has all of them.
LEMMA SetInduction ==
    ASSUME NEW X, 0 \in X, \A n \in Nat : n \in X => n + 1 \in X
    PROVE  Nat \subseteq X
<1> DEFINE Y == Nat \ X
<1>1. CASE Y # {}
  <2>1. PICK y \in Y : \A z \in Y : y <= z
    <3>1. Y \subseteq Nat
      OBVIOUS
    <3> HIDE DEF Y
    <3> QED  BY <1>1, <3>1, Least, Zenon
  <2>2. y # 0 /\ y - 1 \in Nat /\ ~(y <= y - 1)
    OBVIOUS
  <2> QED  BY <2>1, <2>2
<1> QED  BY <1>1

\* f starts with a value for 0, and computes each value from the one before.
Computes(f, start, n, step) == f[0] = start /\ \A i \in 1 .. n : f[i] = step[i][f[i - 1]]

Steps(n, V) == [1 .. n -> [V -> V]]
Computable(V, start, n, step) == \E f \in [0 .. n -> V] : Computes(f, start, n, step)

\* Such a function exists.
LEMMA Recursion ==
    ASSUME NEW V, NEW start \in V, NEW n \in Nat, NEW step \in Steps(n, V)
    PROVE  Computable(V, start, n, step)
<1> USE DEF Computable, Computes, Steps
<1> DEFINE Upto(k, f) == f[0] = start /\ \A i \in 1 .. k : f[i] = step[i][f[i - 1]]
           X == {k \in Nat : k <= n => \E f \in [0 .. k -> V] : Upto(k, f)}
<1>1. 0 \in X
  <2>1. [i \in 0 .. 0 |-> start] \in [0 .. 0 -> V] /\ Upto(0, [i \in 0 .. 0 |-> start])
    OBVIOUS
  <2> QED  BY <2>1, Zenon
<1>2. ASSUME NEW k \in Nat, k \in X  PROVE  k + 1 \in X
  <2> SUFFICES ASSUME k + 1 <= n  PROVE  \E f \in [0 .. k + 1 -> V] : Upto(k + 1, f)
    OBVIOUS
  <2>1. PICK f \in [0 .. k -> V] : Upto(k, f)
    BY <1>2
  <2> DEFINE g == [i \in 0 .. k + 1 |-> IF i = k + 1 THEN step[k + 1][f[k]] ELSE f[i]]
  <2>2. g \in [0 .. k + 1 -> V] /\ g[0] = f[0]
    OBVIOUS
  <2>3. \A i \in 1 .. k + 1 : g[i] = step[i][g[i - 1]]
    BY <2>1
  <2> QED  BY <2>1, <2>2, <2>3, Zenon
<1>3. n \in X
  <2> HIDE DEF X
  <2> QED  BY <1>1, <1>2, SetInduction, Zenon
<1> QED  BY <1>3

\* Append adds its element.
LEMMA AppendElements ==
    ASSUME NEW S, NEW s \in Seq(S), NEW x \in S
    PROVE  Append(s, x) \in Seq(S) /\ Range(Append(s, x)) = Range(s) \cup {x}
<1>1. Append(s, x) \in Seq(S) /\ Len(Append(s, x)) = Len(s) + 1
  OBVIOUS
<1>2. \A i \in 1 .. Len(s) : Append(s, x)[i] = s[i]
  OBVIOUS
<1>3. Append(s, x)[Len(s) + 1] = x
  OBVIOUS
<1>4. DOMAIN Append(s, x) = 1 .. Len(s) + 1 /\ DOMAIN s = 1 .. Len(s) /\ Len(s) \in Nat
  BY <1>1
<1> QED  BY <1>1, <1>2, <1>3, <1>4 DEF Range

\* A sequence has the elements of its head and of its tail.
LEMMA TailElements ==
    ASSUME NEW S, NEW s \in Seq(S), s # <<>>
    PROVE  /\ Head(s) \in S /\ Tail(s) \in Seq(S)
           /\ Range(s) = {Head(s)} \cup Range(Tail(s))
<1>1. Head(s) \in S /\ Tail(s) \in Seq(S) /\ Len(s) \in Nat \ {0} /\ Len(Tail(s)) = Len(s) - 1
  OBVIOUS
<1>2. Head(s) = s[1] /\ \A i \in 1 .. Len(s) - 1 : Tail(s)[i] = s[i + 1]
  OBVIOUS
<1>3. DOMAIN Tail(s) = 1 .. Len(s) - 1 /\ DOMAIN s = 1 .. Len(s)
  BY <1>1
<1>4. \A i \in 2 .. Len(s) : i - 1 \in 1 .. Len(s) - 1 /\ s[i] = Tail(s)[i - 1]
  BY <1>1, <1>2
<1>5. Range(s) \subseteq {Head(s)} \cup Range(Tail(s))
  <2> SUFFICES ASSUME NEW i \in 1 .. Len(s)  PROVE  s[i] \in {Head(s)} \cup Range(Tail(s))
    BY <1>3, Zenon DEF Range
  <2>1. i = 1 \/ i \in 2 .. Len(s)
    OBVIOUS
  <2> QED  BY <1>2, <1>3, <1>4, <2>1, Zenon DEF Range
<1>6. ASSUME NEW i \in 1 .. Len(s) - 1  PROVE  i + 1 \in 1 .. Len(s)
  BY <1>1
<1>7. {Head(s)} \cup Range(Tail(s)) \subseteq Range(s)
  BY <1>1, <1>2, <1>3, <1>6 DEF Range
<1> QED  BY <1>1, <1>5, <1>7

\* A sequence has the elements of its first n entries and of the others.
LEMMA SplitElements ==
    ASSUME NEW S, NEW s \in Seq(S), NEW n \in 0 .. Len(s)
    PROVE  /\ SubSeq(s, 1, n) \in Seq(S) /\ SubSeq(s, n + 1, Len(s)) \in Seq(S)
           /\ Len(SubSeq(s, 1, n)) = n /\ Len(SubSeq(s, n + 1, Len(s))) = Len(s) - n
           /\ Range(s) = Range(SubSeq(s, 1, n)) \cup Range(SubSeq(s, n + 1, Len(s)))
<1> DEFINE a == SubSeq(s, 1, n)
           b == SubSeq(s, n + 1, Len(s))
<1>1. Len(s) \in Nat /\ n \in Nat /\ n <= Len(s)
  OBVIOUS
<1>2. a \in Seq(S) /\ Len(a) = n /\ \A i \in 1 .. n : a[i] = s[i]
  BY <1>1
<1>3. b \in Seq(S) /\ Len(b) = Len(s) - n /\ \A i \in 1 .. Len(s) - n : b[i] = s[n + i]
  BY <1>1
<1>4. \A i \in n + 1 .. Len(s) : i - n \in 1 .. Len(s) - n /\ s[i] = b[i - n]
  BY <1>1, <1>3
<1>5. DOMAIN a = 1 .. n /\ DOMAIN b = 1 .. Len(s) - n /\ DOMAIN s = 1 .. Len(s)
  BY <1>2, <1>3
<1> HIDE DEF a, b
<1>6. Range(s) \subseteq Range(a) \cup Range(b)
  BY <1>1, <1>2, <1>4, <1>5 DEF Range
<1>7. Range(a) \subseteq Range(s)
  BY <1>1, <1>2, <1>5 DEF Range
<1>8. ASSUME NEW i \in 1 .. Len(s) - n  PROVE  n + i \in 1 .. Len(s)
  BY <1>1
<1>9. Range(b) \subseteq Range(s)
  BY <1>3, <1>5, <1>8, Zenon DEF Range
<1> QED  BY <1>2, <1>3, <1>6, <1>7, <1>9, Zenon DEF a, b

-----------------------------------------------------------------------------
\* The control points between winning the right to replay and giving it back.
Draining == {"begin", "count", "fetch", "drain", "push", "delete", "release"}

\* The right is marked while a replay is draining, and only one is.
RightIsMarked ==
    /\ rpc \in [Replays -> ReplayPC]
    /\ \A r \in Replays : rpc[r] \in Draining => inflight = TRUE
    /\ \A r, q \in Replays : rpc[r] \in Draining /\ rpc[q] \in Draining => r = q

\* A step of replay r that keeps it draining, or leaves it not draining,
\* preserves the invariant when the mark does not change.
LEMMA ReplayMoves ==
    ASSUME RightIsMarked, NEW r \in Replays, NEW pc \in ReplayPC,
           rpc' = [rpc EXCEPT ![r] = pc],
           pc \in Draining => rpc[r] \in Draining,
           inflight' = inflight
    PROVE  RightIsMarked'
BY DEF RightIsMarked, ReplayPC, Draining

\* Every step preserves the invariant: only TryBeginUserReplay makes a replay
\* draining, and only when the mark was absent; only the draining replay
\* removes the mark.
LEMMA MarkStep ==
    ASSUME RightIsMarked, [OfflineNext]_offlineVars
    PROVE  RightIsMarked'
<1> USE DEF replayGateVars, storeVars, replaySendVars, replayVars
<1>1. CASE UNCHANGED <<rpc, inflight>>
  BY <1>1 DEF RightIsMarked
<1>2. ASSUME NEW r \in Replays, TryBeginUserReplay(r)
      PROVE  RightIsMarked'
  BY <1>2, Zenon DEF TryBeginUserReplay, RightIsMarked, ReplayPC, Draining
<1>3. ASSUME NEW r \in Replays, ReleaseReplay(r)
      PROVE  RightIsMarked'
  BY <1>3, Zenon DEF ReleaseReplay, RightIsMarked, ReplayPC, Draining
<1>4. ASSUME NEW r \in Replays, Connect(r)
      PROVE  RightIsMarked'
  BY <1>4, ReplayMoves, Zenon DEF Connect, ReplayPC, Draining
<1>5. ASSUME NEW r \in Replays, GateBegin(r)
      PROVE  RightIsMarked'
  BY <1>5, ReplayMoves, Zenon DEF GateBegin, ReplayPC, Draining
<1>6. ASSUME NEW r \in Replays, CountOffline(r)
      PROVE  RightIsMarked'
  BY <1>6, ReplayMoves, Zenon DEF CountOffline, ReplayPC, Draining
<1>7. ASSUME NEW r \in Replays, DrainList(r)
      PROVE  RightIsMarked'
  <2>1. inflight' = inflight /\ rpc[r] = "drain"
    BY <1>7, Zenon DEF DrainList
  <2>2. \/ rpc' = [rpc EXCEPT ![r] = "push"]
        \/ rpc' = [rpc EXCEPT ![r] = "fetch"]
    BY <1>7, Zenon DEF DrainList
  <2> QED  BY <2>1, <2>2, ReplayMoves, Zenon DEF ReplayPC, Draining
<1>18. ASSUME NEW r \in Replays, GetLength(r)
       PROVE  RightIsMarked'
  <2>1. inflight' = inflight /\ rpc[r] = "fetch"
    BY <1>18, Zenon DEF GetLength
  <2>2. rpc' = rpc \/ rpc' = [rpc EXCEPT ![r] = "drain"]
    BY <1>18, Zenon DEF GetLength
  <2>3. CASE rpc' = rpc
    BY <2>1, <2>3, <1>1
  <2> QED  BY <2>1, <2>2, <2>3, ReplayMoves, Zenon DEF ReplayPC, Draining
<1>8. ASSUME NEW r \in Replays, FetchPage(r)
      PROVE  RightIsMarked'
  <2>1. inflight' = inflight /\ rpc[r] = "fetch"
    BY <1>8, Zenon DEF FetchPage
  <2>2. \/ rpc' = [rpc EXCEPT ![r] = "push"]
        \/ rpc' = [rpc EXCEPT ![r] = "release"]
    BY <1>8, Zenon DEF FetchPage
  <2> QED  BY <2>1, <2>2, ReplayMoves, Zenon DEF ReplayPC, Draining
<1>9. ASSUME NEW r \in Replays, UpdatePushStatus(r)
      PROVE  RightIsMarked'
  <2>1. /\ inflight' = inflight /\ rpc[r] = "push"
        /\ rpc' = [rpc EXCEPT ![r] = "delete"]
    BY <1>9, Zenon DEF UpdatePushStatus
  <2> QED  BY <2>1, ReplayMoves, Zenon DEF ReplayPC, Draining
<1>10. ASSUME NEW r \in Replays, DeletePushed(r)
       PROVE  RightIsMarked'
  <2>1. inflight' = inflight /\ rpc[r] = "delete"
    BY <1>10, Zenon DEF DeletePushed
  <2>2. \/ rpc' = [rpc EXCEPT ![r] = "release"]
        \/ rpc' = [rpc EXCEPT ![r] = "fetch"]
    BY <1>10, ZenonT(60) DEF DeletePushed
  <2> QED  BY <2>1, <2>2, ReplayMoves, Zenon DEF ReplayPC, Draining
<1>11. ASSUME NEW r \in Replays, GateEnd(r)
       PROVE  RightIsMarked'
  BY <1>11, ReplayMoves, Zenon DEF GateEnd, ReplayPC, Draining
<1>12. ASSUME NEW r \in Replays, ReplayDone(r)
       PROVE  RightIsMarked'
  BY <1>12, ReplayMoves, Zenon DEF ReplayDone, ReplayPC, Draining
<1>13. ASSUME NEW r \in Replays, Push(r) \/ PushReturn(r) \/ FlushHeld(r) \/ Deadline(r)
       PROVE  UNCHANGED <<rpc, inflight>>
  BY <1>13, ZenonT(60) DEF Push, PushReturn, FlushHeld, Deadline
<1>14. ASSUME SendNext \/ SendReturn \/ Disconnect
       PROVE  UNCHANGED <<rpc, inflight>>
  BY <1>14, ZenonT(60) DEF SendNext, SendReturn, Disconnect
<1>15. ASSUME NEW c \in Callers, SendStep(c)
       PROVE  UNCHANGED <<rpc, inflight>>
  BY <1>15, Zenon DEF SendStep, SendAttempt, HoldDelivery, RunClosure, DeliverDirect, StoreReturn
<1>16. ASSUME NEW o \in Owners, NEW b \in Backends, StoreWrite(o, b)
       PROVE  UNCHANGED <<rpc, inflight>>
  BY <1>16, Zenon DEF StoreWrite
<1>17. CASE UNCHANGED offlineVars
  BY <1>17, <1>1, Zenon DEF offlineVars
<1> QED
  BY <1>1, <1>2, <1>3, <1>4, <1>5, <1>6, <1>7, <1>8, <1>9, <1>10, <1>11, <1>12, <1>13, <1>14,
     <1>15, <1>16, <1>17, <1>18, Zenon DEF OfflineNext, ReplayStep

\* OneReplayDrains holds in every reachable state: TryBeginUserReplay and
\* EndUserReplay make the replays of a user mutually exclusive.
THEOREM ReplaysExclude == OfflineSpec => []OneReplayDrains
<1>1. OfflineInit => RightIsMarked
  BY DEF OfflineInit, RightIsMarked, ReplayPC, Draining
<1>2. RightIsMarked /\ [OfflineNext]_offlineVars => RightIsMarked'
  BY MarkStep
<1>3. RightIsMarked => OneReplayDrains
  BY DEF RightIsMarked, OneReplayDrains, Draining
<1> QED  BY <1>1, <1>2, <1>3, PTL DEF OfflineSpec

-----------------------------------------------------------------------------
(* Where a message is, and the invariant behind LiveMessageIsSafe.         *)

\* Where keeps the elements that are in T.
LEMMA WhereElements ==
    ASSUME NEW S, NEW s \in Seq(S), NEW T
    PROVE  Where(s, T) \in Seq(S) /\ Range(Where(s, T)) = Range(s) \cap T
<1> DEFINE n == Len(s)
           V == Seq(S)
           Next(i, v) == IF s[i] \in T THEN Append(v, s[i]) ELSE v
           step == [i \in 1 .. n |-> [v \in V |-> Next(i, v)]]
           F == CHOOSE f : f = [i \in 0 .. n |-> IF i = 0 THEN <<>> ELSE Next(i, f[i - 1])]
<1>1. n \in Nat /\ <<>> \in V /\ \A i \in 1 .. n : s[i] \in S
  OBVIOUS
<1>2. \A i \in 1 .. n, v \in V : Next(i, v) \in V
  BY <1>1
<1>3. Where(s, T) = F[n]
  BY DEF Where
<1> HIDE DEF n, V, Next
<1>4. step \in [1 .. n -> [V -> V]]
  BY <1>2
<1>5. PICK f \in [0 .. n -> V] : f[0] = <<>> /\ \A i \in 1 .. n : f[i] = step[i][f[i - 1]]
  <2> HIDE DEF step
  <2>1. n \in Nat /\ <<>> \in V /\ step \in Steps(n, V)
    BY <1>1, <1>4 DEF Steps
  <2>2. Computable(V, <<>>, n, step)
    BY <2>1, Recursion
  <2> QED  BY <2>2, Zenon DEF Computable, Computes
<1>6. \A i \in 1 .. n : f[i] = Next(i, f[i - 1])
  <2> SUFFICES ASSUME NEW i \in 1 .. n  PROVE  f[i] = Next(i, f[i - 1])
    OBVIOUS
  <2>1. i - 1 \in 0 .. n
    BY <1>1
  <2> QED  BY <1>5, <2>1, Zenon
<1>7. f = [i \in 0 .. n |-> IF i = 0 THEN <<>> ELSE Next(i, f[i - 1])]
  BY <1>1, <1>5, <1>6
<1>8. F = [i \in 0 .. n |-> IF i = 0 THEN <<>> ELSE Next(i, F[i - 1])]
  BY <1>7, Zenon
<1> HIDE DEF F
<1>13. F[0] = <<>> /\ \A i \in 1 .. n : F[i] = Next(i, F[i - 1])
  BY <1>1, <1>8
<1> USE DEF V, Next
<1> DEFINE X == {k \in Nat : k <= n => F[k] \in Seq(S) /\ Range(F[k]) = {s[j] : j \in 1 .. k} \cap T}
<1>9. 0 \in X
  <2> Range(<<>>) = {}
    BY DEF Range
  <2>1. {s[j] : j \in 1 .. 0} = {}
    OBVIOUS
  <2>2. F[0] \in Seq(S) /\ Range(F[0]) = {s[j] : j \in 1 .. 0} \cap T
    BY <1>13, <2>1
  <2> HIDE DEF V, Next
  <2> QED  BY <2>2, Zenon
<1>10. ASSUME NEW k \in Nat, k \in X  PROVE  k + 1 \in X
  <2> SUFFICES ASSUME k + 1 <= n
               PROVE  F[k + 1] \in Seq(S) /\ Range(F[k + 1]) = {s[j] : j \in 1 .. k + 1} \cap T
    BY <1>1
  <2>1. F[k] \in Seq(S) /\ Range(F[k]) = {s[j] : j \in 1 .. k} \cap T
    BY <1>10, <1>1
  <2>2. k + 1 \in 1 .. n /\ s[k + 1] \in S /\ (k + 1) - 1 = k
    BY <1>1
  <2>3. F[k + 1] = IF s[k + 1] \in T THEN Append(F[k], s[k + 1]) ELSE F[k]
    BY <2>2, <1>13, Zenon
  <2>4. {s[j] : j \in 1 .. k + 1} = {s[j] : j \in 1 .. k} \cup {s[k + 1]}
    OBVIOUS
  <2>5. /\ Append(F[k], s[k + 1]) \in Seq(S)
        /\ Range(Append(F[k], s[k + 1])) = Range(F[k]) \cup {s[k + 1]}
    BY <2>1, <2>2, AppendElements
  <2> QED  BY <2>1, <2>3, <2>4, <2>5, Zenon
<1>11. n \in X
  <2> HIDE DEF X
  <2> QED  BY <1>1, <1>9, <1>10, SetInduction, Zenon
<1>12. Range(s) = {s[j] : j \in 1 .. n}
  BY DEF Range, n
<1> QED  BY <1>1, <1>3, <1>11, <1>12

\* The values of job.
StoreJobs == [copy : Copies \cup {NoCopy}, todo : SUBSET Backends, ok : BOOLEAN]

\* The types of the variables a message moves through.
OfShape ==
    /\ held \in Seq(Delivery)
    /\ redis \in [Lists -> Seq(Copies)]
    /\ mysql \in Seq(Copies)
    /\ spc \in [Callers -> ReplaySendPC]
    /\ smsg \in [Callers -> Copies \cup {NoCopy}]
    /\ job \in [Owners -> StoreJobs]
    /\ rpc \in [Replays -> ReplayPC]
    /\ source \in [Replays -> {"p2p", "group", "table"}]
    /\ length \in [Replays -> Nat]
    /\ fetched \in [Replays -> Seq(Copies)]
    /\ flush \in [Replays -> Seq(Delivery)]
    /\ pushed \in [Replays -> SUBSET Msgs]
    /\ got \in Seq(Msgs)
    /\ drained \subseteq Msgs

\* The places of InTransit.
InHeld(m) == \E d \in Range(held) : d.copy.msg = m
InJob(m) == \E o \in Owners : job[o].copy.msg = m /\ job[o].todo # {}
InCall(m) == \E c \in Callers : spc[c] \notin {"idle", "ok", "fail"} /\ smsg[c].msg = m
InFetched(m) == \E r \in Replays : \E e \in Range(fetched[r]) : e.msg = m
InFlush(m) == \E r \in Replays : \E d \in Range(flush[r]) : d.copy.msg = m

\* The promise of LiveMessageIsSafe.
Safe(m) == m \in Range(got) \/ InStore(m) \/ InTransit(m)

\* The goroutine of StoreOfflineOnDeliveryFailure ran and both writes failed.
StoreFailed(m) == job[m].copy.msg = m /\ job[m].todo = {} /\ job[m].ok = FALSE

\* What a replay handles was taken from the store.
ReplayHandlesTaken ==
    /\ \A r \in Replays :
          /\ \A e \in Range(fetched[r]) : e.msg \in drained
          /\ pushed[r] \subseteq drained
          /\ smsg[r].msg \in drained \cup {0}
          /\ \A d \in Range(flush[r]) : d.src = "offline" => d.copy.msg \in drained
    /\ \A d \in Range(held) : d.src = "offline" => d.copy.msg \in drained

\* A caller waits for the store call of its own copy, and only then has one.
CallsOwnJobs ==
    /\ \A c \in Callers : spc[c] # "idle" => smsg[c] \in Copies
    /\ \A c \in Callers : job[c].todo # {} => spc[c] = "wait"
    /\ \A c \in Callers : spc[c] = "wait" => job[c].copy = smsg[c]
    /\ \A o \in Owners : job[o].todo # {} => job[o].copy \in Copies
    /\ \A m \in Msgs : job[m].copy.msg \in {0, m}

\* A store call that succeeded left its message in the store, and outside a
\* replay a Redis that does not fail makes it succeed.
JobsAreTrue ==
    /\ \A o \in Owners : job[o].ok = TRUE /\ job[o].copy.msg \in Msgs \ drained => InStore(job[o].copy.msg)
    /\ MayFailIO = FALSE =>
          \A o \in Owners \ Replays :
              job[o].copy.msg # 0 /\ "redis" \notin job[o].todo => job[o].ok = TRUE

\* end runs what it took, and nobody shortens a list a replay has measured.
ReplayPoints ==
    /\ \A r \in Replays : flush[r] # <<>> => rpc[r] = "flush"
    /\ \A r \in Replays :
          rpc[r] = "drain" => source[r] # "table" /\ length[r] <= Len(redis[SourceList(r)])

\* m was sent and its sender was not told, nor will be, that it failed.
Settled(m) ==
    m <= smsg[Sender].msg /\ m \notin refused /\ ~(m = smsg[Sender].msg /\ spc[Sender] = "fail")

\* The promise, from the start of the send call on: this is what a step keeps.
SettledIsSafe == \A m \in Msgs \ drained : Settled(m) => Safe(m) \/ StoreFailed(m)

\* The invariant of the messages.
MessagesAreKept ==
    /\ OfShape /\ ReplayHandlesTaken /\ CallsOwnJobs /\ JobsAreTrue
    /\ ReplayPoints /\ SettledIsSafe

LiveInv == RightIsMarked /\ MessagesAreKept

\* InTransit is one of these places.
LEMMA TransitPlaces ==
    ASSUME NEW m
    PROVE  /\ InTransit(m) <=> InHeld(m) \/ InJob(m) \/ InCall(m) \/ InFetched(m) \/ InFlush(m)
           /\ InTransit(m)' <=> InHeld(m)' \/ InJob(m)' \/ InCall(m)' \/ InFetched(m)' \/ InFlush(m)'
BY Zenon DEF InTransit, InHeld, InJob, InCall, InFetched, InFlush

\* Before the first step no message is sent.
LEMMA LiveInitially == OfflineInit => LiveInv
<1> SUFFICES ASSUME OfflineInit  PROVE  LiveInv
  OBVIOUS
<1> USE DEF OfflineInit
<1>1. RightIsMarked
  BY Zenon DEF RightIsMarked, ReplayPC, Draining
<1>2. OfShape
  BY DEF OfShape, ReplaySendPC, ReplayPC, StoreJobs, NoJob
<1>3. Range(<<>>) = {}
  BY DEF Range
<1>4. ReplayHandlesTaken
  BY <1>3, ZenonT(60) DEF ReplayHandlesTaken, NoCopy, Callers
<1>5. CallsOwnJobs
  BY Zenon DEF CallsOwnJobs, NoJob, NoCopy, Owners
<1>6. JobsAreTrue
  BY Zenon DEF JobsAreTrue, NoJob, NoCopy, Owners
<1>7. ReplayPoints
  BY Zenon DEF ReplayPoints
<1>8. SettledIsSafe
  <2>1. smsg[Sender].msg = 0
    BY Zenon DEF NoCopy, Callers
  <2>2. \A m \in Msgs : ~(m <= 0)
    BY OfflineAssumption DEF Msgs
  <2> QED  BY <2>1, <2>2, Zenon DEF SettledIsSafe, Settled
<1> QED  BY <1>1, <1>2, <1>4, <1>5, <1>6, <1>7, <1>8, Zenon DEF LiveInv, MessagesAreKept

\* The variables MessagesAreKept reads, besides the place of a replay.
LiveFlow == <<held, redis, mysql, spc, smsg, job, fetched, flush, pushed, got, refused, drained>>

\* A step that moves no message.
LEMMA FlowKept ==
    ASSUME MessagesAreKept, UNCHANGED LiveFlow
    PROVE  ReplayHandlesTaken' /\ CallsOwnJobs' /\ JobsAreTrue' /\ SettledIsSafe'
<1> USE DEF MessagesAreKept, LiveFlow
<1>1. ReplayHandlesTaken'
  BY Zenon DEF ReplayHandlesTaken
<1>2. CallsOwnJobs'
  BY Zenon DEF CallsOwnJobs
<1>3. JobsAreTrue'
  BY Zenon DEF JobsAreTrue, InStore
<1>4. SettledIsSafe'
  BY DEF SettledIsSafe, Settled, Safe, StoreFailed, InStore, InTransit
<1> QED  BY <1>1, <1>2, <1>3, <1>4

\* ... of replay r, which has not just read a length and leaves no queue behind.
LEMMA QuietStep ==
    ASSUME MessagesAreKept, UNCHANGED LiveFlow, NEW r \in Replays,
           NEW pc \in ReplayPC \ {"drain"}, rpc' = [rpc EXCEPT ![r] = pc] \/ rpc' = rpc,
           rpc[r] # "flush" \/ flush[r] = <<>>,
           source' = source, length' = length
    PROVE  MessagesAreKept'
<1>2. OfShape'
  BY Zenon DEF MessagesAreKept, LiveFlow, OfShape
<1>3. ReplayPoints'
  <2>1. /\ rpc \in [Replays -> ReplayPC] /\ flush' = flush /\ redis' = redis
        /\ \A q \in Replays : flush[q] # <<>> => rpc[q] = "flush"
        /\ \A q \in Replays :
              rpc[q] = "drain" => source[q] # "table" /\ length[q] <= Len(redis[SourceList(q)])
    BY Zenon DEF MessagesAreKept, LiveFlow, OfShape, ReplayPoints
  <2>2. \A q \in Replays : SourceList(q)' = SourceList(q)
    BY Zenon DEF SourceList, ContextNS
  <2>3. \A q \in Replays : rpc'[q] = "drain" => rpc[q] = "drain"
    BY <2>1, Zenon
  <2>4. \A q \in Replays : rpc[q] = "flush" /\ flush[q] # <<>> => rpc'[q] = "flush"
    BY <2>1, Zenon
  <2> QED  BY <2>1, <2>2, <2>3, <2>4, Zenon DEF ReplayPoints
<1> QED  BY <1>2, <1>3, FlowKept, Zenon DEF MessagesAreKept

\* What the steps that neither write nor empty the store leave alone.
LEMMA StoreKept ==
    ASSUME NEW m, UNCHANGED <<redis, mysql>>
    PROVE  InStore(m)' <=> InStore(m)
BY DEF InStore

\* The points of a replay depend on these variables only.
LEMMA PointsKept ==
    ASSUME ReplayPoints, UNCHANGED <<rpc, source, length, redis, flush>>
    PROVE  ReplayPoints'
<1>1. \A q \in Replays : SourceList(q)' = SourceList(q)
  BY DEF SourceList, ContextNS
<1> QED  BY <1>1 DEF ReplayPoints

\* The numbers of messages, and the owners of store calls.
LEMMA Numbers ==
    /\ Msgs \subseteq Nat \ {0} /\ 0 \notin Msgs /\ NoCopy \notin Copies /\ NoCopy.msg = 0
    /\ \A e \in Copies : e.msg \in Msgs
    /\ Sender \in Callers /\ Replays \subseteq Callers /\ Callers \subseteq Owners /\ Msgs \subseteq Owners
    /\ \A o \in Owners : o \in Callers \/ o \in Msgs
    /\ \A c \in Callers : c \notin Msgs /\ (c = Sender \/ c \in Replays)
    /\ Sender \notin Replays
BY OfflineAssumption DEF Msgs, NoCopy, Copies, Callers, Owners

\* A step of caller c that keeps it with the job of its own copy.
LEMMA OwnJobsKept ==
    ASSUME CallsOwnJobs, NEW c \in Callers,
           \A p \in Owners : p # c => job'[p] = job[p],
           \A k \in Callers : k # c => spc'[k] = spc[k] /\ smsg'[k] = smsg[k],
           smsg'[c] \in Copies,
           job'[c].todo # {} => spc'[c] = "wait",
           spc'[c] = "wait" => job'[c].copy = smsg'[c]
    PROVE  CallsOwnJobs'
<1>1. /\ Callers \subseteq Owners /\ Msgs \subseteq Owners /\ c \notin Msgs
      /\ \A o \in Owners : o = c \/ (o # c /\ job'[o] = job[o])
  BY Numbers, Zenon
<1>2. /\ \A k \in Callers : spc'[k] # "idle" => smsg'[k] \in Copies
      /\ \A k \in Callers : job'[k].todo # {} => spc'[k] = "wait"
      /\ \A k \in Callers : spc'[k] = "wait" => job'[k].copy = smsg'[k]
  BY <1>1, Zenon DEF CallsOwnJobs
<1>3. \A o \in Owners : job'[o].todo # {} => job'[o].copy \in Copies
  BY <1>1, Zenon DEF CallsOwnJobs
<1>4. \A m \in Msgs : job'[m].copy.msg \in {0, m}
  BY <1>1, Zenon DEF CallsOwnJobs
<1> QED  BY <1>2, <1>3, <1>4, Zenon DEF CallsOwnJobs

\* sendToUser reads the gate; the message stays in the call.
LEMMA AttemptKeeps ==
    ASSUME MessagesAreKept, NEW c \in Callers, SendAttempt(c)
    PROVE  MessagesAreKept'
<1> USE DEF MessagesAreKept, SendAttempt, replayGateVars, storeVars, replayVars
<1>1. OfShape'
  BY Zenon DEF OfShape, ReplaySendPC
<1>2. ReplayHandlesTaken'
  BY Zenon DEF ReplayHandlesTaken
<1>3. CallsOwnJobs'
  BY Zenon DEF CallsOwnJobs, OfShape
<1>4. JobsAreTrue'
  BY StoreKept, Zenon DEF JobsAreTrue
<1>5. ReplayPoints'
  BY PointsKept, Zenon
<1>6. SettledIsSafe'
  <2> SUFFICES ASSUME NEW m \in Msgs \ drained, Settled(m)'  PROVE  Safe(m)' \/ StoreFailed(m)'
    BY Zenon DEF SettledIsSafe
  <2>1. spc \in [Callers -> ReplaySendPC] /\ Sender \in Callers
    BY Numbers, Zenon DEF OfShape
  <2>2. Settled(m)
    BY <2>1, Zenon DEF Settled
  <2>3. InCall(m) => InCall(m)'
    BY <2>1, Zenon DEF InCall
  <2> QED
    BY <2>2, <2>3, StoreKept, TransitPlaces, Zenon DEF SettledIsSafe, Safe, StoreFailed, InHeld,
       InJob, InFetched, InFlush
<1> QED  BY <1>1, <1>2, <1>3, <1>4, <1>5, <1>6, Zenon

\* hold moves the message from the call to the queue of the gate, or leaves it
\* to the closure.
LEMMA HoldKeeps ==
    ASSUME MessagesAreKept, NEW c \in Callers, HoldDelivery(c)
    PROVE  MessagesAreKept'
<1> USE DEF MessagesAreKept
<1> DEFINE d == [copy |-> smsg[c], src |-> SourceOf(c)]
<1>1. /\ spc \in [Callers -> ReplaySendPC] /\ held \in Seq(Delivery) /\ spc[c] = "hold"
      /\ smsg[c] \in Copies /\ smsg[c].msg \in Msgs /\ d \in Delivery
  BY Numbers, Zenon DEF OfShape, HoldDelivery, CallsOwnJobs, Delivery, SourceOf
<1>2. \/ /\ held' = Append(held, d) /\ spc' = [spc EXCEPT ![c] = "ok"]
      \/ held' = held /\ spc' = [spc EXCEPT ![c] = "closure"]
  BY Zenon DEF HoldDelivery
<1>3. UNCHANGED <<redis, mysql, smsg, job, rpc, source, length, fetched, flush, pushed, got, refused, drained>>
  BY Zenon DEF HoldDelivery, storeVars, replayVars
<1>4. \/ held' \in Seq(Delivery) /\ Range(held') = Range(held) \cup {d} /\ spc' = [spc EXCEPT ![c] = "ok"]
      \/ held' = held /\ spc' = [spc EXCEPT ![c] = "closure"]
  <2> HIDE DEF d
  <2>1. Append(held, d) \in Seq(Delivery) /\ Range(Append(held, d)) = Range(held) \cup {d}
    BY <1>1, AppendElements
  <2> QED  BY <1>2, <2>1, Zenon
<1>5. d.src = "offline" => smsg[c].msg \in drained
  BY <1>1, Numbers, Zenon DEF ReplayHandlesTaken, SourceOf
<1> HIDE DEF d
<1>6. OfShape'
  BY <1>1, <1>3, <1>4, Zenon DEF OfShape, ReplaySendPC
<1>7. ReplayHandlesTaken'
  <2>1. d.copy.msg = smsg[c].msg
    BY DEF d
  <2> QED  BY <1>3, <1>4, <1>5, <2>1, Zenon DEF ReplayHandlesTaken
<1>8. CallsOwnJobs'
  BY <1>1, <1>3, <1>4, Zenon DEF CallsOwnJobs
<1>9. JobsAreTrue'
  BY <1>3, StoreKept, Zenon DEF JobsAreTrue
<1>10. ReplayPoints'
  BY <1>3, PointsKept
<1>11. SettledIsSafe'
  <2> SUFFICES ASSUME NEW m \in Msgs \ drained, Settled(m)'  PROVE  Safe(m)' \/ StoreFailed(m)'
    BY <1>3, Zenon DEF SettledIsSafe
  <2>1. Settled(m)
    BY <1>1, <1>3, <1>4, Numbers, Zenon DEF Settled
  <2>2. InHeld(m) => InHeld(m)'
    BY <1>4 DEF InHeld
  <2>3. InCall(m) => InCall(m)' \/ InHeld(m)'
    <3> SUFFICES ASSUME NEW k \in Callers, spc[k] \notin {"idle", "ok", "fail"}, smsg[k].msg = m
                 PROVE  InCall(m)' \/ InHeld(m)'
      BY Zenon DEF InCall
    <3>1. CASE k = c
      <4>1. d.copy.msg = m
        BY <3>1, Zenon DEF d
      <4> QED  BY <1>1, <1>3, <1>4, <3>1, <4>1, Zenon DEF InCall, InHeld
    <3>2. CASE k # c
      BY <1>1, <1>3, <1>4, <3>2, Zenon DEF InCall
    <3> QED  BY <3>1, <3>2
  <2> QED
    BY <1>3, <2>1, <2>2, <2>3, StoreKept, TransitPlaces, Zenon DEF SettledIsSafe, Safe,
       StoreFailed, InJob, InFetched, InFlush
<1> QED  BY <1>6, <1>7, <1>8, <1>9, <1>10, <1>11

\* The job a store call starts with.
StartedJob(e) == [copy |-> e, todo |-> Backends, ok |-> FALSE]

\* StoreOfflineMessage starts with both writes to do.
LEMMA JobStarted ==
    ASSUME OfShape, NEW o \in Owners, NEW e \in Copies, StartStore(o, e)
    PROVE  /\ job' \in [Owners -> StoreJobs]
           /\ job'[o].copy = e /\ job'[o].todo # {} /\ "redis" \in job'[o].todo /\ job'[o].ok = FALSE
           /\ \A p \in Owners : p # o => job'[p] = job[p]
<1>1. StartedJob(e) \in StoreJobs
  BY DEF StartedJob, StoreJobs
<1>2. job' = [job EXCEPT ![o] = StartedJob(e)] /\ job \in [Owners -> StoreJobs]
  BY Zenon DEF StartStore, StartedJob, OfShape
<1>3. job'[o] = StartedJob(e) /\ job' \in [Owners -> StoreJobs] /\ \A p \in Owners : p # o => job'[p] = job[p]
  BY <1>1, <1>2
<1> QED  BY <1>3 DEF StartedJob, Backends

\* The closure a held delivery runs: accepted, given to the store, or, when it
\* comes from a replay, dropped.
LEMMA HeldRuns ==
    ASSUME MessagesAreKept, NEW e \in Copies, NEW src \in {"online", "offline"}, RunHeld(e, src)
    PROVE  /\ got' \in Seq(Msgs) /\ job' \in [Owners -> StoreJobs]
           /\ Range(got) \subseteq Range(got')
           /\ \A o \in Owners : \/ job'[o] = job[o]
                                \/ /\ o = e.msg /\ job'[o].copy = e /\ job'[o].todo # {}
                                   /\ "redis" \in job'[o].todo /\ job'[o].ok = FALSE
           /\ src = "online" =>
                 e.msg \in Range(got') \/ (job'[e.msg].copy.msg = e.msg /\ job'[e.msg].todo # {})
<1>1. got \in Seq(Msgs) /\ job \in [Owners -> StoreJobs] /\ e.msg \in Msgs /\ e.msg \in Owners /\ OfShape
  BY Numbers, Zenon DEF MessagesAreKept, OfShape
<1>2. CASE Accept(e.msg) /\ UNCHANGED job
  <2>1. got' = Append(got, e.msg)
    BY <1>2 DEF Accept
  <2>2. PICK g \in Seq(Msgs), m \in Msgs : g = got /\ m = e.msg
    BY <1>1
  <2>3. Append(g, m) \in Seq(Msgs) /\ Range(Append(g, m)) = Range(g) \cup {m}
    BY AppendElements
  <2> QED  BY <1>1, <1>2, <2>1, <2>2, <2>3, Zenon
<1>3. CASE got' = got /\ StartStore(e.msg, e)
  BY <1>1, <1>3, JobStarted, Zenon
<1>4. CASE got' = got /\ src = "offline" /\ UNCHANGED job
  BY <1>1, <1>4
<1> QED  BY <1>2, <1>3, <1>4, Zenon DEF RunHeld, Refuse

\* The effect of RunHeld on the store calls.
LEMMA HeldJobsKept ==
    ASSUME MessagesAreKept, NEW e \in Copies, NEW src \in {"online", "offline"}, RunHeld(e, src),
           UNCHANGED <<redis, mysql, smsg, drained>>,
           \A k \in Callers : spc[k] = "wait" <=> spc'[k] = "wait",
           \A k \in Callers : spc'[k] # "idle" => smsg[k] \in Copies
    PROVE  /\ CallsOwnJobs' /\ JobsAreTrue'
           /\ \A m : InJob(m) => InJob(m)'
           /\ \A m \in Msgs : StoreFailed(m) => StoreFailed(m)' \/ InJob(m)'
<1>1. \A o \in Owners : \/ job'[o] = job[o]
                        \/ /\ o = e.msg /\ job'[o].copy = e /\ job'[o].todo # {}
                           /\ "redis" \in job'[o].todo /\ job'[o].ok = FALSE
  BY HeldRuns, ZenonT(60)
<1>2. e.msg \in Msgs /\ \A k \in Callers : job'[k] = job[k]
  BY <1>1, Numbers
<1>3. CallsOwnJobs'
  BY <1>1, <1>2, Numbers DEF MessagesAreKept, CallsOwnJobs
<1>4. JobsAreTrue'
  BY <1>1, StoreKept, Zenon DEF MessagesAreKept, JobsAreTrue
<1>5. ASSUME NEW m, InJob(m)  PROVE  InJob(m)'
  <2>1. PICK o \in Owners : job[o].copy.msg = m /\ job[o].todo # {}
    BY <1>5, Zenon DEF InJob
  <2>2. CASE job'[o] = job[o]
    BY <2>1, <2>2, Zenon DEF InJob
  <2>3. CASE o = e.msg /\ job'[o].copy = e /\ job'[o].todo # {}
    <3>1. m = e.msg
      BY <1>2, <2>1, <2>3, Numbers, Zenon DEF MessagesAreKept, CallsOwnJobs
    <3> QED  BY <2>1, <2>3, <3>1, Zenon DEF InJob
  <2> QED  BY <1>1, <2>2, <2>3, ZenonT(60)
<1>6. ASSUME NEW m \in Msgs, StoreFailed(m)  PROVE  StoreFailed(m)' \/ InJob(m)'
  <2>1. m \in Owners
    BY Numbers, Zenon
  <2>2. CASE job'[m] = job[m]
    BY <1>6, <2>2, Zenon DEF StoreFailed
  <2>3. CASE m = e.msg /\ job'[m].copy = e /\ job'[m].todo # {}
    BY <2>1, <2>3, Zenon DEF InJob
  <2> QED  BY <1>1, <2>1, <2>2, <2>3, ZenonT(60)
<1> QED  BY <1>3, <1>4, <1>5, <1>6

\* The closure delivers the message or starts its store job.
LEMMA ClosureKeeps ==
    ASSUME MessagesAreKept, NEW c \in Callers, RunClosure(c)
    PROVE  MessagesAreKept'
<1> USE DEF MessagesAreKept
<1>1. /\ spc \in [Callers -> ReplaySendPC] /\ spc[c] = "closure" /\ spc' = [spc EXCEPT ![c] = "ok"]
      /\ smsg[c] \in Copies /\ smsg[c].msg \in Msgs /\ SourceOf(c) \in {"online", "offline"}
      /\ SourceOf(c) = "offline" => c \in Replays
  BY Numbers, Zenon DEF OfShape, RunClosure, CallsOwnJobs, SourceOf
<1>2. UNCHANGED <<held, redis, mysql, smsg, rpc, source, length, fetched, flush, pushed, refused, drained>>
  BY Zenon DEF RunClosure, replayGateVars, replayVars
<1>3. RunHeld(smsg[c], SourceOf(c))
  BY DEF RunClosure
<1>4. /\ got' \in Seq(Msgs) /\ job' \in [Owners -> StoreJobs] /\ Range(got) \subseteq Range(got')
      /\ SourceOf(c) = "online" =>
            \/ smsg[c].msg \in Range(got')
            \/ job'[smsg[c].msg].copy.msg = smsg[c].msg /\ job'[smsg[c].msg].todo # {}
  BY <1>1, <1>3, HeldRuns, ZenonT(60)
<1>5. /\ CallsOwnJobs' /\ JobsAreTrue' /\ \A m : InJob(m) => InJob(m)'
      /\ \A m \in Msgs : StoreFailed(m) => StoreFailed(m)' \/ InJob(m)'
  <2>1. /\ \A k \in Callers : spc[k] = "wait" <=> spc'[k] = "wait"
        /\ \A k \in Callers : spc'[k] # "idle" => smsg[k] \in Copies
    BY <1>1, Zenon DEF CallsOwnJobs
  <2> QED  BY <1>1, <1>2, <1>3, <2>1, HeldJobsKept, Zenon
<1>6. OfShape'
  BY <1>1, <1>2, <1>4, ZenonT(60) DEF OfShape, ReplaySendPC
<1>7. ReplayHandlesTaken'
  BY <1>2, Zenon DEF ReplayHandlesTaken
<1>10. ReplayPoints'
  BY <1>2, PointsKept
<1>11. SettledIsSafe'
  <2> SUFFICES ASSUME NEW m \in Msgs \ drained, Settled(m)'  PROVE  Safe(m)' \/ StoreFailed(m)'
    BY <1>2, Zenon DEF SettledIsSafe
  <2>1. Settled(m)
    BY <1>1, <1>2, Numbers, Zenon DEF Settled
  <2>2. StoreFailed(m) => StoreFailed(m)' \/ InJob(m)'
    BY <1>5
  <2>3. InCall(m) => InCall(m)' \/ InJob(m)' \/ m \in Range(got')
    <3> SUFFICES ASSUME NEW k \in Callers, spc[k] \notin {"idle", "ok", "fail"}, smsg[k].msg = m
                 PROVE  InCall(m)' \/ InJob(m)' \/ m \in Range(got')
      BY Zenon DEF InCall
    <3>1. CASE k = c
      <4>1. SourceOf(c) = "online"
        BY <1>1, <3>1, Numbers, Zenon DEF ReplayHandlesTaken
      <4> QED  BY <1>1, <1>4, <3>1, <4>1, Numbers, Zenon DEF InJob
    <3>2. CASE k # c
      BY <1>1, <1>2, <3>2, Zenon DEF InCall
    <3> QED  BY <3>1, <3>2
  <2> QED
    BY <1>2, <1>4, <1>5, <2>1, <2>2, <2>3, StoreKept, TransitPlaces, Zenon DEF SettledIsSafe,
       Safe, InHeld, InFetched, InFlush
<1> QED  BY <1>5, <1>6, <1>7, <1>10, <1>11

\* A send starts: the copy is sent, or the store is asked to keep it.
LEMMA SendStarts ==
    ASSUME MessagesAreKept, NEW c \in Callers, spc[c] = "idle", NEW e \in Copies, SendStart(c, e),
           UNCHANGED <<redis, mysql, drained>>
    PROVE  /\ spc' \in [Callers -> ReplaySendPC] /\ spc'[c] \in {"send", "wait"}
           /\ \A k \in Callers : k # c => spc'[k] = spc[k]
           /\ smsg' = [smsg EXCEPT ![c] = e] /\ job' \in [Owners -> StoreJobs]
           /\ CallsOwnJobs' /\ JobsAreTrue'
           /\ \A m : InJob(m) => InJob(m)'
           /\ \A m \in Msgs : StoreFailed(m) => StoreFailed(m)'
           /\ InCall(e.msg)'
           /\ \A m : InCall(m) => InCall(m)'
<1>1. /\ spc \in [Callers -> ReplaySendPC] /\ smsg \in [Callers -> Copies \cup {NoCopy}]
      /\ job \in [Owners -> StoreJobs] /\ smsg' = [smsg EXCEPT ![c] = e] /\ c \in Owners /\ OfShape
  BY Numbers, Zenon DEF MessagesAreKept, OfShape, SendStart
<1>2. \/ spc' = [spc EXCEPT ![c] = "send"] /\ job' = job
      \/ spc' = [spc EXCEPT ![c] = "wait"] /\ StartStore(c, e)
  BY DEF SendStart
<1>3. \/ spc' = [spc EXCEPT ![c] = "send"] /\ job' = job
      \/ /\ spc' = [spc EXCEPT ![c] = "wait"]
         /\ job' \in [Owners -> StoreJobs]
         /\ job'[c].copy = e /\ job'[c].todo # {} /\ "redis" \in job'[c].todo /\ job'[c].ok = FALSE
         /\ \A p \in Owners : p # c => job'[p] = job[p]
  BY <1>1, <1>2, JobStarted, ZenonT(60)
<1>4. /\ spc' \in [Callers -> ReplaySendPC] /\ spc'[c] \in {"send", "wait"}
      /\ \A k \in Callers : k # c => spc'[k] = spc[k] /\ smsg'[k] = smsg[k]
      /\ smsg'[c] = e /\ job' \in [Owners -> StoreJobs]
  BY <1>1, <1>3, Zenon DEF ReplaySendPC
<1>5. job[c].todo = {}
  BY ZenonT(60) DEF MessagesAreKept, CallsOwnJobs
<1>6. CallsOwnJobs'
  <2>1. CallsOwnJobs /\ \A p \in Owners : p # c => job'[p] = job[p]
    BY <1>3, Zenon DEF MessagesAreKept
  <2>2. (job'[c].todo # {} => spc'[c] = "wait") /\ (spc'[c] = "wait" => job'[c].copy = e)
    BY <1>1, <1>3, <1>5, Zenon
  <2> QED  BY <1>4, <2>1, <2>2, OwnJobsKept, Zenon
<1>7. JobsAreTrue'
  BY <1>3, StoreKept, Zenon DEF MessagesAreKept, JobsAreTrue
<1>8. ASSUME NEW m, InJob(m)  PROVE  InJob(m)'
  BY <1>3, <1>5, <1>8, Zenon DEF InJob
<1>9. ASSUME NEW m \in Msgs, StoreFailed(m)  PROVE  StoreFailed(m)'
  <2>1. job'[m] = job[m]
    BY <1>3, Numbers, Zenon
  <2> QED  BY <1>9, <2>1, Zenon DEF StoreFailed
<1>10. InCall(e.msg)'
  BY <1>4, Zenon DEF InCall
<1>11. ASSUME NEW m, InCall(m)  PROVE  InCall(m)'
  BY <1>4, <1>11 DEF InCall
<1> QED  BY <1>1, <1>4, <1>6, <1>7, <1>8, <1>9, <1>10, <1>11, Zenon

\* A new message starts in the call of its sender.
LEMMA SendNextKeeps ==
    ASSUME MessagesAreKept, SendNext
    PROVE  MessagesAreKept'
<1>1. PICK n, e : n = smsg[Sender].msg + 1 /\ e = [msg |-> n, ns |-> IF n \in GroupMsgs THEN "" ELSE ClientNS]
  BY ZenonT(60)
<1>2. /\ spc[Sender] = "idle" /\ n \in Msgs /\ SendStart(Sender, e) /\ Sender \in Callers
      /\ UNCHANGED <<held, redis, mysql, rpc, source, length, fetched, flush, pushed, got, refused, drained>>
  BY <1>1, Numbers, ZenonT(60) DEF SendNext, replayGateVars, replayVars
<1>3. e \in Copies /\ e.msg = n
  BY <1>1, <1>2, Zenon DEF Copies, Namespaces
<1>10. smsg[Sender].msg \in Nat
  <2>1. smsg[Sender] \in Copies \cup {NoCopy}
    BY <1>2, Zenon DEF MessagesAreKept, OfShape
  <2>2. \A e0 \in Copies : e0.msg \in Nat
    BY Numbers, Zenon
  <2>3. NoCopy.msg \in Nat
    BY DEF NoCopy
  <2> HIDE DEF NoCopy
  <2> QED  BY <2>1, <2>2, <2>3
<1>4. /\ spc' \in [Callers -> ReplaySendPC] /\ spc'[Sender] \in {"send", "wait"}
      /\ smsg' = [smsg EXCEPT ![Sender] = e] /\ job' \in [Owners -> StoreJobs]
      /\ CallsOwnJobs' /\ JobsAreTrue' /\ \A m : InJob(m) => InJob(m)'
      /\ \A m \in Msgs : StoreFailed(m) => StoreFailed(m)'
      /\ InCall(e.msg)' /\ \A m : InCall(m) => InCall(m)'
  BY <1>2, <1>3, SendStarts, Zenon
<1> USE DEF MessagesAreKept
<1>5. /\ smsg' \in [Callers -> Copies \cup {NoCopy}] /\ smsg'[Sender].msg = n
      /\ \A r \in Replays : smsg'[r] = smsg[r]
  BY <1>2, <1>3, <1>4, Numbers, Zenon DEF OfShape
<1>6. OfShape'
  BY <1>2, <1>4, <1>5, Zenon DEF OfShape
<1>7. ReplayHandlesTaken'
  BY <1>2, <1>5, Zenon DEF ReplayHandlesTaken
<1>8. ReplayPoints'
  BY <1>2, PointsKept
<1>9. SettledIsSafe'
  <2> SUFFICES ASSUME NEW m \in Msgs \ drained, Settled(m)'  PROVE  Safe(m)' \/ StoreFailed(m)'
    BY <1>2, Zenon DEF SettledIsSafe
  <2>1. m \in Nat /\ m <= n /\ m \notin refused
    BY <1>2, <1>5, Numbers, Zenon DEF Settled
  <2>2. CASE m = n
    BY <1>3, <1>4, <2>2, TransitPlaces, Zenon DEF Safe
  <2>3. CASE m # n
    <3>1. m <= smsg[Sender].msg
      <4>1. \A k \in Nat : m <= k + 1 /\ m # k + 1 => m <= k
        BY <2>1
      <4> HIDE DEF MessagesAreKept
      <4> QED  BY <1>1, <1>10, <2>1, <2>3, <4>1, Zenon
    <3>2. Settled(m)
      BY <1>2, <2>1, <3>1, Zenon DEF Settled
    <3> QED
      BY <1>2, <1>4, <3>2, StoreKept, TransitPlaces, Zenon DEF SettledIsSafe, Safe, InHeld,
         InFetched, InFlush
  <2> QED  BY <2>2, <2>3
<1> QED  BY <1>4, <1>6, <1>7, <1>8, <1>9, Zenon

\* An answer to the sender: a failed message joins refused.
LEMMA SendReturnKeeps ==
    ASSUME MessagesAreKept, SendReturn
    PROVE  MessagesAreKept'
<1> USE DEF MessagesAreKept
<1>1. /\ spc \in [Callers -> ReplaySendPC] /\ Sender \in Callers /\ spc[Sender] \in {"ok", "fail"}
      /\ spc' = [spc EXCEPT ![Sender] = "idle"]
      /\ refused' = IF spc[Sender] = "fail" THEN refused \cup {smsg[Sender].msg} ELSE refused
  BY Numbers, Zenon DEF OfShape, SendReturn
<1>2. UNCHANGED <<held, redis, mysql, smsg, job, rpc, source, length, fetched, flush, pushed, got, drained>>
  BY ZenonT(60) DEF SendReturn, replayGateVars, storeVars, replayVars
<1>3. OfShape'
  BY <1>1, <1>2, Zenon DEF OfShape, ReplaySendPC
<1>4. ReplayHandlesTaken'
  BY <1>2, ZenonT(60) DEF ReplayHandlesTaken
<1>5. CallsOwnJobs'
  BY <1>1, <1>2, Zenon DEF CallsOwnJobs
<1>6. JobsAreTrue'
  BY <1>2, StoreKept, Zenon DEF JobsAreTrue
<1>7. ReplayPoints'
  BY <1>2, PointsKept
<1>8. SettledIsSafe'
  <2> SUFFICES ASSUME NEW m \in Msgs \ drained, Settled(m)'  PROVE  Safe(m)' \/ StoreFailed(m)'
    BY <1>2, Zenon DEF SettledIsSafe
  <2>1. Settled(m)
    BY <1>1, <1>2, Zenon DEF Settled
  <2>2. InCall(m) => InCall(m)'
    BY <1>1, <1>2, Zenon DEF InCall
  <2> QED
    BY <1>2, <2>1, <2>2, StoreKept, TransitPlaces, Zenon DEF SettledIsSafe, Safe, StoreFailed,
       InHeld, InJob, InFetched, InFlush
<1> QED  BY <1>3, <1>4, <1>5, <1>6, <1>7, <1>8

\* A direct attempt delivers, retries, or starts the store call; a caller that
\* is a replay may give up, with a message that was taken from the store.
LEMMA DirectKeeps ==
    ASSUME MessagesAreKept, NEW c \in Callers, DeliverDirect(c)
    PROVE  MessagesAreKept'
<1> USE DEF MessagesAreKept
<1>1. /\ spc \in [Callers -> ReplaySendPC] /\ spc[c] = "direct" /\ c \in Owners
      /\ smsg[c] \in Copies /\ smsg[c].msg \in Msgs /\ got \in Seq(Msgs) /\ job \in [Owners -> StoreJobs]
      /\ job[c].todo = {} /\ OfShape /\ (SourceOf(c) # "online" => c \in Replays)
  BY Numbers, Zenon DEF OfShape, DeliverDirect, CallsOwnJobs, SourceOf
<1>2. UNCHANGED <<held, redis, mysql, smsg, rpc, source, length, fetched, flush, pushed, refused, drained>>
  BY ZenonT(60) DEF DeliverDirect, replayGateVars, replayVars
<1>3. \/ got' = Append(got, smsg[c].msg) /\ spc' = [spc EXCEPT ![c] = "ok"] /\ job' = job
      \/ got' = got /\ spc' = [spc EXCEPT ![c] = "send"] /\ job' = job
      \/ got' = got /\ spc' = [spc EXCEPT ![c] = "wait"] /\ StartStore(c, smsg[c])
      \/ got' = got /\ spc' = [spc EXCEPT ![c] = "fail"] /\ job' = job /\ c \in Replays
  BY <1>1, ZenonT(60) DEF DeliverDirect, Accept, Refuse
<1>4. \/ /\ got' \in Seq(Msgs) /\ Range(got') = Range(got) \cup {smsg[c].msg}
         /\ spc' = [spc EXCEPT ![c] = "ok"] /\ job' = job
      \/ got' = got /\ spc' = [spc EXCEPT ![c] = "send"] /\ job' = job
      \/ /\ got' = got /\ spc' = [spc EXCEPT ![c] = "wait"]
         /\ job' \in [Owners -> StoreJobs]
         /\ job'[c].copy = smsg[c] /\ "redis" \in job'[c].todo /\ job'[c].ok = FALSE
         /\ \A p \in Owners : p # c => job'[p] = job[p]
      \/ got' = got /\ spc' = [spc EXCEPT ![c] = "fail"] /\ job' = job /\ c \in Replays
  <2>1. /\ Append(got, smsg[c].msg) \in Seq(Msgs)
        /\ Range(Append(got, smsg[c].msg)) = Range(got) \cup {smsg[c].msg}
    <3>1. PICK g \in Seq(Msgs), m \in Msgs : g = got /\ m = smsg[c].msg
      BY <1>1
    <3>2. Append(g, m) \in Seq(Msgs) /\ Range(Append(g, m)) = Range(g) \cup {m}
      BY AppendElements
    <3> QED  BY <3>1, <3>2, Zenon
  <2>2. StartStore(c, smsg[c]) =>
            /\ job' \in [Owners -> StoreJobs]
            /\ job'[c].copy = smsg[c] /\ "redis" \in job'[c].todo /\ job'[c].ok = FALSE
            /\ \A p \in Owners : p # c => job'[p] = job[p]
    BY <1>1, JobStarted, ZenonT(60)
  <2> HIDE DEF MessagesAreKept
  <2> QED  BY <1>3, <2>1, <2>2, ZenonT(60)
<1>5. /\ got' \in Seq(Msgs) /\ Range(got) \subseteq Range(got') /\ job' \in [Owners -> StoreJobs]
      /\ spc' \in [Callers -> ReplaySendPC] /\ \A p \in Owners : p # c => job'[p] = job[p]
      /\ \A k \in Callers : k # c => spc'[k] = spc[k]
      /\ spc'[c] \in {"ok", "send", "wait", "fail"}
  BY <1>1, <1>4, Zenon DEF ReplaySendPC
<1>6. OfShape'
  BY <1>2, <1>5, Zenon DEF OfShape
<1>7. ReplayHandlesTaken'
  BY <1>2, Zenon DEF ReplayHandlesTaken
<1>8. CallsOwnJobs'
  <2>1. (job'[c].todo # {} => spc'[c] = "wait") /\ (spc'[c] = "wait" => job'[c].copy = smsg[c])
    BY <1>1, <1>4, Zenon
  <2>2. \A k \in Callers : k # c => spc'[k] = spc[k] /\ smsg'[k] = smsg[k]
    BY <1>2, <1>5, Zenon
  <2> QED  BY <1>1, <1>2, <1>5, <2>1, <2>2, OwnJobsKept, Zenon
<1>9. JobsAreTrue'
  BY <1>2, <1>4, <1>5, StoreKept, Zenon DEF JobsAreTrue
<1>10. ReplayPoints'
  BY <1>2, PointsKept
<1>11. SettledIsSafe'
  <2> SUFFICES ASSUME NEW m \in Msgs \ drained, Settled(m)'  PROVE  Safe(m)' \/ StoreFailed(m)'
    BY <1>2, Zenon DEF SettledIsSafe
  <2>1. Settled(m)
    BY <1>1, <1>2, <1>5, Numbers, ZenonT(60) DEF Settled
  <2>2. InJob(m) => InJob(m)'
    BY <1>1, <1>5, Zenon DEF InJob
  <2>3. StoreFailed(m) => StoreFailed(m)'
    <3>1. job'[m] = job[m]
      BY <1>5, Numbers, Zenon
    <3> QED  BY <3>1, Zenon DEF StoreFailed
  <2>4. InCall(m) => InCall(m)' \/ m \in Range(got')
    <3> SUFFICES ASSUME NEW k \in Callers, spc[k] \notin {"idle", "ok", "fail"}, smsg[k].msg = m
                 PROVE  InCall(m)' \/ m \in Range(got')
      BY Zenon DEF InCall
    <3>1. CASE k = c
      <4>1. c \notin Replays
        BY <1>1, <3>1, Numbers, Zenon DEF ReplayHandlesTaken
      <4>2. m \in Range(got') \/ spc'[c] \in {"send", "wait"}
        BY <1>1, <1>4, <3>1, <4>1, Zenon
      <4> QED  BY <1>2, <3>1, <4>2, ZenonT(60) DEF InCall
    <3>2. CASE k # c
      BY <1>2, <1>5, <3>2, Zenon DEF InCall
    <3> QED  BY <3>1, <3>2
  <2> QED
    BY <1>2, <1>5, <2>1, <2>2, <2>3, <2>4, StoreKept, TransitPlaces, Zenon DEF SettledIsSafe,
       Safe, InHeld, InFetched, InFlush
<1> QED  BY <1>6, <1>7, <1>8, <1>9, <1>10, <1>11

\* A store call that returns: its message is in the store, or the call failed.
LEMMA StoreReturnKeeps ==
    ASSUME MessagesAreKept, NEW c \in Callers, StoreReturn(c)
    PROVE  MessagesAreKept'
<1> USE DEF MessagesAreKept
<1>1. /\ spc \in [Callers -> ReplaySendPC] /\ spc[c] = "wait" /\ c \in Owners
      /\ smsg[c] \in Copies /\ smsg[c].msg \in Msgs /\ job \in [Owners -> StoreJobs]
      /\ job[c].todo = {} /\ job[c].copy = smsg[c]
      /\ spc' = [spc EXCEPT ![c] = IF job[c].ok THEN "ok" ELSE "fail"]
      /\ job' = [job EXCEPT ![c] = NoJob]
  BY Numbers, Zenon DEF OfShape, StoreReturn, CallsOwnJobs
<1>2. UNCHANGED <<held, redis, mysql, smsg, rpc, source, length, fetched, flush, pushed, got, refused, drained>>
  BY ZenonT(60) DEF StoreReturn, replayGateVars, replayVars
<1>3. NoJob \in StoreJobs /\ NoJob.copy.msg = 0 /\ NoJob.todo = {}
  BY ZenonT(60) DEF NoJob, StoreJobs, NoCopy
<1>4. /\ job' \in [Owners -> StoreJobs] /\ job'[c] = NoJob /\ \A p \in Owners : p # c => job'[p] = job[p]
      /\ spc' \in [Callers -> ReplaySendPC] /\ spc'[c] \in {"ok", "fail"}
      /\ \A k \in Callers : k # c => spc'[k] = spc[k]
  BY <1>1, <1>3, Zenon DEF ReplaySendPC
<1>5. spc'[c] = "ok" => job[c].ok = TRUE
  <2>1. job[c].ok \in BOOLEAN
    BY <1>1, Zenon DEF StoreJobs
  <2> QED  BY <1>1, <2>1, Zenon
<1>6. OfShape'
  BY <1>2, <1>4, Zenon DEF OfShape
<1>7. ReplayHandlesTaken'
  BY <1>2, Zenon DEF ReplayHandlesTaken
<1>8. CallsOwnJobs'
  <2>1. job'[c].todo = {} /\ spc'[c] # "wait" /\ smsg'[c] \in Copies
    BY <1>1, <1>2, <1>3, <1>4, Zenon
  <2>2. \A k \in Callers : k # c => spc'[k] = spc[k] /\ smsg'[k] = smsg[k]
    BY <1>2, <1>4, Zenon
  <2> QED  BY <1>4, <2>1, <2>2, OwnJobsKept, Zenon
<1>9. JobsAreTrue'
  BY <1>2, <1>3, <1>4, StoreKept, Numbers, Zenon DEF JobsAreTrue
<1>10. ReplayPoints'
  BY <1>2, PointsKept
<1>11. SettledIsSafe'
  <2> SUFFICES ASSUME NEW m \in Msgs \ drained, Settled(m)'  PROVE  Safe(m)' \/ StoreFailed(m)'
    BY <1>2, Zenon DEF SettledIsSafe
  <2>1. Settled(m)
    BY <1>1, <1>2, <1>4, Numbers, Zenon DEF Settled
  <2>2. InJob(m) => InJob(m)'
    BY <1>1, <1>4, Zenon DEF InJob
  <2>3. StoreFailed(m) => StoreFailed(m)'
    <3>1. job'[m] = job[m]
      BY <1>4, Numbers, Zenon
    <3> QED  BY <3>1 DEF StoreFailed
  <2>4. InCall(m) => InCall(m)' \/ InStore(m)
    <3> SUFFICES ASSUME NEW k \in Callers, spc[k] \notin {"idle", "ok", "fail"}, smsg[k].msg = m
                 PROVE  InCall(m)' \/ InStore(m)
      BY Zenon DEF InCall
    <3>1. CASE k = c
      <4>1. c = Sender
        BY <1>1, <3>1, Numbers, ZenonT(60) DEF ReplayHandlesTaken
      <4>2. spc'[c] = "ok"
        BY <1>2, <1>4, <3>1, <4>1, ZenonT(60) DEF Settled
      <4> QED  BY <1>1, <1>5, <3>1, <4>2, ZenonT(60) DEF JobsAreTrue
    <3>2. CASE k # c
      BY <1>2, <1>4, <3>2, Zenon DEF InCall
    <3> QED  BY <3>1, <3>2
  <2> QED
    BY <1>2, <2>1, <2>2, <2>3, <2>4, StoreKept, TransitPlaces, Zenon DEF SettledIsSafe, Safe,
       InHeld, InFetched, InFlush
<1> QED  BY <1>6, <1>7, <1>8, <1>9, <1>10, <1>11
=============================================================================
