----------------------- MODULE LiveMessages_proofs -----------------------
(* A live message that was reported delivered is not lost before a replay  *)
(* takes it from the store, for any number of messages and logins: the     *)
(* writes to the store and the steps of a replay keep LiveInv.             *)
EXTENDS OfflineReplay_proofs

\* What a write of StoreOfflineMessage does to the lists and the table.
LEMMA StoreWritten ==
    ASSUME OfShape, NEW o \in Owners, NEW b \in Backends, StoreWrite(o, b),
           NEW e \in Copies, job[o].copy = e
    PROVE  /\ redis' \in [Lists -> Seq(Copies)] /\ mysql' \in Seq(Copies)
           /\ \A l \in Lists : Len(redis[l]) <= Len(redis'[l])
           /\ \A m : InStore(m) => InStore(m)'
           /\ job' \in [Owners -> StoreJobs]
           /\ job'[o].copy = e /\ job'[o].todo = job[o].todo \ {b}
           /\ \A p \in Owners : p # o => job'[p] = job[p]
           /\ \/ InStore(e.msg)' /\ job'[o].ok = TRUE
              \/ job'[o].ok = job[o].ok /\ (MayFail(o) \/ b = "mysql")
<1> DEFINE Written(good) == job' = [job EXCEPT ![o].todo = @ \ {b}, ![o].ok = @ \/ good]
<1>1. ASSUME NEW good \in BOOLEAN, Written(good)
      PROVE  /\ job' \in [Owners -> StoreJobs]
             /\ job'[o].copy = e /\ job'[o].todo = job[o].todo \ {b} /\ job'[o].ok = (job[o].ok \/ good)
             /\ \A p \in Owners : p # o => job'[p] = job[p]
  <2>1. job \in [Owners -> StoreJobs]
    BY Zenon DEF OfShape
  <2>2. job[o] = [copy |-> e, todo |-> job[o].todo, ok |-> job[o].ok] /\ job[o].todo \in SUBSET Backends /\ job[o].ok \in BOOLEAN
    BY <2>1, Zenon DEF StoreJobs
  <2> DEFINE half == [job[o] EXCEPT !.todo = job[o].todo \ {b}]
             full == [half EXCEPT !.ok = half.ok \/ good]
             mid == [job EXCEPT ![o] = half]
  <2>5. half = [copy |-> e, todo |-> job[o].todo \ {b}, ok |-> job[o].ok]
    BY <2>2
  <2>6. full = [copy |-> e, todo |-> job[o].todo \ {b}, ok |-> job[o].ok \/ good]
    <3>1. half.ok = job[o].ok
      BY <2>5
    <3>2. PICK v : v = (job[o].ok \/ good)
      OBVIOUS
    <3> HIDE DEF half
    <3>3. full = [half EXCEPT !.ok = v]
      BY <3>1, <3>2, Zenon
    <3>4. [half EXCEPT !.ok = v] = [copy |-> e, todo |-> job[o].todo \ {b}, ok |-> v]
      BY <2>5
    <3> QED  BY <3>2, <3>3, <3>4, Zenon
  <2>7. mid[o] = half /\ job' = [mid EXCEPT ![o] = [mid[o] EXCEPT !.ok = mid[o].ok \/ good]]
    BY <1>1, <2>1, Zenon
  <2>8. job' = [mid EXCEPT ![o] = full]
    <3> HIDE DEF mid, half
    <3> QED  BY <2>7
  <2>3. job' = [job EXCEPT ![o] = [copy |-> e, todo |-> job[o].todo \ {b}, ok |-> job[o].ok \/ good]]
    <3> HIDE DEF full, half
    <3> QED  BY <2>1, <2>6, <2>8, Zenon
  <2>4. [copy |-> e, todo |-> job[o].todo \ {b}, ok |-> job[o].ok \/ good] \in StoreJobs
    BY <2>2, Zenon DEF StoreJobs
  <2> QED  BY <2>1, <2>3, <2>4, Zenon
<1>6. job[o].ok \in BOOLEAN
  BY Zenon DEF OfShape, StoreJobs
<1>7. Written(TRUE) => /\ job' \in [Owners -> StoreJobs]
                       /\ job'[o].copy = e /\ job'[o].todo = job[o].todo \ {b} /\ job'[o].ok = TRUE
                       /\ \A p \in Owners : p # o => job'[p] = job[p]
  BY <1>1, <1>6, Zenon
<1>8. Written(FALSE) => /\ job' \in [Owners -> StoreJobs]
                        /\ job'[o].copy = e /\ job'[o].todo = job[o].todo \ {b} /\ job'[o].ok = job[o].ok
                        /\ \A p \in Owners : p # o => job'[p] = job[p]
  BY <1>1, <1>6, Zenon
<1>9. \/ storeToRedis(e) /\ Written(TRUE)
      \/ storeToDatabase(e) /\ Written(TRUE)
      \/ (MayFail(o) \/ b = "mysql") /\ Written(FALSE) /\ UNCHANGED <<redis, mysql>>
  BY Zenon DEF StoreWrite
<1> HIDE DEF Written
<1>2. redis \in [Lists -> Seq(Copies)] /\ mysql \in Seq(Copies) /\ e \in Copies /\ ListOf(e) \in Lists
  BY Zenon DEF OfShape, ListOf, Lists, KindOf, Copies
<1>3. CASE storeToRedis(e) /\ Written(TRUE)
  <2>1. redis' = [redis EXCEPT ![ListOf(e)] = Append(@, e)] /\ mysql' = mysql
    BY <1>3 DEF storeToRedis, Enqueue
  <2>2. /\ redis[ListOf(e)] \in Seq(Copies)
        /\ Append(redis[ListOf(e)], e) \in Seq(Copies)
        /\ Range(Append(redis[ListOf(e)], e)) = Range(redis[ListOf(e)]) \cup {e}
    BY <1>2, AppendElements
  <2>3. Len(Append(redis[ListOf(e)], e)) = Len(redis[ListOf(e)]) + 1 /\ Len(redis[ListOf(e)]) \in Nat
    BY <1>2, <2>2
  <2>4. redis' \in [Lists -> Seq(Copies)]
    BY <1>2, <2>1, <2>2
  <2>5. ASSUME NEW l \in Lists  PROVE  Range(redis[l]) \subseteq Range(redis'[l]) /\ Len(redis[l]) <= Len(redis'[l])
    <3>1. CASE l = ListOf(e)
      BY <1>2, <2>1, <2>2, <2>3, <3>1
    <3>2. CASE l # ListOf(e)
      <4>1. redis'[l] = redis[l] /\ Len(redis[l]) \in Nat
        BY <1>2, <2>1, <3>2
      <4> QED  BY <4>1
    <3> QED  BY <3>1, <3>2
  <2>6. e \in Range(redis'[ListOf(e)])
    BY <1>2, <2>1, <2>2
  <2>7. InStore(e.msg)'
    BY <1>2, <2>6 DEF InStore
  <2>8. ASSUME NEW m, InStore(m)  PROVE  InStore(m)'
    BY <2>1, <2>5, <2>8, Zenon DEF InStore
  <2> QED  BY <1>2, <1>3, <1>7, <2>1, <2>4, <2>5, <2>7, <2>8, Zenon
<1>4. CASE storeToDatabase(e) /\ Written(TRUE)
  <2>1. mysql' = Append(mysql, e) /\ redis' = redis
    BY <1>4 DEF storeToDatabase
  <2>2. mysql' \in Seq(Copies) /\ Range(mysql') = Range(mysql) \cup {e}
    BY <1>2, <2>1, AppendElements
  <2>3. \A l \in Lists : Len(redis[l]) \in Nat
    BY <1>2
  <2>4. \A l \in Lists : Len(redis[l]) <= Len(redis'[l])
    BY <2>1, <2>3
  <2>5. InStore(e.msg)' /\ \A m : InStore(m) => InStore(m)'
    BY <2>1, <2>2, Zenon DEF InStore
  <2> QED  BY <1>2, <1>4, <1>7, <2>1, <2>2, <2>4, <2>5, Zenon
<1>5. CASE (MayFail(o) \/ b = "mysql") /\ Written(FALSE) /\ UNCHANGED <<redis, mysql>>
  <2>1. \A l \in Lists : Len(redis[l]) \in Nat
    BY <1>2
  <2>2. \A l \in Lists : Len(redis[l]) <= Len(redis'[l])
    BY <1>5, <2>1
  <2> QED  BY <1>2, <1>5, <1>8, <2>2, StoreKept, Zenon
<1> QED  BY <1>3, <1>4, <1>5, <1>9, Zenon

\* One write of a store call: the last one leaves the message in the store or
\* the job failed.
LEMMA StoreWriteKeeps ==
    ASSUME MessagesAreKept, NEW o \in Owners, NEW b \in Backends, StoreWrite(o, b)
    PROVE  MessagesAreKept'
<1>1. PICK e \in Copies : e = job[o].copy
  BY Zenon DEF MessagesAreKept, CallsOwnJobs, StoreWrite
<1>2. /\ redis' \in [Lists -> Seq(Copies)] /\ mysql' \in Seq(Copies)
      /\ \A l \in Lists : Len(redis[l]) <= Len(redis'[l])
      /\ \A m : InStore(m) => InStore(m)'
      /\ job' \in [Owners -> StoreJobs]
      /\ job'[o].copy = e /\ job'[o].todo = job[o].todo \ {b}
      /\ \A p \in Owners : p # o => job'[p] = job[p]
      /\ \/ InStore(e.msg)' /\ job'[o].ok = TRUE
         \/ job'[o].ok = job[o].ok /\ (MayFail(o) \/ b = "mysql")
  BY <1>1, StoreWritten, Zenon DEF MessagesAreKept
<1>3. /\ UNCHANGED <<held, spc, smsg, rpc, source, length, fetched, flush, pushed, got, refused, drained>>
      /\ b \in job[o].todo /\ e.msg \in Msgs
  BY <1>1, Numbers, Zenon DEF StoreWrite, replayGateVars, replaySendVars, replayVars
<1> USE DEF MessagesAreKept
<1>4. OfShape'
  BY <1>2, <1>3, Zenon DEF OfShape
<1>5. ReplayHandlesTaken'
  BY <1>3, Zenon DEF ReplayHandlesTaken
<1>6. CallsOwnJobs'
  BY <1>1, <1>2, <1>3, Numbers, ZenonT(60) DEF CallsOwnJobs
<1>7. JobsAreTrue'
  <2>1. ASSUME NEW p \in Owners, job'[p].ok = TRUE, job'[p].copy.msg \in Msgs \ drained'
        PROVE  InStore(job[p].copy.msg)'
    <3>1. CASE p = o
      BY <1>1, <1>2, <1>3, <2>1, <3>1, Zenon DEF JobsAreTrue
    <3>2. CASE p # o
      BY <1>2, <1>3, <2>1, <3>2, Zenon DEF JobsAreTrue
    <3> QED  BY <3>1, <3>2
  <2>2. ASSUME MayFailIO = FALSE, NEW p \in Owners \ Replays, job'[p].copy.msg # 0, "redis" \notin job'[p].todo
        PROVE  job'[p].ok = TRUE
    <3>1. CASE p = o
      <4>1. ~MayFail(o)
        BY <2>2, <3>1 DEF MayFail, InTime
      <4>2. CASE "redis" \notin job[o].todo
        <5>1. job[o].ok = TRUE
          BY <1>1, <1>3, <2>2, <3>1, <4>2, Numbers, Zenon DEF JobsAreTrue
        <5> QED  BY <1>2, <3>1, <5>1, Zenon
      <4>3. CASE b # "mysql"
        BY <1>2, <3>1, <4>1, <4>3, Zenon
      <4>4. b = "mysql" => "redis" \notin job[o].todo
        BY <1>2, <2>2, <3>1, Zenon
      <4> QED  BY <4>2, <4>3, <4>4, Zenon
    <3>2. CASE p # o
      BY <1>2, <2>2, <3>2, Zenon DEF JobsAreTrue
    <3> QED  BY <3>1, <3>2, Zenon
  <2> QED  BY <1>3, <2>1, <2>2, Zenon DEF JobsAreTrue
<1>8. ReplayPoints'
  <2>1. \A q \in Replays : SourceList(q)' = SourceList(q)
    BY <1>3 DEF SourceList, ContextNS
  <2>2. ASSUME NEW q \in Replays, rpc[q] = "drain"
        PROVE  source[q] # "table" /\ length[q] <= Len(redis'[SourceList(q)])
    <3>1. source[q] # "table" /\ length[q] <= Len(redis[SourceList(q)]) /\ length[q] \in Nat
      BY <2>2, Zenon DEF ReplayPoints, OfShape
    <3>2. SourceList(q) \in Lists
      <4>1. source[q] \in {"p2p", "group"}
        BY <3>1, Zenon DEF OfShape
      <4> QED  BY <4>1, Zenon DEF SourceList, ContextNS, Lists, Namespaces
    <3>3. Len(redis[SourceList(q)]) \in Nat /\ Len(redis'[SourceList(q)]) \in Nat
      BY <1>2, <3>2 DEF OfShape
    <3> QED  BY <1>2, <3>1, <3>2, <3>3
  <2> QED  BY <1>3, <2>1, <2>2, Zenon DEF ReplayPoints
<1>9. SettledIsSafe'
  <2> SUFFICES ASSUME NEW m \in Msgs \ drained, Settled(m)'  PROVE  Safe(m)' \/ StoreFailed(m)'
    BY <1>3, Zenon DEF SettledIsSafe
  <2>1. Settled(m)
    BY <1>3, Zenon DEF Settled
  <2>2. StoreFailed(m) => StoreFailed(m)'
    BY <1>2, <1>3, Numbers, ZenonT(60) DEF StoreFailed
  <2>3. InJob(m) => InJob(m)' \/ InCall(m) \/ InStore(m)' \/ StoreFailed(m)'
    <3> SUFFICES ASSUME NEW p \in Owners, job[p].copy.msg = m, job[p].todo # {}
                 PROVE  InJob(m)' \/ InCall(m) \/ InStore(m)' \/ StoreFailed(m)'
      BY Zenon DEF InJob
    <3>1. CASE p # o
      BY <1>2, <3>1, Zenon DEF InJob
    <3>2. CASE p = o /\ o \in Callers
      BY <1>1, <3>2, Zenon DEF CallsOwnJobs, InCall
    <3>3. CASE p = o /\ o \in Msgs
      <4>1. o = m /\ e.msg = m
        BY <1>1, <3>3, Numbers, Zenon DEF CallsOwnJobs
      <4>2. CASE job'[o].todo # {}
        BY <1>2, <4>1, <4>2, Zenon DEF InJob
      <4>3. CASE job'[o].todo = {} /\ job'[o].ok = TRUE
        BY <1>2, <1>3, <1>7, <4>1, <4>3, Zenon DEF JobsAreTrue
      <4>4. CASE job'[o].todo = {} /\ job'[o].ok = FALSE
        BY <1>2, <4>1, <4>4, Zenon DEF StoreFailed
      <4>5. job'[o].ok \in BOOLEAN
        BY <1>2, Zenon DEF StoreJobs
      <4> QED  BY <4>2, <4>3, <4>4, <4>5, ZenonT(60)
    <3> QED  BY <3>1, <3>2, <3>3, Numbers, Zenon
  <2>4. InCall(m) => InCall(m)'
    BY <1>3, Zenon DEF InCall
  <2> QED
    BY <1>2, <1>3, <2>1, <2>2, <2>3, <2>4, TransitPlaces, Zenon DEF SettledIsSafe, Safe, InHeld,
       InFetched, InFlush
<1> QED  BY <1>4, <1>5, <1>6, <1>7, <1>8, <1>9

\* A replay pushes what it fetched, all of it taken from the store.
LEMMA PushKeeps ==
    ASSUME MessagesAreKept, NEW r \in Replays, Push(r)
    PROVE  MessagesAreKept'
<1>1. PICK h, e : /\ h = Head(fetched[r])
                  /\ e = [msg |-> h.msg, ns |-> IF h.ns # "" THEN h.ns ELSE NormalizeNamespace(ContextNS(source[r]))]
  BY ZenonT(60)
<1>2. /\ spc[r] = "idle" /\ fetched[r] # <<>> /\ SendStart(r, e) /\ r \in Callers
      /\ fetched' = [fetched EXCEPT ![r] = Tail(@)]
      /\ UNCHANGED <<held, redis, mysql, rpc, source, length, flush, pushed, got, refused, drained>>
  BY <1>1, Numbers, Zenon DEF Push, replayGateVars
<1>3. fetched \in [Replays -> Seq(Copies)] /\ fetched[r] \in Seq(Copies)
  BY Zenon DEF MessagesAreKept, OfShape
<1>4. h \in Copies /\ Tail(fetched[r]) \in Seq(Copies) /\ Range(fetched[r]) = {h} \cup Range(Tail(fetched[r]))
  BY <1>1, <1>2, <1>3, TailElements, ZenonT(60)
<1>5. e \in Copies /\ e.msg = h.msg /\ h.msg \in drained
  <2>1. h.msg \in drained
    BY <1>4 DEF MessagesAreKept, ReplayHandlesTaken
  <2> QED  BY <1>1, <1>4, <2>1, Zenon DEF Copies, Namespaces, NormalizeNamespace, ContextNS
<1>6. /\ spc' \in [Callers -> ReplaySendPC] /\ spc'[r] \in {"send", "wait"}
      /\ \A k \in Callers : k # r => spc'[k] = spc[k]
      /\ smsg' = [smsg EXCEPT ![r] = e] /\ job' \in [Owners -> StoreJobs]
      /\ CallsOwnJobs' /\ JobsAreTrue' /\ \A m : InJob(m) => InJob(m)'
      /\ \A m \in Msgs : StoreFailed(m) => StoreFailed(m)'
      /\ \A m : InCall(m) => InCall(m)'
  BY <1>2, <1>5, SendStarts, Zenon
<1>7. /\ smsg' \in [Callers -> Copies \cup {NoCopy}] /\ smsg'[r].msg \in drained
      /\ \A k \in Callers : k # r => smsg'[k] = smsg[k]
  BY <1>2, <1>5, <1>6, Zenon DEF MessagesAreKept, OfShape
<1>8. /\ fetched' \in [Replays -> Seq(Copies)]
      /\ \A q \in Replays : Range(fetched'[q]) \subseteq Range(fetched[q])
  BY <1>2, <1>3, <1>4, Zenon
<1> USE DEF MessagesAreKept
<1>9. OfShape'
  BY <1>2, <1>6, <1>7, <1>8, Zenon DEF OfShape
<1>10. ReplayHandlesTaken'
  BY <1>2, <1>7, <1>8, Numbers, Zenon DEF ReplayHandlesTaken
<1>11. ReplayPoints'
  BY <1>2, PointsKept, Zenon
<1>12. SettledIsSafe'
  <2> SUFFICES ASSUME NEW m \in Msgs \ drained, Settled(m)'  PROVE  Safe(m)' \/ StoreFailed(m)'
    BY <1>2, Zenon DEF SettledIsSafe
  <2>1. Settled(m)
    BY <1>2, <1>6, <1>7, Numbers, Zenon DEF Settled
  <2>2. ~InFetched(m)
    BY DEF InFetched, ReplayHandlesTaken
  <2> QED
    BY <1>2, <1>6, <2>1, <2>2, StoreKept, TransitPlaces, Zenon DEF SettledIsSafe, Safe, InHeld,
       InFlush
<1> QED  BY <1>6, <1>9, <1>10, <1>11, <1>12

\* A push that returns says something about a message taken from the store.
LEMMA PushReturnKeeps ==
    ASSUME MessagesAreKept, NEW r \in Replays, PushReturn(r)
    PROVE  MessagesAreKept'
<1> USE DEF MessagesAreKept
<1>1. /\ spc \in [Callers -> ReplaySendPC] /\ r \in Callers /\ r # Sender /\ spc[r] \in {"ok", "fail"}
      /\ spc' = [spc EXCEPT ![r] = "idle"] /\ smsg[r].msg \in Msgs /\ smsg[r].msg \in drained
      /\ pushed' = pushed \/ pushed' = [pushed EXCEPT ![r] = @ \cup {smsg[r].msg}]
  <2>1. smsg[r] \in Copies
    BY Numbers, Zenon DEF PushReturn, CallsOwnJobs
  <2> QED  BY <2>1, Numbers, Zenon DEF OfShape, PushReturn, ReplayHandlesTaken
<1>2. UNCHANGED <<held, redis, mysql, smsg, job, rpc, source, length, fetched, flush, got, refused, drained>>
  BY Zenon DEF PushReturn, replayGateVars, storeVars
<1>9. pushed' \in [Replays -> SUBSET Msgs] /\ \A q \in Replays : pushed'[q] \subseteq drained
  <2>1. PICK x : x = smsg[r].msg
    OBVIOUS
  <2>2. /\ x \in Msgs /\ x \in drained /\ pushed \in [Replays -> SUBSET Msgs]
        /\ \A q \in Replays : pushed[q] \subseteq drained
    BY <1>1, <2>1, Zenon DEF OfShape, ReplayHandlesTaken
  <2>3. CASE pushed' = [pushed EXCEPT ![r] = @ \cup {x}]
    <3> HIDE DEF MessagesAreKept
    <3> QED  BY <2>2, <2>3
  <2> QED  BY <1>1, <2>1, <2>2, <2>3, Zenon
<1>3. OfShape'
  <2>1. spc' \in [Callers -> ReplaySendPC]
    BY <1>1 DEF ReplaySendPC
  <2> QED  BY <1>2, <1>9, <2>1, Zenon DEF OfShape
<1>4. ReplayHandlesTaken'
  BY <1>2, <1>9, Zenon DEF ReplayHandlesTaken
<1>5. CallsOwnJobs'
  BY <1>1, <1>2, Zenon DEF CallsOwnJobs
<1>6. JobsAreTrue'
  BY <1>2, StoreKept, Zenon DEF JobsAreTrue
<1>7. ReplayPoints'
  BY <1>2, PointsKept
<1>8. SettledIsSafe'
  <2> SUFFICES ASSUME NEW m \in Msgs \ drained, Settled(m)'  PROVE  Safe(m)' \/ StoreFailed(m)'
    BY <1>2, Zenon DEF SettledIsSafe
  <2>1. Settled(m)
    BY <1>1, <1>2, Numbers, Zenon DEF Settled
  <2>2. InCall(m) => InCall(m)'
    BY <1>1, <1>2, Zenon DEF InCall
  <2> QED
    BY <1>2, <2>1, <2>2, StoreKept, TransitPlaces, Zenon DEF SettledIsSafe, Safe, StoreFailed,
       InHeld, InJob, InFetched, InFlush
<1> QED  BY <1>3, <1>4, <1>5, <1>6, <1>7, <1>8

\* end moves the queue of the gate to the replay that runs it.
LEMMA GateEndKeeps ==
    ASSUME MessagesAreKept, NEW r \in Replays, GateEnd(r)
    PROVE  MessagesAreKept'
<1> USE DEF MessagesAreKept
<1>1. /\ rpc \in [Replays -> ReplayPC] /\ flush \in [Replays -> Seq(Delivery)] /\ held \in Seq(Delivery)
      /\ rpc[r] = "end" /\ flush[r] = <<>>
      /\ flush' = [flush EXCEPT ![r] = held] /\ held' = <<>> /\ rpc' = [rpc EXCEPT ![r] = "flush"]
  BY Zenon DEF OfShape, GateEnd, ReplayPoints
<1>2. UNCHANGED <<redis, mysql, spc, smsg, job, source, length, fetched, pushed, got, refused, drained>>
  BY DEF GateEnd, storeVars, replaySendVars
<1>3. Range(<<>>) = {} /\ <<>> \in Seq(Delivery)
  BY DEF Range
<1>4. /\ flush' \in [Replays -> Seq(Delivery)] /\ flush'[r] = held /\ held' \in Seq(Delivery)
      /\ \A q \in Replays : q # r => flush'[q] = flush[q] /\ rpc'[q] = rpc[q]
      /\ rpc' \in [Replays -> ReplayPC] /\ rpc'[r] = "flush"
  BY <1>1, <1>3 DEF ReplayPC
<1>5. OfShape'
  BY <1>2, <1>4, Zenon DEF OfShape
<1>6. ReplayHandlesTaken'
  BY <1>1, <1>2, <1>3, <1>4, Zenon DEF ReplayHandlesTaken
<1>7. CallsOwnJobs'
  BY <1>2, ZenonT(60) DEF CallsOwnJobs
<1>8. JobsAreTrue'
  BY <1>2, StoreKept, Zenon DEF JobsAreTrue
<1>9. ReplayPoints'
  <2>1. \A q \in Replays : SourceList(q)' = SourceList(q)
    BY <1>2 DEF SourceList, ContextNS
  <2> QED  BY <1>1, <1>2, <1>4, <2>1, Zenon DEF ReplayPoints
<1>10. SettledIsSafe'
  <2> SUFFICES ASSUME NEW m \in Msgs \ drained, Settled(m)'  PROVE  Safe(m)' \/ StoreFailed(m)'
    BY <1>2, Zenon DEF SettledIsSafe
  <2>1. Settled(m)
    BY <1>2, ZenonT(60) DEF Settled
  <2>2. InHeld(m) => InFlush(m)'
    BY <1>4, ZenonT(60) DEF InHeld, InFlush
  <2>3. InFlush(m) => InFlush(m)'
    <3> SUFFICES ASSUME NEW q \in Replays, NEW d \in Range(flush[q]), d.copy.msg = m  PROVE  InFlush(m)'
      BY DEF InFlush
    <3>1. q # r
      BY <1>1, <1>3
    <3> QED  BY <1>4, <3>1, ZenonT(60) DEF InFlush
  <2> QED
    BY <1>2, <2>1, <2>2, <2>3, StoreKept, TransitPlaces, Zenon DEF SettledIsSafe, Safe,
       StoreFailed, InJob, InFetched, InCall
<1> QED  BY <1>5, <1>6, <1>7, <1>8, <1>9, <1>10

\* end runs one closure: the message is accepted or its store job starts.
LEMMA FlushKeeps ==
    ASSUME MessagesAreKept, NEW r \in Replays, FlushHeld(r)
    PROVE  MessagesAreKept'
<1>1. PICK h : h = Head(flush[r])
  OBVIOUS
<1>2. /\ rpc[r] = "flush" /\ flush[r] # <<>> /\ RunHeld(h.copy, h.src) /\ flush' = [flush EXCEPT ![r] = Tail(@)]
      /\ UNCHANGED <<held, redis, mysql, spc, smsg, rpc, source, length, fetched, pushed, refused, drained>>
  BY <1>1, Zenon DEF FlushHeld, replayGateVars, replaySendVars
<1>3. flush \in [Replays -> Seq(Delivery)] /\ flush[r] \in Seq(Delivery)
  BY DEF MessagesAreKept, OfShape
<1>4. h \in Delivery /\ Tail(flush[r]) \in Seq(Delivery) /\ Range(flush[r]) = {h} \cup Range(Tail(flush[r]))
  BY <1>1, <1>2, <1>3, TailElements, Zenon
<1>5. /\ h.copy \in Copies /\ h.src \in {"online", "offline"} /\ h.copy.msg \in Msgs
      /\ h.src = "offline" => h.copy.msg \in drained
  BY <1>4, Numbers, Zenon DEF Delivery, MessagesAreKept, ReplayHandlesTaken
<1>6. /\ got' \in Seq(Msgs) /\ job' \in [Owners -> StoreJobs] /\ Range(got) \subseteq Range(got')
      /\ h.src = "online" =>
            \/ h.copy.msg \in Range(got')
            \/ job'[h.copy.msg].copy.msg = h.copy.msg /\ job'[h.copy.msg].todo # {}
  BY <1>2, <1>5, HeldRuns, ZenonT(60)
<1>7. /\ CallsOwnJobs' /\ JobsAreTrue' /\ \A m : InJob(m) => InJob(m)'
      /\ \A m \in Msgs : StoreFailed(m) => StoreFailed(m)' \/ InJob(m)'
  <2>1. /\ \A k \in Callers : spc[k] = "wait" <=> spc'[k] = "wait"
        /\ \A k \in Callers : spc'[k] # "idle" => smsg[k] \in Copies
    BY <1>2, ZenonT(60) DEF MessagesAreKept, CallsOwnJobs
  <2> QED  BY <1>2, <1>5, <2>1, HeldJobsKept, Zenon
<1>8. /\ flush' \in [Replays -> Seq(Delivery)]
      /\ \A q \in Replays : Range(flush'[q]) \subseteq Range(flush[q])
      /\ \A q \in Replays : q # r => flush'[q] = flush[q]
      /\ Range(flush[r]) = {h} \cup Range(flush'[r])
  BY <1>2, <1>3, <1>4, Zenon
<1> USE DEF MessagesAreKept
<1>9. OfShape'
  BY <1>2, <1>6, <1>8, ZenonT(60) DEF OfShape
<1>10. ReplayHandlesTaken'
  BY <1>2, <1>8, Zenon DEF ReplayHandlesTaken
<1>11. ReplayPoints'
  <2>1. \A q \in Replays : SourceList(q)' = SourceList(q)
    BY <1>2, ZenonT(60) DEF SourceList, ContextNS
  <2> QED  BY <1>2, <1>8, <2>1, ZenonT(60) DEF ReplayPoints
<1>12. SettledIsSafe'
  <2> SUFFICES ASSUME NEW m \in Msgs \ drained, Settled(m)'  PROVE  Safe(m)' \/ StoreFailed(m)'
    BY <1>2, Zenon DEF SettledIsSafe
  <2>1. Settled(m)
    BY <1>2, Zenon DEF Settled
  <2>2. InFlush(m) => InFlush(m)' \/ InJob(m)' \/ m \in Range(got')
    <3> SUFFICES ASSUME NEW q \in Replays, NEW d \in Range(flush[q]), d.copy.msg = m
                 PROVE  InFlush(m)' \/ InJob(m)' \/ m \in Range(got')
      BY DEF InFlush
    <3>1. CASE d \in Range(flush'[q])
      BY <3>1 DEF InFlush
    <3>2. CASE d = h
      BY <1>5, <1>6, <3>2, Numbers, Zenon DEF InJob
    <3> QED  BY <1>8, <3>1, <3>2, Zenon
  <2> QED
    BY <1>2, <1>6, <1>7, <2>1, <2>2, StoreKept, TransitPlaces, ZenonT(60)
    DEF SettledIsSafe, Safe, InHeld, InFetched, InCall
<1> QED  BY <1>7, <1>9, <1>10, <1>11, <1>12

\* The list a replay reads.
LEMMA SourceIsList ==
    ASSUME OfShape, NEW r \in Replays, source[r] # "table"
    PROVE  SourceList(r) \in Lists
<1>1. source[r] \in {"p2p", "group"}
  BY DEF OfShape
<1> QED  BY <1>1, Zenon DEF SourceList, ContextNS, Lists, Namespaces

\* The length read is the length of the list, which only this replay shortens.
LEMMA GetLengthKeeps ==
    ASSUME MessagesAreKept, NEW r \in Replays, GetLength(r)
    PROVE  MessagesAreKept'
<1>1. /\ rpc[r] = "fetch" /\ source[r] # "table" /\ UNCHANGED LiveFlow
      /\ \/ /\ length' = [length EXCEPT ![r] = Len(redis[SourceList(r)])]
            /\ rpc' = [rpc EXCEPT ![r] = "drain"] /\ source' = source
         \/ source' = [source EXCEPT ![r] = NextSource(@)] /\ length' = length /\ rpc' = rpc
  BY Zenon DEF GetLength, LiveFlow, replayGateVars, storeVars, replaySendVars
<1> USE DEF MessagesAreKept
<1>2. /\ rpc \in [Replays -> ReplayPC] /\ source \in [Replays -> {"p2p", "group", "table"}]
      /\ length \in [Replays -> Nat] /\ redis \in [Lists -> Seq(Copies)]
  BY Zenon DEF OfShape
<1>3. Len(redis[SourceList(r)]) \in Nat
  <2>1. redis[SourceList(r)] \in Seq(Copies)
    BY <1>1, <1>2, SourceIsList
  <2> QED  BY <2>1
<1>4. OfShape'
  <2>1. /\ rpc' \in [Replays -> ReplayPC] /\ source' \in [Replays -> {"p2p", "group", "table"}]
        /\ length' \in [Replays -> Nat]
    BY <1>1, <1>2, <1>3, Zenon DEF ReplayPC, NextSource
  <2> QED  BY <1>1, <2>1, Zenon DEF OfShape, LiveFlow
<1>5. ReplayPoints'
  <2>1. CASE /\ length' = [length EXCEPT ![r] = Len(redis[SourceList(r)])]
             /\ rpc' = [rpc EXCEPT ![r] = "drain"] /\ source' = source
    <3>1. \A q \in Replays : SourceList(q)' = SourceList(q)
      BY <2>1, Zenon DEF SourceList, ContextNS
    <3>2. \A q \in Replays : q # r => length'[q] = length[q] /\ rpc'[q] = rpc[q]
      BY <1>2, <2>1
    <3>3. rpc'[r] = "drain" /\ length'[r] = Len(redis[SourceList(r)])
      BY <1>2, <2>1
    <3>4. length'[r] <= Len(redis[SourceList(r)])
      BY <1>3, <3>3
    <3> QED  BY <1>1, <2>1, <3>1, <3>2, <3>3, <3>4 DEF ReplayPoints, LiveFlow
  <2>2. CASE source' = [source EXCEPT ![r] = NextSource(@)] /\ length' = length /\ rpc' = rpc
    <3>1. \A q \in Replays : q # r => source'[q] = source[q] /\ SourceList(q)' = SourceList(q)
      BY <1>2, <2>2 DEF SourceList, ContextNS
    <3> QED  BY <1>1, <2>2, <3>1, Zenon DEF ReplayPoints, LiveFlow
  <2> QED  BY <1>1, <2>1, <2>2, Zenon
<1> QED  BY <1>1, <1>4, <1>5, FlowKept

\* When the store loses only messages that were taken, and a replay gets only such.
LEMMA TakingKeeps ==
    ASSUME MessagesAreKept, OfShape', ReplayPoints',
           drained \subseteq drained',
           \A m \in Msgs \ drained' : InStore(m) => InStore(m)',
           \A q \in Replays : \A e \in Range(fetched'[q]) : e.msg \in drained',
           \A q \in Replays : pushed'[q] \subseteq drained',
           UNCHANGED <<held, spc, smsg, job, flush, got, refused>>
    PROVE  MessagesAreKept'
<1> USE DEF MessagesAreKept
<1>1. ReplayHandlesTaken'
  BY Zenon DEF ReplayHandlesTaken
<1>2. CallsOwnJobs'
  BY ZenonT(60) DEF CallsOwnJobs
<1>3. JobsAreTrue'
  BY ZenonT(60) DEF JobsAreTrue
<1>4. SettledIsSafe'
  <2> SUFFICES ASSUME NEW m \in Msgs \ drained', Settled(m)'  PROVE  Safe(m)' \/ StoreFailed(m)'
    BY ZenonT(60) DEF SettledIsSafe
  <2>1. Settled(m) /\ m \notin drained
    BY ZenonT(60) DEF Settled
  <2>2. ~InFetched(m)
    BY <2>1, ZenonT(60) DEF InFetched, ReplayHandlesTaken
  <2> QED
    BY <2>1, <2>2, TransitPlaces
    DEF SettledIsSafe, Safe, StoreFailed, InHeld, InJob, InCall, InFlush
<1> QED  BY <1>1, <1>2, <1>3, <1>4, ZenonT(60)

\* DequeueBatch takes the messages it removes; no other replay has measured the
\* list, so no message leaves it unread.
LEMMA DrainKeeps ==
    ASSUME RightIsMarked, MessagesAreKept, NEW r \in Replays, DrainList(r)
    PROVE  MessagesAreKept'
<1>1. PICK l, n, batch : l = SourceList(r) /\ n = length[r] /\ batch = SubSeq(redis[l], 1, n)
  BY ZenonT(60)
<1>2. /\ rpc[r] = "drain" /\ rpc' \in {[rpc EXCEPT ![r] = "push"], [rpc EXCEPT ![r] = "fetch"]}
      /\ source' \in {source, [source EXCEPT ![r] = NextSource(@)]}
      /\ length' = [length EXCEPT ![r] = 0]
      /\ UNCHANGED <<held, mysql, spc, smsg, job, flush, pushed, got, refused>>
  BY Zenon DEF DrainList, replayGateVars, replaySendVars
<1>3. /\ \/ /\ redis' = [redis EXCEPT ![l] = SubSeq(@, n + 1, Len(@))]
            /\ drained' = drained \cup {e.msg : e \in Range(batch)}
         \/ redis' = redis /\ drained' = drained
      /\ \/ fetched' = [fetched EXCEPT ![r] = batch] /\ drained' = drained \cup {e.msg : e \in Range(batch)}
         \/ fetched' = fetched
  BY <1>1, Zenon DEF DrainList, DequeueBatch
<1>4. /\ redis \in [Lists -> Seq(Copies)] /\ fetched \in [Replays -> Seq(Copies)] /\ rpc \in [Replays -> ReplayPC]
      /\ source \in [Replays -> {"p2p", "group", "table"}] /\ length \in [Replays -> Nat]
      /\ drained \subseteq Msgs
  BY Zenon DEF MessagesAreKept, OfShape
<1>5. l \in Lists /\ redis[l] \in Seq(Copies) /\ n \in 0 .. Len(redis[l])
  <2>1. source[r] # "table" /\ length[r] <= Len(redis[SourceList(r)])
    BY <1>2, Zenon DEF MessagesAreKept, ReplayPoints
  <2>2. l \in Lists
    BY <1>1, <2>1, SourceIsList DEF MessagesAreKept
  <2>3. redis[l] \in Seq(Copies)
    BY <1>4, <2>2
  <2>4. Len(redis[l]) \in Nat /\ n \in Nat
    BY <1>1, <1>4, <2>3
  <2> QED  BY <1>1, <2>1, <2>2, <2>3, <2>4
<1>6. PICK rest : rest = SubSeq(redis[l], n + 1, Len(redis[l]))
  BY Zenon
<1>7. batch \in Seq(Copies) /\ rest \in Seq(Copies) /\ Range(redis[l]) = Range(batch) \cup Range(rest)
  BY <1>1, <1>5, <1>6, SplitElements
<1>8. \A e \in Range(batch) : e.msg \in Msgs
  <2>1. \A i \in DOMAIN batch : batch[i] \in Copies
    BY <1>7
  <2> QED  BY <2>1, Numbers DEF Range
<1>9. OfShape'
  <2>1. rpc' \in [Replays -> ReplayPC]
    BY <1>2, <1>4, Zenon DEF ReplayPC
  <2>2. source' \in [Replays -> {"p2p", "group", "table"}] /\ length' \in [Replays -> Nat]
    BY <1>2, <1>4, Zenon DEF NextSource
  <2>3. redis' \in [Lists -> Seq(Copies)] /\ fetched' \in [Replays -> Seq(Copies)]
    BY <1>3, <1>4, <1>5, <1>6, <1>7, Zenon
  <2>4. drained' \subseteq Msgs
    <3>1. {e.msg : e \in Range(batch)} \subseteq Msgs
      BY <1>8, ZenonT(60)
    <3>2. drained' = drained \/ drained' = drained \cup {e.msg : e \in Range(batch)}
      BY <1>3
    <3> QED  BY <1>4, <3>1, <3>2, Zenon
  <2> QED  BY <1>2, <2>1, <2>2, <2>3, <2>4, ZenonT(60) DEF MessagesAreKept, OfShape
<1>10. ReplayPoints'
  <2>1. \A q \in Replays : q # r => rpc'[q] = rpc[q]
    BY <1>2, <1>4, Zenon
  <2>2. rpc'[r] \in {"push", "fetch"}
    BY <1>2, <1>4
  <2>3. \A q \in Replays : rpc[q] = "drain" => q = r
    BY <1>2, Zenon DEF RightIsMarked, Draining
  <2> QED  BY <1>2, <2>1, <2>2, <2>3, Zenon DEF MessagesAreKept, ReplayPoints
<1>11. ASSUME NEW m \in Msgs \ drained', InStore(m)  PROVE  InStore(m)'
  <2>1. CASE redis' = redis
    BY <1>2, <1>11, <2>1, StoreKept
  <2>2. CASE /\ redis' = [redis EXCEPT ![l] = SubSeq(@, n + 1, Len(@))]
             /\ drained' = drained \cup {e.msg : e \in Range(batch)}
    <3>1. redis'[l] = rest /\ \A k \in Lists : k # l => redis'[k] = redis[k]
      BY <1>4, <1>5, <1>6, <2>2, Zenon
    <3>2. \A e \in Range(redis[l]) : e.msg = m => e \in Range(rest)
      BY <1>7, <1>11, <2>2
    <3> QED  BY <1>2, <1>5, <1>11, <3>1, <3>2, Zenon DEF InStore
  <2> QED  BY <1>3, <2>1, <2>2, Zenon
<1>12. \A q \in Replays : \A e \in Range(fetched'[q]) : e.msg \in drained'
  <2>1. \A q \in Replays : \A e \in Range(fetched[q]) : e.msg \in drained'
    BY <1>3, Zenon DEF MessagesAreKept, ReplayHandlesTaken
  <2> QED  BY <1>3, <1>4, <2>1, Zenon
<1>13. \A q \in Replays : pushed'[q] \subseteq drained'
  BY <1>2, <1>3, ZenonT(60) DEF MessagesAreKept, ReplayHandlesTaken
<1>14. drained \subseteq drained'
  BY <1>3
<1> QED  BY <1>2, <1>9, <1>10, <1>11, <1>12, <1>13, <1>14, TakingKeeps, ZenonT(60)

\* A page of the table has rows of the table.
LEMMA PageHasRows ==
    ASSUME mysql \in Seq(Copies), NEW cur
    PROVE  Page(cur) \in Seq(Copies)
<1>1. RowsAfter(cur) \in Seq(Copies)
  <2> DEFINE at == {i \in DOMAIN mysql : mysql[i].msg = cur}
             first == CHOOSE i \in at : \A j \in at : i <= j
  <2>1. at \subseteq 1 .. Len(mysql) /\ Len(mysql) \in Nat
    OBVIOUS
  <2>2. CASE at # {}
    <3>1. at \subseteq Nat
      BY <2>1
    <3>2. \E i \in at : \A j \in at : i <= j
      <4> HIDE DEF at
      <4> QED  BY <2>2, <3>1, Least, Zenon
    <3>3. first \in at
      <4> HIDE DEF at
      <4> QED  BY <3>2
    <3>4. first \in 1 .. Len(mysql)
      BY <2>1, <3>3
    <3> HIDE DEF first
    <3>5. SubSeq(mysql, 1 + first, Len(mysql)) \in Seq(Copies)
      BY <2>1, <3>4
    <3> QED  BY <2>2, <3>5, Zenon DEF RowsAfter, first
  <2>3. CASE at = {}
    BY <2>3 DEF RowsAfter
  <2> QED  BY <2>2, <2>3
<1>2. PICK rows : rows = Where(RowsAfter(cur), {e \in Receivable : retries[e.msg] < MaxRetry})
  BY Zenon
<1>3. rows \in Seq(Copies)
  BY <1>1, <1>2, WhereElements
<1>4. PICK k : k = IF Len(rows) < PageSize THEN Len(rows) ELSE PageSize
  OBVIOUS
<1>5. k \in 0 .. Len(rows)
  BY <1>3, <1>4, OfflineAssumption
<1>6. SubSeq(rows, 1, k) \in Seq(Copies)
  BY <1>3, <1>5, SplitElements
<1>7. Page(cur) = SubSeq(rows, 1, k)
  BY <1>2, <1>4 DEF Page
<1> QED  BY <1>6, <1>7

\* A page takes the messages of its rows and removes none.
LEMMA FetchPageKeeps ==
    ASSUME MessagesAreKept, NEW r \in Replays, FetchPage(r)
    PROVE  MessagesAreKept'
<1>1. PICK rows : rows = Page(cursor[r])
  OBVIOUS
<1>2. /\ rpc[r] = "fetch"
      /\ \/ /\ fetched' = [fetched EXCEPT ![r] = rows] /\ drained' = drained \cup {e.msg : e \in Range(rows)}
            /\ rpc' = [rpc EXCEPT ![r] = "push"]
         \/ fetched' = fetched /\ drained' = drained /\ rpc' = [rpc EXCEPT ![r] = "release"]
      /\ UNCHANGED <<held, redis, mysql, spc, smsg, job, flush, pushed, got, refused, source, length>>
  BY <1>1, Zenon DEF FetchPage, replayGateVars, storeVars, replaySendVars
<1>3. /\ fetched \in [Replays -> Seq(Copies)] /\ rpc \in [Replays -> ReplayPC] /\ drained \subseteq Msgs
      /\ mysql \in Seq(Copies)
  BY Zenon DEF MessagesAreKept, OfShape
<1>4. rows \in Seq(Copies)
  BY <1>1, <1>3, PageHasRows
<1>5. {e.msg : e \in Range(rows)} \subseteq Msgs
  <2>1. \A i \in DOMAIN rows : rows[i] \in Copies
    BY <1>4
  <2> QED  BY <2>1, Numbers DEF Range
<1>6. drained' \subseteq Msgs /\ drained \subseteq drained'
  <2>1. drained' = drained \/ drained' = drained \cup {e.msg : e \in Range(rows)}
    BY <1>2
  <2> QED  BY <1>3, <1>5, <2>1
<1>7. rpc' \in [Replays -> ReplayPC] /\ fetched' \in [Replays -> Seq(Copies)]
  BY <1>2, <1>3, <1>4, Zenon DEF ReplayPC
<1>8. OfShape'
  BY <1>2, <1>6, <1>7, Zenon DEF MessagesAreKept, OfShape
<1>9. ReplayPoints'
  <2>1. \A q \in Replays : SourceList(q)' = SourceList(q)
    BY <1>2, ZenonT(60) DEF SourceList, ContextNS
  <2>2. (\A q \in Replays : q # r => rpc'[q] = rpc[q]) /\ rpc'[r] \in {"push", "release"}
    BY <1>2, <1>3
  <2> QED  BY <1>2, <2>1, <2>2, Zenon DEF MessagesAreKept, ReplayPoints
<1>10. \A q \in Replays : \A e \in Range(fetched'[q]) : e.msg \in drained'
  <2>1. \A q \in Replays : \A e \in Range(fetched[q]) : e.msg \in drained'
    BY <1>6 DEF MessagesAreKept, ReplayHandlesTaken
  <2> QED  BY <1>2, <1>3, <2>1, Zenon
<1>11. \A q \in Replays : pushed'[q] \subseteq drained'
  BY <1>2, <1>6, Zenon DEF MessagesAreKept, ReplayHandlesTaken
<1> QED  BY <1>2, <1>6, <1>8, <1>9, <1>10, <1>11, StoreKept, TakingKeeps, ZenonT(60)

\* DeleteByMessageIDs removes rows of messages that were taken.
LEMMA DeleteKeeps ==
    ASSUME MessagesAreKept, NEW r \in Replays, DeletePushed(r)
    PROVE  MessagesAreKept'
<1>1. PICK gone : gone = [msg : pushed[r], ns : {ContextNS(source[r])}]
  BY Zenon
<1>2. /\ rpc[r] = "delete" /\ (mysql' = mysql \/ mysql' = Where(mysql, Copies \ gone))
      /\ pushed' = [pushed EXCEPT ![r] = {}]
      /\ rpc' \in {[rpc EXCEPT ![r] = "release"], [rpc EXCEPT ![r] = "fetch"]}
      /\ source' = [source EXCEPT ![r] = NextSource(@)]
      /\ UNCHANGED <<held, redis, spc, smsg, job, flush, fetched, got, refused, length, drained>>
  BY <1>1, Zenon DEF DeletePushed, replayGateVars, replaySendVars
<1>3. /\ rpc \in [Replays -> ReplayPC] /\ pushed \in [Replays -> SUBSET Msgs] /\ mysql \in Seq(Copies)
      /\ source \in [Replays -> {"p2p", "group", "table"}] /\ pushed[r] \subseteq drained
  BY Zenon DEF MessagesAreKept, OfShape, ReplayHandlesTaken
<1>4. Where(mysql, Copies \ gone) \in Seq(Copies) /\ Range(Where(mysql, Copies \ gone)) = Range(mysql) \cap (Copies \ gone)
  BY <1>3, WhereElements
<1>5. OfShape'
  <2>1. rpc' \in [Replays -> ReplayPC] /\ source' \in [Replays -> {"p2p", "group", "table"}]
    BY <1>2, <1>3, Zenon DEF ReplayPC, NextSource
  <2>2. pushed' \in [Replays -> SUBSET Msgs] /\ mysql' \in Seq(Copies)
    BY <1>2, <1>3, <1>4, Zenon
  <2> QED  BY <1>2, <2>1, <2>2, ZenonT(60) DEF MessagesAreKept, OfShape
<1>6. ReplayPoints'
  <2>1. /\ \A q \in Replays : q # r => rpc'[q] = rpc[q] /\ source'[q] = source[q]
        /\ rpc'[r] \in {"release", "fetch"}
    BY <1>2, <1>3, Zenon
  <2>2. \A q \in Replays : q # r => SourceList(q)' = SourceList(q)
    BY <2>1, ZenonT(60) DEF SourceList, ContextNS
  <2> QED  BY <1>2, <2>1, <2>2 DEF MessagesAreKept, ReplayPoints
<1>7. ASSUME NEW m \in Msgs \ drained', InStore(m)  PROVE  InStore(m)'
  <2>1. \A e \in Range(mysql) : e.msg = m => e \in Range(mysql')
    <3>1. \A e \in Range(mysql) : e \in Copies
      BY <1>3 DEF Range
    <3>2. \A e \in Copies : e.msg = m => e \notin gone
      BY <1>1, <1>2, <1>3, <1>7, Zenon
    <3> QED  BY <1>2, <1>4, <3>1, <3>2, ZenonT(60)
  <2> QED  BY <1>2, <1>7, <2>1, Zenon DEF InStore
<1>8. \A q \in Replays : pushed'[q] \subseteq drained
  BY <1>2, <1>3, ZenonT(60) DEF MessagesAreKept, ReplayHandlesTaken
<1>9. \A q \in Replays : \A e \in Range(fetched'[q]) : e.msg \in drained'
  BY <1>2, Zenon DEF MessagesAreKept, ReplayHandlesTaken
<1> QED  BY <1>2, <1>5, <1>6, <1>7, <1>8, <1>9, TakingKeeps, Zenon

\* The steps of a replay that move no message.
LEMMA QuietReplayKeeps ==
    ASSUME MessagesAreKept, NEW r \in Replays,
           \/ Connect(r) \/ Deadline(r) \/ TryBeginUserReplay(r) \/ GateBegin(r) \/ CountOffline(r)
           \/ UpdatePushStatus(r) \/ ReleaseReplay(r) \/ ReplayDone(r)
    PROVE  MessagesAreKept'
<1> USE DEF replayGateVars, storeVars, replaySendVars
<1>1. UNCHANGED LiveFlow /\ source' = source /\ length' = length /\ (rpc[r] # "flush" \/ flush[r] = <<>>)
  BY ZenonT(60) DEF Connect, Deadline, TryBeginUserReplay, GateBegin, CountOffline, UpdatePushStatus, ReleaseReplay,
         ReplayDone, LiveFlow
<1>2. \E pc \in ReplayPC \ {"drain"} : rpc' = [rpc EXCEPT ![r] = pc] \/ rpc' = rpc
  BY Zenon DEF Connect, Deadline, TryBeginUserReplay, GateBegin, CountOffline, UpdatePushStatus, ReleaseReplay,
         ReplayDone, ReplayPC
<1> QED  BY <1>1, <1>2, QuietStep

\* A step that leaves all of this alone.
LEMMA StandingKeeps ==
    ASSUME MessagesAreKept, UNCHANGED LiveFlow, UNCHANGED <<rpc, source, length>>
    PROVE  MessagesAreKept'
<1>1. OfShape'
  BY Zenon DEF MessagesAreKept, LiveFlow, OfShape
<1>2. ReplayPoints'
  BY PointsKept DEF MessagesAreKept, LiveFlow
<1> QED  BY <1>1, <1>2, FlowKept DEF MessagesAreKept

\* Every step keeps the messages.
LEMMA LiveStep ==
    ASSUME LiveInv, [OfflineNext]_offlineVars
    PROVE  LiveInv'
<1>1. RightIsMarked /\ MessagesAreKept /\ RightIsMarked'
  BY MarkStep DEF LiveInv
<1>2. ASSUME Disconnect \/ UNCHANGED offlineVars  PROVE  MessagesAreKept'
  <2>1. UNCHANGED LiveFlow /\ UNCHANGED <<rpc, source, length>>
    BY <1>2, Zenon DEF Disconnect, offlineVars, LiveFlow, replayGateVars, storeVars,
       replaySendVars, replayVars
  <2> QED  BY <1>1, <2>1, StandingKeeps
<1>3. ASSUME SendNext \/ SendReturn  PROVE  MessagesAreKept'
  BY <1>1, <1>3, SendNextKeeps, SendReturnKeeps
<1>4. ASSUME NEW c \in Callers, SendStep(c)  PROVE  MessagesAreKept'
  BY <1>1, <1>4, AttemptKeeps, HoldKeeps, ClosureKeeps, DirectKeeps, StoreReturnKeeps DEF SendStep
<1>5. ASSUME NEW o \in Owners, NEW b \in Backends, StoreWrite(o, b)  PROVE  MessagesAreKept'
  BY <1>1, <1>5, StoreWriteKeeps
<1>6. ASSUME NEW r \in Replays, Connect(r) \/ Deadline(r) \/ ReplayStep(r)  PROVE  MessagesAreKept'
  BY <1>1, <1>6, QuietReplayKeeps, GetLengthKeeps, DrainKeeps, FetchPageKeeps, PushKeeps,
     PushReturnKeeps, DeleteKeeps, GateEndKeeps, FlushKeeps, Zenon DEF ReplayStep
<1>7. MessagesAreKept'
  BY <1>2, <1>3, <1>4, <1>5, <1>6 DEF OfflineNext
<1> QED  BY <1>1, <1>7 DEF LiveInv

\* The only way in which a message whose sender was told it succeeded, and
\* which no replay has taken, goes missing is a failed
\* StoreOfflineOnDeliveryFailure: it runs after the sender has its answer.
UntakenIsSafe ==
    \A m \in Msgs \ drained : Promised(m) => Safe(m) \/ StoreFailed(m)

\* UntakenIsSafe holds in every reachable state, whatever the storage does.
THEOREM UntakenMessagesAreKept == OfflineSpec => []UntakenIsSafe
<1>1. LiveInv => UntakenIsSafe
  BY DEF LiveInv, MessagesAreKept, SettledIsSafe, UntakenIsSafe, Promised, Returned, Settled
<1> QED  BY <1>1, LiveInitially, LiveStep, PTL DEF OfflineSpec

\* With a storage that does not fail, LiveMessageIsSafe holds in every
\* reachable state: a live message that was reported delivered is accepted,
\* held by the gate, on its way, or stored, until a replay takes it.
THEOREM LiveMessagesAreSafe ==
    ASSUME MayFailIO = FALSE
    PROVE  OfflineSpec => []LiveMessageIsSafe
<1>1. LiveInv => LiveMessageIsSafe
  <2> SUFFICES ASSUME LiveInv, NEW m \in Msgs \ drained, Promised(m)
               PROVE  Safe(m)
    BY DEF LiveMessageIsSafe, Safe
  <2>1. Safe(m) \/ StoreFailed(m)
    BY DEF LiveInv, MessagesAreKept, SettledIsSafe, Promised, Returned, Settled
  <2>2. ~StoreFailed(m)
    <3>1. m \in Owners \ Replays /\ m # 0
      BY Numbers
    <3>2. job[m].copy.msg # 0 /\ "redis" \notin job[m].todo => job[m].ok = TRUE
      BY <3>1, Zenon DEF LiveInv, MessagesAreKept, JobsAreTrue
    <3> QED  BY <3>1, <3>2 DEF StoreFailed
  <2> QED  BY <2>1, <2>2
<1> QED  BY <1>1, LiveInitially, LiveStep, PTL DEF OfflineSpec
=============================================================================
