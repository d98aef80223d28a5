--------------------------- MODULE OfflineReplay ---------------------------
(***************************************************************************)
(* What happens to the messages of one user across disconnections: the     *)
(* send path (sendToUserWithRetryCore, sendToUser), the hybrid offline     *)
(* store (a Redis list per queue and a MySQL table, written in parallel),  *)
(* the replay a first connection triggers (PushOfflineMessages) and the    *)
(* replay gate that holds live deliveries while a replay runs.             *)
(*                                                                         *)
(* Messages are numbered in the order one sender sends them; a copy of a   *)
(* message carries the namespace of its envelope.  Group messages are sent *)
(* with the empty namespace, which matches every tenant.  A replay pushes  *)
(* through the same send path as the sender, so both are Callers.          *)
(***************************************************************************)
EXTENDS Naturals, Sequences, FiniteSets, Functions

CONSTANTS
    Sender,     \* the goroutine that sends the messages
    N,          \* bound: number of messages sent
    GroupMsgs,  \* the messages addressed to a group
    ClientNS,   \* Namespace of the user's connections, never empty
    Replays,    \* bound: the first connections the user makes, in any order
    MaxEvents,  \* bound: messages sent and first connections together
    HoldMax,    \* maxReplayHoldout
    PageSize,   \* batchSize of the MySQL phase
    MaxRetry,   \* max_retry of an offline row
    MaxTries,   \* RetryPolicy.MaxRetries + 1
    MayRefuse,  \* a live connection may refuse a frame (queue full, admission)
    MayFailIO   \* Redis and MySQL calls may return an error

Msgs == 1 .. N
Callers == {Sender} \cup Replays

ASSUME OfflineAssumption ==
    /\ N \in Nat /\ PageSize \in Nat
    /\ Sender \notin Replays /\ Callers \cap Msgs = {}

Backends == {"redis", "mysql"}
Namespaces == {"", "default", ClientNS}
Copies == [msg : Msgs, ns : Namespaces]

KindOf(m) == IF m \in GroupMsgs THEN "group" ELSE "p2p"

\* queueKey: the Redis list of a copy.
Lists == Namespaces \X {"p2p", "group"}
ListOf(e) == <<e.ns, KindOf(e.msg)>>

NormalizeNamespace(ns) == IF ns = "" THEN "default" ELSE ns

\* HasUser: the empty namespace of an envelope matches every connection.
HasUser(conn, ns) == conn /\ ns \in {"", ClientNS}

\* Owners of a StoreOfflineMessage call: a caller, or the goroutine that
\* StoreOfflineOnDeliveryFailure starts for message m.
Owners == Callers \cup Msgs

VARIABLES
    up,       \* the registry has a connection of the user
    inflight, \* Manager.replayInflight has the user
    gate,     \* replayGate.pending has the user
    held,     \* the deliveries held for the user: message and Source
    redis,    \* the Redis lists
    mysql,    \* the rows of the offline table, by created_at
    retries,  \* retry_count of a row
    spc,      \* control point of a caller inside the send path
    smsg,     \* the copy a caller is sending
    tries,    \* attempts made for it
    job,      \* StoreOfflineMessage calls: copy, writes left, any success
    rpc,      \* control point of a replay
    source,   \* what the replay is draining: a list, or the table
    length,   \* length of the list as DrainOfflineQueue read it, 0 before
    cursor,   \* message_id cursor of the MySQL phase, 0 for none
    fetched,    \* copies still to push
    pushed,   \* pushedIDs of the current batch
    unpushed,   \* failedIDs of the current batch
    flush,    \* held deliveries that end is running
    late,     \* the 60 s deadline of the replay's context has passed
    got,      \* frames the user's connections accepted, in order
    refused,  \* messages whose sender was told they failed
    drained   \* history: messages some replay has taken from the store

replayGateVars == <<inflight, gate, held>>
storeVars == <<redis, mysql, retries, job>>
replaySendVars == <<spc, smsg, tries>>
replayVars == <<rpc, source, length, cursor, fetched, pushed, unpushed, flush, late, drained>>
offlineVars == <<up, replayGateVars, storeVars, replaySendVars, replayVars, got, refused>>

Delivery == [copy : Copies, src : {"online", "offline"}]
ReplaySendPC == {"idle", "send", "hold", "closure", "direct", "wait", "ok", "fail"}
ReplayPC == {"off", "reg", "begin", "count", "fetch", "drain", "push", "delete", "release",
             "end", "flush", "done"}
NoCopy == [msg |-> 0, ns |-> ""]
NoJob == [copy |-> NoCopy, todo |-> {}, ok |-> FALSE]

OfflineTypeOK ==
    /\ up \in BOOLEAN /\ inflight \in BOOLEAN /\ gate \in BOOLEAN
    /\ held \in Seq(Delivery) /\ Len(held) <= HoldMax
    /\ \A l \in Lists : redis[l] \in Seq({e \in Copies : ListOf(e) = l})
    /\ mysql \in Seq(Copies)
    /\ \A i, j \in DOMAIN mysql : mysql[i] = mysql[j] => i = j
    /\ retries \in [Msgs -> Nat]
    /\ spc \in [Callers -> ReplaySendPC]
    /\ smsg \in [Callers -> Copies \cup {NoCopy}]
    /\ tries \in [Callers -> 0 .. MaxTries]
    /\ job \in [Owners -> [copy : Copies \cup {NoCopy}, todo : SUBSET Backends, ok : BOOLEAN]]
    /\ rpc \in [Replays -> ReplayPC]
    /\ source \in [Replays -> {"p2p", "group", "table"}]
    /\ length \in [Replays -> Nat]
    /\ cursor \in [Replays -> 0 .. N]
    /\ \A r \in Replays : fetched[r] \in Seq(Copies) /\ flush[r] \in Seq(Delivery)
    /\ late \in [Replays -> BOOLEAN]
    /\ pushed \in [Replays -> SUBSET Msgs]
    /\ unpushed \in [Replays -> SUBSET Msgs]
    /\ got \in Seq(Msgs)
    /\ refused \subseteq Msgs /\ drained \subseteq Msgs

OfflineInit ==
    /\ up = FALSE /\ inflight = FALSE /\ gate = FALSE
    /\ held = <<>>
    /\ redis = [l \in Lists |-> <<>>]
    /\ mysql = <<>>
    /\ retries = [m \in Msgs |-> 0]
    /\ spc = [c \in Callers |-> "idle"]
    /\ smsg = [c \in Callers |-> NoCopy]
    /\ tries = [c \in Callers |-> 0]
    /\ job = [o \in Owners |-> NoJob]
    /\ rpc = [r \in Replays |-> "off"]
    /\ source = [r \in Replays |-> "p2p"]
    /\ length = [r \in Replays |-> 0]
    /\ cursor = [r \in Replays |-> 0]
    /\ fetched = [r \in Replays |-> <<>>]
    /\ pushed = [r \in Replays |-> {}]
    /\ unpushed = [r \in Replays |-> {}]
    /\ flush = [r \in Replays |-> <<>>]
    /\ late = [r \in Replays |-> FALSE]
    /\ got = <<>>
    /\ refused = {}
    /\ drained = {}

-----------------------------------------------------------------------------
(* StoreOfflineMessage: two goroutines write in parallel, the call returns *)
(* when both have, and it succeeds when either has.  The table has a       *)
(* unique index on message and namespace.                                  *)

\* A storage call of o: everything a replay does runs under its deadline.
InTime(o) == o \in Replays => ~late[o]

MayFail(o) == MayFailIO \/ ~InTime(o)

StartStore(o, e) ==
    job' = [job EXCEPT ![o] = [copy |-> e, todo |-> Backends, ok |-> FALSE]]

\* Enqueue: RPUSH on the list of the copy.
Enqueue(e) == redis' = [redis EXCEPT ![ListOf(e)] = Append(@, e)]

storeToRedis(e) == Enqueue(e) /\ UNCHANGED mysql

storeToDatabase(e) ==
    /\ e \notin Range(mysql)
    /\ mysql' = Append(mysql, e)
    /\ UNCHANGED redis

StoreWrite(o, b) ==
    LET e == job[o].copy
        Written(good) == job' = [job EXCEPT ![o].todo = @ \ {b}, ![o].ok = @ \/ good]
    IN  /\ b \in job[o].todo
        /\ \/ b = "redis" /\ InTime(o) /\ storeToRedis(e) /\ Written(TRUE)
           \/ b = "mysql" /\ InTime(o) /\ storeToDatabase(e) /\ Written(TRUE)
           \/ /\ MayFail(o) \/ (b = "mysql" /\ e \in Range(mysql))
              /\ Written(FALSE)
              /\ UNCHANGED <<redis, mysql>>
        /\ UNCHANGED <<up, replayGateVars, retries, replaySendVars, replayVars, got, refused>>

-----------------------------------------------------------------------------
(* The send path, for a caller c: sendToUserWithRetryCore decides by the   *)
(* registry, sendToUser decides by the gate.                               *)

SourceOf(c) == IF c = Sender THEN "online" ELSE "offline"

Accept(m) == up /\ got' = Append(got, m)

Refuse == (~up \/ MayRefuse) /\ UNCHANGED got

SendStart(c, e) ==
    /\ smsg' = [smsg EXCEPT ![c] = e]
    /\ tries' = [tries EXCEPT ![c] = 0]
    /\ IF HasUser(up, e.ns)
       THEN spc' = [spc EXCEPT ![c] = "send"] /\ UNCHANGED job
       ELSE spc' = [spc EXCEPT ![c] = "wait"] /\ StartStore(c, e)

SendAttempt(c) ==
    /\ spc[c] = "send"
    /\ spc' = [spc EXCEPT ![c] = IF gate THEN "hold" ELSE "direct"]
    /\ tries' = [tries EXCEPT ![c] = @ + 1]
    /\ UNCHANGED <<up, replayGateVars, storeVars, smsg, replayVars, got, refused>>

\* replayGate.hold: the gate is looked at again under the write lock.
HoldDelivery(c) ==
    /\ spc[c] = "hold"
    /\ IF gate /\ Len(held) < HoldMax
       THEN /\ held' = Append(held, [copy |-> smsg[c], src |-> SourceOf(c)])
            /\ spc' = [spc EXCEPT ![c] = "ok"]
       ELSE /\ spc' = [spc EXCEPT ![c] = "closure"]
            /\ UNCHANGED held
    /\ UNCHANGED <<up, inflight, gate, storeVars, smsg, tries, replayVars, got, refused>>

\* A closure that does not fall back to the store.
RunHeld_NoFallback(e, src) ==
    (Accept(e.msg) \/ Refuse) /\ UNCHANGED job

\* The closure sendToUser gives to the gate, with StoreOfflineOnDeliveryFailure.
RunHeld(e, src) ==
    \/ Accept(e.msg) /\ UNCHANGED job
    \/ Refuse /\ src = "online" /\ StartStore(e.msg, e)
    \/ Refuse /\ src = "offline" /\ UNCHANGED job

RunClosure(c) ==
    /\ spc[c] = "closure"
    /\ RunHeld(smsg[c], SourceOf(c))
    /\ spc' = [spc EXCEPT ![c] = "ok"]
    /\ UNCHANGED <<up, replayGateVars, redis, mysql, retries, smsg, tries, replayVars, refused>>

\* The direct delivery, the retry chain and the final fallback to the store.
DeliverDirect(c) ==
    /\ spc[c] = "direct"
    /\ \/ /\ Accept(smsg[c].msg)
          /\ spc' = [spc EXCEPT ![c] = "ok"]
          /\ UNCHANGED job
       \/ /\ Refuse
          /\ tries[c] < MaxTries
          /\ spc' = [spc EXCEPT ![c] = "send"]
          /\ UNCHANGED job
       \/ /\ Refuse
          /\ tries[c] = MaxTries
          /\ IF SourceOf(c) = "online"
             THEN spc' = [spc EXCEPT ![c] = "wait"] /\ StartStore(c, smsg[c])
             ELSE spc' = [spc EXCEPT ![c] = "fail"] /\ UNCHANGED job
    /\ UNCHANGED <<up, replayGateVars, redis, mysql, retries, smsg, tries, replayVars, refused>>

StoreReturn(c) ==
    /\ spc[c] = "wait"
    /\ job[c].todo = {}
    /\ spc' = [spc EXCEPT ![c] = IF job[c].ok THEN "ok" ELSE "fail"]
    /\ job' = [job EXCEPT ![c] = NoJob]
    /\ UNCHANGED <<up, replayGateVars, redis, mysql, retries, smsg, tries, replayVars, got, refused>>

SendStep(c) ==
    SendAttempt(c) \/ HoldDelivery(c) \/ RunClosure(c) \/ DeliverDirect(c) \/ StoreReturn(c)

\* The messages sent and the first connections made so far.
Events == smsg[Sender].msg + Cardinality({r \in Replays : rpc[r] # "off"})

\* The sender sends the next message once the previous call has returned.
SendNext ==
    LET m == smsg[Sender].msg + 1
    IN  /\ spc[Sender] = "idle"
        /\ m \in Msgs /\ Events < MaxEvents
        /\ SendStart(Sender, [msg |-> m, ns |-> IF m \in GroupMsgs THEN "" ELSE ClientNS])
        /\ UNCHANGED <<up, replayGateVars, redis, mysql, retries, replayVars, got, refused>>

SendReturn ==
    /\ spc[Sender] \in {"ok", "fail"}
    /\ spc' = [spc EXCEPT ![Sender] = "idle"]
    /\ refused' = IF spc[Sender] = "fail" THEN refused \cup {smsg[Sender].msg} ELSE refused
    /\ UNCHANGED <<up, replayGateVars, storeVars, smsg, tries, replayVars, got>>

-----------------------------------------------------------------------------
(* Registration of a first connection, its loss, and the replay.           *)

Connect(r) ==
    /\ rpc[r] = "off" /\ Events < MaxEvents
    /\ ~up
    /\ up' = TRUE
    /\ rpc' = [rpc EXCEPT ![r] = "reg"]
    /\ UNCHANGED <<replayGateVars, storeVars, replaySendVars, source, length, cursor, fetched, pushed,
                   unpushed, flush, late, drained, got, refused>>

Disconnect ==
    /\ up
    /\ up' = FALSE
    /\ UNCHANGED <<replayGateVars, storeVars, replaySendVars, replayVars, got, refused>>

\* A Load followed by a Store in place of LoadOrStore, losing the race.
TryBeginUserReplay_NoSwap(r) ==
    /\ rpc[r] = "reg"
    /\ inflight' = TRUE
    /\ rpc' = [rpc EXCEPT ![r] = "begin"]
    /\ UNCHANGED <<up, gate, held, storeVars, replaySendVars, source, length, cursor, fetched, pushed,
                   unpushed, flush, late, drained, got, refused>>

TryBeginUserReplay(r) ==
    /\ rpc[r] = "reg"
    /\ inflight' = TRUE
    /\ rpc' = [rpc EXCEPT ![r] = IF inflight THEN "done" ELSE "begin"]
    /\ UNCHANGED <<up, gate, held, storeVars, replaySendVars, source, length, cursor, fetched, pushed,
                   unpushed, flush, late, drained, got, refused>>

GateBegin(r) ==
    /\ rpc[r] = "begin"
    /\ gate' = TRUE
    /\ rpc' = [rpc EXCEPT ![r] = "count"]
    /\ UNCHANGED <<up, inflight, held, storeVars, replaySendVars, source, length, cursor, fetched, pushed,
                   unpushed, flush, late, drained, got, refused>>

\* The WHERE clause of a query: the rows that are in T, in order.
Where(rows, T) ==
    LET F[i \in 0 .. Len(rows)] ==
            IF i = 0 THEN <<>>
            ELSE IF rows[i] \in T THEN Append(F[i - 1], rows[i]) ELSE F[i - 1]
    IN  F[Len(rows)]

\* GetCountByReceiver: the rows of the client's namespace and of no namespace.
Receivable == [msg : Msgs, ns : {"", ClientNS}]
Counted == Where(mysql, Receivable)

CountOffline(r) ==
    /\ rpc[r] = "count"
    /\ \/ InTime(r) /\ Counted # <<>> /\ rpc' = [rpc EXCEPT ![r] = "fetch"]
       \/ (Counted = <<>> \/ MayFail(r)) /\ rpc' = [rpc EXCEPT ![r] = "release"]
    /\ UNCHANGED <<up, replayGateVars, storeVars, replaySendVars, source, length, cursor, fetched, pushed,
                   unpushed, flush, late, drained, got, refused>>

\* The namespace of the context a source is read, pushed and deleted with.
ContextNS(src) == IF src = "group" THEN "" ELSE ClientNS

NextSource(src) == IF src = "p2p" THEN "group" ELSE "table"

SourceList(r) == <<ContextNS(source[r]), source[r]>>

\* GetLength of DrainOfflineQueue, or its failure; a group repository that
\* cannot be read has the effect of a failed drain of the group list.
GetLength(r) ==
    LET n == Len(redis[SourceList(r)])
    IN  /\ rpc[r] = "fetch"
        /\ source[r] # "table"
        /\ \/ /\ InTime(r) /\ n > 0
              /\ length' = [length EXCEPT ![r] = n]
              /\ rpc' = [rpc EXCEPT ![r] = "drain"]
              /\ UNCHANGED source
           \/ /\ n = 0 \/ MayFail(r)
              /\ source' = [source EXCEPT ![r] = NextSource(@)]
              /\ UNCHANGED <<length, rpc>>
        /\ UNCHANGED <<up, replayGateVars, storeVars, replaySendVars, cursor, fetched, pushed,
                       unpushed, flush, late, drained, got, refused>>

\* LRANGE and LTRIM of the first n entries.
DequeueBatch(l, n) == redis' = [redis EXCEPT ![l] = SubSeq(@, n + 1, Len(@))]

\* DequeueBatch of the length that was read; what was enqueued since stays
\* in the list.  A call that fails may have trimmed the list.
DrainList(r) ==
    LET l == SourceList(r)
        batch == SubSeq(redis[l], 1, length[r])
    IN  /\ rpc[r] = "drain"
        /\ \/ /\ InTime(r)
              /\ DequeueBatch(l, length[r])
              /\ fetched' = [fetched EXCEPT ![r] = batch]
              /\ drained' = drained \cup {e.msg : e \in Range(batch)}
              /\ rpc' = [rpc EXCEPT ![r] = "push"]
              /\ UNCHANGED source
           \/ /\ MayFail(r)
              /\ \/ DequeueBatch(l, length[r]) /\ drained' = drained \cup {e.msg : e \in Range(batch)}
                 \/ UNCHANGED <<redis, drained>>
              /\ rpc' = [rpc EXCEPT ![r] = "fetch"]
              /\ source' = [source EXCEPT ![r] = NextSource(@)]
              /\ UNCHANGED fetched
        /\ length' = [length EXCEPT ![r] = 0]
        /\ UNCHANGED <<up, replayGateVars, mysql, retries, job, replaySendVars, cursor, pushed,
                       unpushed, flush, late, got, refused>>

\* QueryMessages: the rows after the cursor, or all of them when the row the
\* cursor names is gone; rows whose retries are exhausted are left out.
RowsAfter(cur) ==
    LET at == {i \in DOMAIN mysql : mysql[i].msg = cur}
    IN  IF at = {} THEN mysql
        ELSE SubSeq(mysql, 1 + CHOOSE i \in at : \A j \in at : i <= j, Len(mysql))

Page(cur) ==
    LET rows == Where(RowsAfter(cur), {e \in Receivable : retries[e.msg] < MaxRetry})
    IN  SubSeq(rows, 1, IF Len(rows) < PageSize THEN Len(rows) ELSE PageSize)

FetchPage(r) ==
    LET rows == Page(cursor[r])
    IN  /\ rpc[r] = "fetch"
        /\ source[r] = "table"
        /\ \/ /\ InTime(r)
              /\ rows # <<>>
              /\ fetched' = [fetched EXCEPT ![r] = rows]
              /\ cursor' = [cursor EXCEPT ![r] =
                               IF Len(rows) >= PageSize THEN rows[Len(rows)].msg ELSE 0]
              /\ drained' = drained \cup {e.msg : e \in Range(rows)}
              /\ rpc' = [rpc EXCEPT ![r] = "push"]
           \/ /\ rows = <<>> \/ MayFail(r)
              /\ rpc' = [rpc EXCEPT ![r] = "release"]
              /\ UNCHANGED <<fetched, cursor, drained>>
        /\ UNCHANGED <<up, replayGateVars, storeVars, replaySendVars, source, length, pushed, unpushed,
                       flush, late, got, refused>>

\* pushAndDeleteOffline: EnsureRouteDefaults gives an envelope without a
\* namespace the normalised namespace of the context.
Push(r) ==
    LET e == Head(fetched[r])
        ns == IF e.ns # "" THEN e.ns ELSE NormalizeNamespace(ContextNS(source[r]))
    IN  /\ rpc[r] = "push"
        /\ spc[r] = "idle"
        /\ fetched[r] # <<>>
        /\ SendStart(r, [msg |-> e.msg, ns |-> ns])
        /\ fetched' = [fetched EXCEPT ![r] = Tail(@)]
        /\ UNCHANGED <<up, replayGateVars, redis, mysql, retries, rpc, source, length, cursor, pushed,
                       unpushed, flush, late, drained, got, refused>>

PushReturn(r) ==
    /\ spc[r] \in {"ok", "fail"}
    /\ spc' = [spc EXCEPT ![r] = "idle"]
    /\ IF spc[r] = "ok"
       THEN pushed' = [pushed EXCEPT ![r] = @ \cup {smsg[r].msg}] /\ UNCHANGED unpushed
       ELSE unpushed' = [unpushed EXCEPT ![r] = @ \cup {smsg[r].msg}] /\ UNCHANGED pushed
    /\ UNCHANGED <<up, replayGateVars, storeVars, smsg, tries, rpc, source, length, cursor, fetched, flush,
                   late, drained, got, refused>>

\* The update of the rows of failed pushes, by message and in any namespace.
RetriesAfter(failed) ==
    [m \in Msgs |-> IF m \in failed /\ (\E e \in Range(mysql) : e.msg = m) THEN retries[m] + 1 ELSE retries[m]]

\* UpdatePushStatus of the failed ones.
UpdatePushStatus(r) ==
    /\ rpc[r] = "push"
    /\ spc[r] = "idle"
    /\ fetched[r] = <<>>
    /\ \/ InTime(r) /\ retries' = RetriesAfter(unpushed[r])
       \/ MayFail(r) /\ UNCHANGED retries
    /\ unpushed' = [unpushed EXCEPT ![r] = {}]
    /\ rpc' = [rpc EXCEPT ![r] = "delete"]
    /\ UNCHANGED <<up, replayGateVars, redis, mysql, job, replaySendVars, source, length, cursor, fetched, pushed,
                   flush, late, drained, got, refused>>

\* DeleteByMessageIDs of the pushed ones, in the namespace of the context.
DeletePushed(r) ==
    LET gone == [msg : pushed[r], ns : {ContextNS(source[r])}]
        over == source[r] = "table" /\ cursor[r] = 0
    IN  /\ rpc[r] = "delete"
        /\ \/ InTime(r) /\ mysql' = Where(mysql, Copies \ gone)
           \/ MayFail(r) /\ UNCHANGED mysql
        /\ pushed' = [pushed EXCEPT ![r] = {}]
        /\ rpc' = [rpc EXCEPT ![r] = IF over THEN "release" ELSE "fetch"]
        /\ source' = [source EXCEPT ![r] = NextSource(@)]
        /\ UNCHANGED <<up, replayGateVars, redis, retries, job, replaySendVars, length, cursor, fetched, unpushed,
                       flush, late, drained, got, refused>>

\* The 60 s timeout of PushOfflineMessages.
Deadline(r) ==
    /\ rpc[r] \in {"count", "fetch", "drain", "push", "delete"}
    /\ late' = [late EXCEPT ![r] = TRUE]
    /\ UNCHANGED <<up, replayGateVars, storeVars, replaySendVars, rpc, source, length, cursor, fetched, pushed,
                   unpushed, flush, drained, got, refused>>

\* An EndUserReplay that returns before replayGate.end.
ReleaseReplay_NoEnd(r) ==
    /\ rpc[r] = "release"
    /\ inflight' = FALSE
    /\ rpc' = [rpc EXCEPT ![r] = "done"]
    /\ UNCHANGED <<up, gate, held, storeVars, replaySendVars, source, length, cursor, fetched, pushed,
                   unpushed, flush, late, drained, got, refused>>

\* EndUserReplay: the right to replay is given back before the gate opens.
ReleaseReplay(r) ==
    /\ rpc[r] = "release"
    /\ inflight' = FALSE
    /\ rpc' = [rpc EXCEPT ![r] = "end"]
    /\ UNCHANGED <<up, gate, held, storeVars, replaySendVars, source, length, cursor, fetched, pushed,
                   unpushed, flush, late, drained, got, refused>>

\* replayGate.end: the gate opens, then the queue is run.
GateEnd(r) ==
    /\ rpc[r] = "end"
    /\ flush' = [flush EXCEPT ![r] = held]
    /\ held' = <<>>
    /\ gate' = FALSE
    /\ rpc' = [rpc EXCEPT ![r] = "flush"]
    /\ UNCHANGED <<up, inflight, storeVars, replaySendVars, source, length, cursor, fetched, pushed, unpushed,
                   late, drained, got, refused>>

FlushHeld(r) ==
    /\ rpc[r] = "flush"
    /\ flush[r] # <<>>
    /\ RunHeld(Head(flush[r]).copy, Head(flush[r]).src)
    /\ flush' = [flush EXCEPT ![r] = Tail(@)]
    /\ UNCHANGED <<up, replayGateVars, redis, mysql, retries, replaySendVars, rpc, source, length, cursor, fetched,
                   pushed, unpushed, late, drained, refused>>

ReplayDone(r) ==
    /\ rpc[r] = "flush"
    /\ flush[r] = <<>>
    /\ rpc' = [rpc EXCEPT ![r] = "done"]
    /\ UNCHANGED <<up, replayGateVars, storeVars, replaySendVars, source, length, cursor, fetched, pushed, unpushed,
                   flush, late, drained, got, refused>>

ReplayStep(r) ==
    \/ TryBeginUserReplay(r) \/ GateBegin(r) \/ CountOffline(r) \/ GetLength(r) \/ DrainList(r)
    \/ FetchPage(r) \/ Push(r) \/ PushReturn(r) \/ UpdatePushStatus(r) \/ DeletePushed(r)
    \/ ReleaseReplay(r) \/ GateEnd(r) \/ FlushHeld(r) \/ ReplayDone(r)

OfflineNext ==
    \/ SendNext \/ SendReturn \/ Disconnect
    \/ \E c \in Callers : SendStep(c)
    \/ \E o \in Owners, b \in Backends : StoreWrite(o, b)
    \/ \E r \in Replays : Connect(r) \/ Deadline(r) \/ ReplayStep(r)

OfflineSpec == OfflineInit /\ [][OfflineNext]_offlineVars

\* The callback pool runs every replay it was given and storage calls return.
OfflineFairness ==
    /\ \A c \in Callers : WF_offlineVars(SendStep(c))
    /\ \A o \in Owners : WF_offlineVars(\E b \in Backends : StoreWrite(o, b))
    /\ \A r \in Replays : WF_offlineVars(ReplayStep(r)) /\ WF_offlineVars(Deadline(r))

OfflineFairSpec == OfflineSpec /\ OfflineFairness

-----------------------------------------------------------------------------
(* Properties *)

InStore(m) ==
    \/ \E l \in Lists : \E e \in Range(redis[l]) : e.msg = m
    \/ \E e \in Range(mysql) : e.msg = m

InTransit(m) ==
    \/ \E d \in Range(held) : d.copy.msg = m
    \/ \E o \in Owners : job[o].copy.msg = m /\ job[o].todo # {}
    \/ \E c \in Callers : spc[c] \notin {"idle", "ok", "fail"} /\ smsg[c].msg = m
    \/ \E r \in Replays : \/ \E e \in Range(fetched[r]) : e.msg = m
                          \/ \E d \in Range(flush[r]) : d.copy.msg = m

Returned(m) == m <= smsg[Sender].msg /\ ~(m = smsg[Sender].msg /\ spc[Sender] # "idle")

Promised(m) == Returned(m) /\ m \notin refused

\* A message whose sender was told it succeeded, and which no replay has
\* taken yet, was accepted by a connection, is held, or is in the store:
\* a held delivery that is refused goes back to the offline store.
LiveMessageIsSafe ==
    \A m \in Msgs \ drained :
        Promised(m) => m \in Range(got) \/ InStore(m) \/ InTransit(m)

\* Two replays of the user never drain at the same time, however quickly the
\* user comes and goes: TryBeginUserReplay gives the right to one of them.
OneReplayDrains ==
    \A r, q \in Replays :
        {rpc[r], rpc[q]} \subseteq {"begin", "count", "fetch", "drain", "push", "delete"} => r = q

\* The gate a replay closes is opened again, so no live delivery waits for
\* ever: EndUserReplay runs in a defer of the replay task.
GateReopens == []<>~gate

\* A message whose sender was told it succeeded is never lost, also not when
\* a replay takes it from the store: PushOfflineMessages leaves a failed push
\* in the store for the next login.
NoMessageLost ==
    \A m \in Msgs : Promised(m) => m \in Range(got) \/ InStore(m) \/ InTransit(m)
=============================================================================
