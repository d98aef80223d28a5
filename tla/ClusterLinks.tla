---------------------------- MODULE ClusterLinks ----------------------------
(***************************************************************************)
(* What connects the nodes: the batcher that puts several instructions for *)
(* a node into one call, the cache and the merged queries for the nodes of *)
(* a user, and the registry through which nodes find each other, with the  *)
(* pool of connections to them.  The three share no state.                 *)
(***************************************************************************)
EXTENDS Integers, Sequences, FiniteSets, Functions

CONSTANTS
    ClItems,     \* instructions submitted to the batcher: name -> [addr, op, there]
    ClMaxBatch,  \* maxBatch
    ClFailures,  \* bound: calls that fail
    ClLookups,   \* routings of a message: name -> the user whose nodes are wanted
    ClCacheCap,  \* capacity of the cache
    ClPanics,    \* bound: queries that panic
    ClNodes,     \* nodes of the cluster
    ClLives,     \* bound: node -> how often it starts
    ClMortals,   \* bound: nodes that stop or crash
    ClDialers,   \* nodes whose pool is followed
    ClErrors     \* bound: Redis calls that fail

ASSUME LinksAssumption == ClMaxBatch \in Nat \ {0} /\ ClCacheCap \in Nat /\ {ClFailures, ClPanics, ClErrors} \subseteq Nat /\ ClLives \in [ClNodes -> Nat] /\ ClDialers \cup ClMortals \subseteq ClNodes

Lookups == DOMAIN ClLookups

ASSUME LookupsFinite == IsFiniteSet(Lookups)

VARIABLES
    \* the batcher
    clBuf,      \* address -> instructions waiting
    clTimer,    \* addresses whose timer is armed
    clFlush,    \* address -> calls of flush that have not got the lock yet
    clCalls,    \* batches under way: <<address, instructions>>
    clClosed,   \* closed
    clSubmit,   \* instruction -> "new", "waits", or the outcome Submit returned ("given up":
                \* OutcomeFallback too, of a batcher that is closed or a context that ended)
    clFailed,   \* instructions of calls that failed
    \* the cache and the merged queries
    clCache,    \* user -> [by, dead]: the entry, who stored it, whether it expired
    clSize,     \* size
    clAt,       \* lookup -> where it is
    clSaw,      \* lookup -> the storer of the entry it looked at
    clSweep,    \* lookup -> the expired entries its sweep has still to drop
    clFlight,   \* user -> the lookup that queries
    clPanicked, \* queries that panicked
    \* the registry
    clRun,      \* node -> "down", "up", or the step of stopNodeGRPC it is at
    clLoop,     \* node -> where Register or its refreshLoop is
    clLife,     \* node -> starts so far; its address is <<node, life>>
    clAddrs,    \* the hash of addresses in Redis
    clBeats,    \* the hash of heartbeats: node -> "fresh" or "stale"
    clKnown,    \* node -> the addresses it knows: node -> address
    clConns,    \* node -> addresses its pool is connected to
    clDial,     \* node -> the address a routing has looked up and not yet dialled
    clLate,     \* node -> addresses connected to, or given up, unnoticed
    clDead,     \* node -> the expired nodes it is about to delete
    clMissed,   \* nodes whose last registration failed
    clBroken,   \* Redis calls that failed
    clLeft      \* nodes that unregistered and have not started again

clGbVars == <<clBuf, clTimer, clFlush, clCalls, clClosed, clSubmit, clFailed>>
clNcVars == <<clCache, clSize, clAt, clSaw, clSweep, clFlight, clPanicked>>
clNrVars == <<clRun, clLoop, clLife, clAddrs, clBeats, clKnown, clConns, clDial, clLate, clDead, clMissed, clBroken, clLeft>>

Put(f, k, v) == [x \in DOMAIN f \cup {k} |-> IF x = k THEN v ELSE f[x]]
Drop(f, ks) == [x \in DOMAIN f \ ks |-> f[x]]

-----------------------------------------------------------------------------
(* The batcher.                                                            *)

Addrs == {ClItems[p].addr : p \in DOMAIN ClItems}

NewGRPCBatchDispatcher ==
    /\ clBuf = <<>> /\ clTimer = {} /\ clFlush = [a \in Addrs |-> 0] /\ clCalls = {} /\ clClosed = FALSE
    /\ clSubmit = [p \in DOMAIN ClItems |-> "new"] /\ clFailed = {}

Waiting(a) == IF a \in DOMAIN clBuf THEN clBuf[a] ELSE <<>>

Submit_ArmsOnce(p) ==
    LET a == ClItems[p].addr  n == Len(Waiting(a)) + 1 IN
    /\ clSubmit[p] = "new"
    /\ IF clClosed
       THEN clSubmit' = [clSubmit EXCEPT ![p] = "given up"] /\ UNCHANGED <<clBuf, clTimer, clFlush>>
       ELSE /\ clSubmit' = [clSubmit EXCEPT ![p] = "waits"]
            /\ clBuf' = Put(clBuf, a, Append(Waiting(a), p))
            /\ clTimer' = IF \A q \in DOMAIN ClItems : clSubmit[q] = "new" THEN clTimer \cup {a} ELSE clTimer
            /\ clFlush' = [clFlush EXCEPT ![a] = IF n >= ClMaxBatch THEN @ + 1 ELSE @]
    /\ UNCHANGED <<clCalls, clClosed, clFailed>>

\* Submit: the first instruction arms the timer, the last one that fits flushes.
Submit(p) ==
    LET a == ClItems[p].addr  n == Len(Waiting(a)) + 1 IN
    /\ clSubmit[p] = "new"
    /\ IF clClosed
       THEN clSubmit' = [clSubmit EXCEPT ![p] = "given up"] /\ UNCHANGED <<clBuf, clTimer, clFlush>>
       ELSE /\ clSubmit' = [clSubmit EXCEPT ![p] = "waits"]
            /\ clBuf' = Put(clBuf, a, Append(Waiting(a), p))
            /\ clTimer' = IF n = 1 THEN clTimer \cup {a} ELSE clTimer
            /\ clFlush' = [clFlush EXCEPT ![a] = IF n >= ClMaxBatch THEN @ + 1 ELSE @]
    /\ UNCHANGED <<clCalls, clClosed, clFailed>>

\* The context of a caller ends: it goes on with PubSub.
GiveUp(p) ==
    /\ clSubmit[p] = "waits" /\ clSubmit' = [clSubmit EXCEPT ![p] = "given up"]
    /\ UNCHANGED <<clBuf, clTimer, clFlush, clCalls, clClosed, clFailed>>

TimerFires(a) ==
    /\ a \in clTimer /\ clTimer' = clTimer \ {a}
    /\ clFlush' = [clFlush EXCEPT ![a] = @ + 1]
    /\ UNCHANGED <<clBuf, clCalls, clClosed, clSubmit, clFailed>>

\* flush: what waits is taken, with its timer; a flush that comes late finds
\* nothing, or a younger batch.
flush(a) ==
    /\ clFlush[a] > 0 /\ clFlush' = [clFlush EXCEPT ![a] = @ - 1]
    /\ IF Waiting(a) = <<>> THEN UNCHANGED <<clBuf, clTimer, clCalls>>
       ELSE /\ clCalls' = clCalls \cup {<<a, Waiting(a)>>}
            /\ clBuf' = Drop(clBuf, {a}) /\ clTimer' = clTimer \ {a}
    /\ UNCHANGED <<clClosed, clSubmit, clFailed>>

\* The operation on the wire: both kinds of group broadcast are one, and a global
\* broadcast has none.
ToProtoDispatchOperation(op) == CASE op = "groups" -> "group" [] op = "broadcast" -> "unspecified" [] OTHER -> op
FromProtoDispatchOperation(op) == IF op = "unspecified" THEN "" ELSE op
toProtoDispatchItem(it) == [it EXCEPT !.op = ToProtoDispatchOperation(it.op)]

\* A send says whether it was delivered and whether the user is there, a kick how
\* many connections it closed; the others succeed; an unknown operation is an error.
dispatchBatchItem(it) ==
    LET op == FromProtoDispatchOperation(it.op) IN
    [success |-> op # "" /\ (op = "send" => it.there = "yes"), online |-> op = "send" /\ it.there # "no",
     error |-> op = "" \/ (op = "send" /\ it.there # "yes"), count |-> IF it.there = "no" THEN 0 ELSE 1]

\* One result per instruction, in order.
BatchDispatch(items) == [i \in DOMAIN items |-> dispatchBatchItem(items[i])]

\* A send that did not succeed is classified before its error is looked at.
classifyOutcome(op, r) ==
    IF op = "send" /\ ~ r.success THEN IF r.online THEN "rejected" ELSE "miss"
    ELSE IF r.error THEN "fallback"
    ELSE IF op = "kick" /\ r.count = 0 THEN "miss" ELSE "delivered"

\* sendBatch: the results, or none when the call fails (the breaker is open, there is
\* no connection, a timeout).
sendBatch(items) == {BatchDispatch(items)} \cup IF Cardinality(clFailed) < ClFailures THEN {<<>>} ELSE {}

\* sendAndResolve: every instruction gets its own result, or all fall back.  Who has
\* given up does not hear it.
sendAndResolve(call) ==
    LET ps == call[2]
        Place(p) == CHOOSE j \in DOMAIN ps : ps[j] = p
        items == [i \in DOMAIN ps |-> toProtoDispatchItem(ClItems[ps[i]])]
    IN
    /\ call \in clCalls /\ clCalls' = clCalls \ {call}
    /\ \E results \in sendBatch(items) :
          /\ clSubmit' = [p \in DOMAIN clSubmit |->
                IF p \notin Range(ps) \/ clSubmit[p] # "waits" THEN clSubmit[p]
                ELSE IF Place(p) \in DOMAIN results THEN classifyOutcome(ClItems[p].op, results[Place(p)]) ELSE "fallback"]
          /\ clFailed' = IF results = <<>> THEN clFailed \cup Range(ps) ELSE clFailed
    /\ UNCHANGED <<clBuf, clTimer, clFlush, clClosed>>

\* Close: no more instructions; what waits is flushed.
CloseDispatcher ==
    /\ ~ clClosed /\ clClosed' = TRUE
    /\ clFlush' = [a \in Addrs |-> clFlush[a] + IF a \in DOMAIN clBuf THEN 1 ELSE 0]
    /\ UNCHANGED <<clBuf, clTimer, clCalls, clSubmit, clFailed>>

GbRuns(a) == TimerFires(a) \/ flush(a) \/ \E call \in clCalls : call[1] = a /\ sendAndResolve(call)
GbNext == (\E p \in DOMAIN ClItems : Submit(p) \/ GiveUp(p)) \/ CloseDispatcher \/ \E a \in Addrs : GbRuns(a)
GbFairness == \A a \in Addrs : WF_clGbVars(TimerFires(a)) /\ WF_clGbVars(flush(a)) /\ WF_clGbVars(\E call \in clCalls : call[1] = a /\ sendAndResolve(call))

-----------------------------------------------------------------------------
(* The cache and the merged queries.                                       *)

NewNodeIndexCache ==
    /\ clCache = <<>> /\ clSize = 0 /\ clFlight = <<>> /\ clPanicked = 0
    /\ clAt = [l \in Lookups |-> "load"] /\ clSaw = [l \in Lookups |-> l]
    /\ clSweep = [l \in Lookups |-> {}]

Goes(l, where) == clAt' = [clAt EXCEPT ![l] = where]

Expires(u) ==
    /\ u \in DOMAIN clCache /\ ~ clCache[u].dead /\ clCache' = [clCache EXCEPT ![u].dead = TRUE]
    /\ UNCHANGED <<clSize, clAt, clSaw, clSweep, clFlight, clPanicked>>

\* load: a hit ends the lookup; an entry that expired is dropped, if it is still
\* the one that was seen.
LoadEntry(l) ==
    LET u == ClLookups[l] IN
    /\ clAt[l] = "load"
    /\ IF u \notin DOMAIN clCache THEN Goes(l, "do") /\ UNCHANGED clSaw
       ELSE Goes(l, IF clCache[u].dead THEN "drop" ELSE "done") /\ clSaw' = [clSaw EXCEPT ![l] = clCache[u].by]
    /\ UNCHANGED <<clCache, clSize, clSweep, clFlight, clPanicked>>

Same(l) == LET u == ClLookups[l] IN u \in DOMAIN clCache /\ clCache[u].by = clSaw[l]

DropExpired(l) ==
    /\ clAt[l] = "drop" /\ Goes(l, IF Same(l) THEN "sub_do" ELSE "do")
    /\ clCache' = IF Same(l) THEN Drop(clCache, {ClLookups[l]}) ELSE clCache
    /\ UNCHANGED <<clSize, clSaw, clSweep, clFlight, clPanicked>>

\* The size follows in a step of its own.
CountDown(l) ==
    /\ clAt[l] \in {"sub_do", "sub_evict", "sub_done"} /\ clSize' = clSize - 1
    /\ Goes(l, CASE clAt[l] = "sub_do" -> "do" [] clAt[l] = "sub_evict" -> "evict" [] OTHER -> "done")
    /\ UNCHANGED <<clCache, clSaw, clSweep, clFlight, clPanicked>>

\* Do: whoever finds a query for the user waits for it.
Do(l) ==
    LET u == ClLookups[l] IN
    /\ clAt[l] = "do"
    /\ IF u \in DOMAIN clFlight THEN Goes(l, "wait") /\ clSaw' = [clSaw EXCEPT ![l] = clFlight[u]] /\ UNCHANGED clFlight
       ELSE Goes(l, "lead") /\ clFlight' = Put(clFlight, u, l) /\ UNCHANGED clSaw
    /\ UNCHANGED <<clCache, clSize, clSweep, clPanicked>>

\* The query returns, and all who waited have the nodes; a query that fails or
\* panics ends for all of them too, and the next one asks again.
QueryEnds(l) ==
    /\ clAt[l] = "lead"
    /\ \E ok \in BOOLEAN :
          /\ ok \/ clPanicked < ClPanics
          /\ clAt' = [x \in DOMAIN clAt |-> IF x = l \/ (clAt[x] = "wait" /\ clSaw[x] = l) THEN IF ok THEN "store" ELSE "done" ELSE clAt[x]]
          /\ clPanicked' = IF ok THEN clPanicked ELSE clPanicked + 1
    /\ clFlight' = Drop(clFlight, {ClLookups[l]})
    /\ UNCHANGED <<clCache, clSize, clSaw, clSweep>>

\* store: the entry is swapped in; a new one is counted.
StoreEntry_CountsAgain(l) ==
    LET u == ClLookups[l] IN
    /\ clAt[l] = "store" /\ Goes(l, "add")
    /\ clCache' = Put(clCache, u, [by |-> l, dead |-> FALSE])
    /\ clSaw' = [clSaw EXCEPT ![l] = l]
    /\ UNCHANGED <<clSize, clSweep, clFlight, clPanicked>>

StoreEntry(l) ==
    LET u == ClLookups[l] IN
    /\ clAt[l] = "store" /\ Goes(l, IF u \in DOMAIN clCache THEN "done" ELSE "add")
    /\ clCache' = Put(clCache, u, [by |-> l, dead |-> FALSE])
    /\ clSaw' = [clSaw EXCEPT ![l] = l]
    /\ UNCHANGED <<clSize, clSweep, clFlight, clPanicked>>

CountUp(l) ==
    /\ clAt[l] = "add" /\ clSize' = clSize + 1
    /\ IF clSize + 1 > ClCacheCap
       THEN Goes(l, "evict") /\ clSweep' = [clSweep EXCEPT ![l] = {u \in DOMAIN clCache : clCache[u].dead}]
       ELSE Goes(l, "done") /\ UNCHANGED clSweep
    /\ UNCHANGED <<clCache, clSaw, clFlight, clPanicked>>

\* evictExpired: one entry that had expired after the other, unless somebody else
\* dropped it; then, if there is still no room, the new entry is taken back.
evictExpired(l) ==
    /\ clAt[l] = "evict"
    /\ \/ \E u \in clSweep[l] :
             /\ clSweep' = [clSweep EXCEPT ![l] = @ \ {u}]
             /\ IF u \in DOMAIN clCache /\ clCache[u].dead
                THEN clCache' = Drop(clCache, {u}) /\ Goes(l, "sub_evict") ELSE UNCHANGED <<clCache, clAt>>
       \/ /\ clSweep[l] = {} /\ UNCHANGED clSweep
          /\ IF clSize > ClCacheCap /\ Same(l)
             THEN clCache' = Drop(clCache, {ClLookups[l]}) /\ Goes(l, "sub_done")
             ELSE Goes(l, "done") /\ UNCHANGED clCache
    /\ UNCHANGED <<clSize, clSaw, clFlight, clPanicked>>

NcStep(l) == LoadEntry(l) \/ DropExpired(l) \/ CountDown(l) \/ Do(l) \/ QueryEnds(l) \/ StoreEntry(l) \/ CountUp(l) \/ evictExpired(l)
NcNext == (\E u \in {ClLookups[l] : l \in Lookups} : Expires(u)) \/ \E l \in Lookups : NcStep(l)
NcFairness == \A l \in Lookups : WF_clNcVars(NcStep(l))

-----------------------------------------------------------------------------
(* The registry and the pool.                                              *)

ClNone == <<>>

InitNodeGRPC ==
    /\ clRun = [n \in ClNodes |-> "down"] /\ clLoop = [n \in ClNodes |-> "off"] /\ clLife = [n \in ClNodes |-> 0]
    /\ clAddrs = <<>> /\ clBeats = <<>> /\ clKnown = [n \in ClNodes |-> <<>>] /\ clConns = [n \in ClNodes |-> {}]
    /\ clDial = [n \in ClNodes |-> ClNone] /\ clLate = [n \in ClNodes |-> {}] /\ clDead = [n \in ClNodes |-> {}]
    /\ clMissed = {} /\ clBroken = 0 /\ clLeft = {}

Own(n) == <<n, clLife[n]>>
LoopAt(n, where) == clLoop' = [clLoop EXCEPT ![n] = where]
RedisFails == clBroken < ClErrors /\ clBroken' = clBroken + 1

\* startNodeGRPC: a process starts, at an address of its own; Register runs on
\* its own goroutine.
startNodeGRPC(n) ==
    /\ clRun[n] = "down" /\ clLife[n] < ClLives[n]
    /\ clRun' = [clRun EXCEPT ![n] = "up"] /\ LoopAt(n, "register") /\ clLife' = [clLife EXCEPT ![n] = @ + 1]
    /\ clLeft' = clLeft \ {n}
    /\ UNCHANGED <<clAddrs, clBeats, clKnown, clConns, clDial, clLate, clDead, clMissed, clBroken>>

\* What the process of a node held is gone with it.
ProcessEnds(n) ==
    /\ clRun' = [clRun EXCEPT ![n] = "down"] /\ LoopAt(n, "off")
    /\ clKnown' = [clKnown EXCEPT ![n] = <<>>] /\ clConns' = [clConns EXCEPT ![n] = {}]
    /\ clDial' = [clDial EXCEPT ![n] = ClNone] /\ clLate' = [clLate EXCEPT ![n] = {}]
    /\ clDead' = [clDead EXCEPT ![n] = {}] /\ clMissed' = clMissed \ {n}
    /\ UNCHANGED <<clLife, clAddrs, clBeats, clBroken>>

\* registerNode, by Register or at a tick: address and heartbeat together.  If the
\* first one fails Register returns and no loop starts; a later one is logged.
registerNode(n) ==
    LET first == clLoop[n] = "register" IN
    /\ clLoop[n] \in {"register", "idle"}
    /\ \/ /\ clAddrs' = Put(clAddrs, n, Own(n)) /\ clBeats' = Put(clBeats, n, "fresh")
          /\ LoopAt(n, IF first THEN "first_refresh" ELSE "refresh") /\ clMissed' = clMissed \ {n} /\ UNCHANGED clBroken
       \/ /\ RedisFails /\ clMissed' = clMissed \cup {n} /\ LoopAt(n, IF first THEN "off" ELSE "refresh")
          /\ UNCHANGED <<clAddrs, clBeats>>
    /\ UNCHANGED <<clRun, clLife, clKnown, clConns, clDial, clLate, clDead, clLeft>>

AfterRefresh(n) == IF clLoop[n] \in {"first_refresh", "first_delete"} THEN "start" ELSE "idle"

\* notifyEvicted and Remove: the pool drops the connection to an address that is gone.
\* Of a node that expired it is the address in Redis that goes.
Evicted(n, gone, expired) ==
    {clKnown[n][m] : m \in gone} \cup {clAddrs[m] : m \in expired}
        \cup {clKnown[n][m] : m \in {x \in DOMAIN clKnown[n] \ (gone \cup expired) : clKnown[n][x] # clAddrs[x]}}

RemoveConns(n, out) == clConns' = [clConns EXCEPT ![n] = @ \ out]

refreshNodes(n) ==
    LET first == clLoop[n] = "first_refresh"
        known == clKnown[n]
        gone == DOMAIN known \ DOMAIN clAddrs
        expired == {m \in DOMAIN clAddrs : m \notin DOMAIN clBeats \/ clBeats[m] = "stale"}
        out == Evicted(n, gone, expired)
    IN
    /\ clLoop[n] \in {"first_refresh", "refresh"}
    /\ \/ /\ clKnown' = [clKnown EXCEPT ![n] = Drop(clAddrs, expired)]
          /\ RemoveConns(n, out)
          /\ clLate' = [clLate EXCEPT ![n] = (@ \ out) \cup {known[m] : m \in {x \in expired \cap DOMAIN known : known[x] # clAddrs[x]}}]
          /\ clDead' = [clDead EXCEPT ![n] = expired]
          /\ LoopAt(n, IF expired = {} THEN AfterRefresh(n) ELSE IF first THEN "first_delete" ELSE "delete")
          /\ UNCHANGED clBroken
       \/ RedisFails /\ LoopAt(n, IF first THEN "off" ELSE "idle") /\ UNCHANGED <<clKnown, clConns, clLate, clDead>>
    /\ UNCHANGED <<clRun, clLife, clAddrs, clBeats, clDial, clMissed, clLeft>>

\* The expired nodes are deleted, on what was read before: one of them may be back.
DeleteExpired(n) ==
    /\ clLoop[n] \in {"first_delete", "delete"} /\ LoopAt(n, AfterRefresh(n))
    /\ \/ clAddrs' = Drop(clAddrs, clDead[n]) /\ clBeats' = Drop(clBeats, clDead[n]) /\ UNCHANGED clBroken
       \/ RedisFails /\ UNCHANGED <<clAddrs, clBeats>>
    /\ clDead' = [clDead EXCEPT ![n] = {}]
    /\ UNCHANGED <<clRun, clLife, clKnown, clConns, clDial, clLate, clMissed, clLeft>>

\* Register ends: the loop starts unless the registry was stopped.
RegisterReturns(n) ==
    /\ clLoop[n] = "start" /\ LoopAt(n, IF clRun[n] = "up" THEN "idle" ELSE "off")
    /\ UNCHANGED <<clRun, clLife, clAddrs, clBeats, clKnown, clConns, clDial, clLate, clDead, clMissed, clBroken, clLeft>>

\* refreshLoop ends when the registry is stopped, maybe after one more tick.
refreshLoop(n) ==
    /\ clLoop[n] = "idle" /\ clRun[n] # "up" /\ LoopAt(n, "off")
    /\ UNCHANGED <<clRun, clLife, clAddrs, clBeats, clKnown, clConns, clDial, clLate, clDead, clMissed, clBroken, clLeft>>

\* Time passes: the heartbeat of a node that does not refresh it gets too old, and
\* when nobody has registered for as long the keys expire.
HeartbeatAges(n) ==
    /\ n \in DOMAIN clBeats /\ clBeats[n] = "fresh"
    /\ clRun[n] # "up" \/ n \in clMissed \/ clLoop[n] = "off"
    /\ clBeats' = [clBeats EXCEPT ![n] = "stale"]
    /\ UNCHANGED <<clRun, clLoop, clLife, clAddrs, clKnown, clConns, clDial, clLate, clDead, clMissed, clBroken, clLeft>>

KeysExpire ==
    /\ DOMAIN clBeats # {} /\ \A n \in DOMAIN clBeats : clBeats[n] = "stale"
    /\ clAddrs' = <<>> /\ clBeats' = <<>>
    /\ UNCHANGED <<clRun, clLoop, clLife, clKnown, clConns, clDial, clLate, clDead, clMissed, clBroken, clLeft>>

\* A message is routed to m: its address is looked up ...
GetNodeAddr(n, m) ==
    /\ n \in ClDialers /\ clRun[n] = "up" /\ clDial[n] = ClNone /\ m # n /\ m \in DOMAIN clKnown[n]
    /\ clDial' = [clDial EXCEPT ![n] = clKnown[n][m]]
    /\ UNCHANGED <<clRun, clLoop, clLife, clAddrs, clBeats, clKnown, clConns, clLate, clDead, clMissed, clBroken, clLeft>>

\* ... and then connected to, whatever the registry has learned meanwhile.
GetClient(n) ==
    /\ clRun[n] # "down" /\ clDial[n] # ClNone /\ clDial' = [clDial EXCEPT ![n] = ClNone]
    /\ clConns' = [clConns EXCEPT ![n] = @ \cup {clDial[n]}]
    /\ clLate' = [clLate EXCEPT ![n] = IF clDial[n] \in {clKnown[n][m] : m \in DOMAIN clKnown[n]} THEN @ ELSE @ \cup {clDial[n]}]
    /\ UNCHANGED <<clRun, clLoop, clLife, clAddrs, clBeats, clKnown, clDead, clMissed, clBroken, clLeft>>

Stepped(n, from, to) == clRun[n] = from /\ clRun' = [clRun EXCEPT ![n] = to]

\* Stop, and wait for the refresh loop; a Register under way is not waited for.
StopRegistry(n) ==
    /\ n \in ClMortals /\ Stepped(n, "up", "stopped")
    /\ clLeft' = IF clLoop[n] \in {"register", "first_refresh", "first_delete", "start"} THEN clLeft ELSE clLeft \cup {n}
    /\ UNCHANGED <<clLoop, clLife, clAddrs, clBeats, clKnown, clConns, clDial, clLate, clDead, clMissed, clBroken>>

UnregisterNode_First(n) ==
    /\ Stepped(n, "stopped", "left") /\ clAddrs' = Drop(clAddrs, {n}) /\ clBeats' = Drop(clBeats, {n}) /\ UNCHANGED <<clBroken, clLeft>>
    /\ UNCHANGED <<clLoop, clLife, clKnown, clConns, clDial, clLate, clDead, clMissed>>

\* Unregister, after Stop has returned.
UnregisterNode(n) ==
    /\ Stepped(n, "stopped", "left") /\ clLoop[n] \notin {"idle", "refresh", "delete"}
    /\ \/ clAddrs' = Drop(clAddrs, {n}) /\ clBeats' = Drop(clBeats, {n}) /\ UNCHANGED <<clBroken, clLeft>>
       \/ RedisFails /\ clLeft' = clLeft \ {n} /\ UNCHANGED <<clAddrs, clBeats>>
    /\ UNCHANGED <<clLoop, clLife, clKnown, clConns, clDial, clLate, clDead, clMissed>>

\* The server stops, the batcher and the pool close, the process ends.
stopNodeGRPC(n) == clRun[n] = "left" /\ ProcessEnds(n) /\ UNCHANGED clLeft

\* A process dies.
CrashNode(n) ==
    /\ n \in ClMortals /\ clRun[n] \in {"up", "stopped"} /\ ProcessEnds(n) /\ clLeft' = clLeft \ {n}

NrStep(n) == registerNode(n) \/ refreshNodes(n) \/ DeleteExpired(n) \/ RegisterReturns(n) \/ refreshLoop(n)
NrNext ==
    \/ \E n \in ClNodes : \/ startNodeGRPC(n) \/ NrStep(n) \/ GetClient(n) \/ \E m \in ClNodes : GetNodeAddr(n, m)
                          \/ StopRegistry(n) \/ UnregisterNode(n) \/ stopNodeGRPC(n) \/ CrashNode(n) \/ HeartbeatAges(n)
    \/ KeysExpire
\* The ticker of a refresh loop never stops while the process runs.
NrFairness == \A n \in ClNodes : WF_clNrVars(NrStep(n))

-----------------------------------------------------------------------------
(* The three side by side.                                                 *)

LinksInit == NewGRPCBatchDispatcher /\ NewNodeIndexCache /\ InitNodeGRPC

LinksNext ==
    \/ GbNext /\ UNCHANGED <<clNcVars, clNrVars>>
    \/ NcNext /\ UNCHANGED <<clGbVars, clNrVars>>
    \/ NrNext /\ UNCHANGED <<clGbVars, clNcVars>>

LinksSpec == LinksInit /\ [][LinksNext]_<<clGbVars, clNcVars, clNrVars>>

-----------------------------------------------------------------------------
(* Properties                                                              *)

\* What an instruction comes to: no kick or message finds a user who is not there.
Due(p) == LET it == ClItems[p] IN
    IF it.op = "broadcast" THEN "fallback" ELSE IF it.op \in {"group", "groups"} \/ it.there = "yes" THEN "delivered"
    ELSE IF it.there = "no" THEN "miss" ELSE IF it.op = "send" THEN "rejected" ELSE "delivered"

\* Every instruction handed to the batcher is answered, also when its timer, the
\* flush of a full batch and Close meet (Submit, flush, Close), and with what became
\* of that instruction on the target, not of another one of its batch; it falls
\* back to PubSub only if its call failed (sendAndResolve, classifyOutcome).
SubmitIsAnswered ==
    []<>(\A p \in DOMAIN ClItems :
            clSubmit[p] \in {"new", Due(p), "given up"} \/ (clSubmit[p] = "fallback" /\ p \in clFailed))

Adding == {l \in Lookups : clAt[l] = "add"}
Subtracting == {l \in Lookups : clAt[l] \in {"sub_do", "sub_evict", "sub_done"}}
\* The size of the node index cache is the number of its entries, up to the calls
\* that have changed one and not the other yet, whatever lookups, expiries, sweeps
\* and overwrites run at once (load, store, evictExpired).
CacheCountIsExact == clSize = Cardinality(DOMAIN clCache) - Cardinality(Adding) + Cardinality(Subtracting)

\* Whoever joined the query of another lookup gets away from it, also when that
\* query panics (Do).
JoinersReturn == []<>(\A l \in Lookups : clAt[l] # "wait")

\* A node that has unregistered after its refresh loop ended does not come back into
\* the registry by itself (stopNodeGRPC).
UnregisteredStaysOut == \A n \in clLeft : clRun[n] \in {"left", "down"} => n \notin DOMAIN clAddrs

Refreshing(n) == clRun[n] = "up" /\ clLoop[n] # "off"

\* A node that stays up and whose registration succeeded is again and again found, at
\* the address it has now, by every other one, also when somebody deleted it on the
\* strength of an old heartbeat (refreshOnce, refreshNodes).
LiveNodeIsFound == \A n \in ClNodes : \A m \in ClNodes \ {n} :
    <>[](Refreshing(n) /\ Refreshing(m)) => []<>(n \in DOMAIN clKnown[m] /\ clKnown[m][n] = Own(n))

\* The pool has no connection to an address that the registry no longer knows, unless it
\* was dialled after it was evicted, or belonged to a node that moved and expired
\* between two refreshes (wireNodeEvictionCleanup, refreshNodes).
PoolFollowsRegistry == \A n \in ClNodes : clConns[n] \subseteq {clKnown[n][m] : m \in DOMAIN clKnown[n]} \cup clLate[n]

\* What a node keeps of the others agrees with its source: the size of the node
\* cache (load, store), the registry after a stop, the pool after an eviction.
LinksAgree == CacheCountIsExact /\ UnregisteredStaysOut /\ PoolFollowsRegistry

\* Every call that goes through a node's links comes back, and the nodes find each
\* other again whatever failed: Submit is answered by a flush, a joiner of a query
\* returns, a running node is found at its address.
LinksRecover == SubmitIsAnswered /\ JoinersReturn /\ LiveNodeIsFound
=============================================================================
