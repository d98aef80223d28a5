--------------------------- MODULE AgentWorkload ---------------------------
(***************************************************************************)
(* The number of tasks of every agent of a namespace, from which the least *)
(* loaded agent is chosen.  Redis holds it twice per dimension, as a       *)
(* string and as a score of a sorted set; a row per agent in the database  *)
(* follows through upserts that are not ordered and may fail.  Everything  *)
(* that counts is one Lua script; Reload and Get are several calls.        *)
(*                                                                         *)
(* realtime is the dimension that is handed out from; "bucket" stands for  *)
(* the hourly to yearly statistics, whose keys change with the time.  The  *)
(* callers are the embedder's: an agent is offered to Acquire between the  *)
(* end of its Reload and its Remove, and is not removed while it reloads.  *)
(***************************************************************************)
EXTENDS Integers, FiniteSets

CONSTANTS
    WlAgents,
    WlMaxTasks,     \* bound on the tasks of an agent
    WlMaxUpserts,   \* bound on upserts under way; one more has failed
    WlMaxCalls      \* bound on calls

ASSUME WlAssumption == WlMaxTasks \in Nat /\ WlMaxUpserts \in Nat /\ WlMaxCalls \in Nat

WlDims == {"realtime", "bucket"}
WlAbsent == -1

VARIABLES
    wlKey,      \* the string per agent and dimension, WlAbsent for none
    wlScore,    \* the score in the sorted set
    wlRow,      \* the realtime row
    wlUpserts,  \* upserts under way
    wlReload,   \* ReloadAgentWorkload: its place and the value it holds
    wlGet,      \* GetAgentWorkload: the row read and not yet written back
    wlTasks,    \* tasks the agent has
    wlWiped,    \* Redis has lost its keys
    wlCalls     \* calls so far

wlRedis == <<wlKey, wlScore>>
wlVars == <<wlRedis, wlRow, wlUpserts, wlReload, wlGet, wlTasks, wlWiped, wlCalls>>

WlInit ==
    /\ wlKey = [a \in WlAgents |-> [d \in WlDims |-> WlAbsent]]
    /\ wlScore = wlKey
    /\ wlRow = [a \in WlAgents |-> WlAbsent]
    /\ wlUpserts = {}
    /\ wlReload = [a \in WlAgents |-> [pc |-> "off", v |-> 0]]
    /\ wlGet = wlRow
    /\ wlTasks = [a \in WlAgents |-> 0]
    /\ wlWiped = FALSE
    /\ wlCalls = 0
-----------------------------------------------------------------------------
Ready(a) == wlReload[a].pc = "ready"
ReloadAt(a, pc, v) == wlReload' = [wlReload EXCEPT ![a] = [pc |-> pc, v |-> v]]
WlCalled == wlCalls < WlMaxCalls /\ wlCalls' = wlCalls + 1

\* asyncSyncMultiDimensionToDB.
Upsert(a, v) ==
    wlUpserts' = IF Cardinality(wlUpserts) < WlMaxUpserts THEN wlUpserts \cup {<<a, v>>} ELSE wlUpserts

Floor(v) == IF v < 0 THEN 0 ELSE v
Count(v) == IF v = WlAbsent THEN 0 ELSE v

\* incrementMultiDimension, from given scores: every dimension, never below 0.
Increment(a, delta, scores) ==
    /\ wlKey' = [wlKey EXCEPT ![a] = [d \in WlDims |-> Floor(Count(wlKey[a][d]) + delta)]]
    /\ wlScore' = [scores EXCEPT ![a] = wlKey'[a]]
    /\ Upsert(a, wlKey'[a]["realtime"])

\* setAllDimensions.
setAllDimensions(a, v) ==
    /\ wlKey' = [wlKey EXCEPT ![a] = [d \in WlDims |-> v]]
    /\ wlScore' = [wlScore EXCEPT ![a] = [d \in WlDims |-> v]]
    /\ Upsert(a, v)

syncToZSet_Overwrite(a, v) ==
    /\ wlScore' = [wlScore EXCEPT ![a] = [d \in WlDims |-> v]]
    /\ UNCHANGED wlKey

\* syncAllDimensionsToZSet: ZADD NX.
syncToZSet(a, v) ==
    /\ wlScore' = [wlScore EXCEPT ![a] = [d \in WlDims |-> IF wlScore[a][d] = WlAbsent THEN v ELSE wlScore[a][d]]]
    /\ UNCHANGED wlKey

\* The scores after the agents asked about got one from their strings.
Backfilled(asked, dim) ==
    [a \in WlAgents |-> [d \in WlDims |->
        IF a \in asked /\ d = dim /\ wlScore[a][d] = WlAbsent THEN Count(wlKey[a][d]) ELSE wlScore[a][d]]]

Least(asked, scores, dim) == {a \in asked : \A b \in asked : scores[a][dim] <= scores[b][dim]}
-----------------------------------------------------------------------------
\* ReloadAgentWorkload when an agent comes online: Redis, else the database,
\* else 0.  An error ends it.
ReloadGet(a) ==
    /\ wlReload[a].pc = "off" /\ WlCalled
    /\ \/ wlKey[a]["realtime"] # WlAbsent /\ ReloadAt(a, "sync", wlKey[a]["realtime"])
       \/ wlKey[a]["realtime"] = WlAbsent /\ ReloadAt(a, "row", 0)
    /\ UNCHANGED <<wlRedis, wlRow, wlUpserts, wlGet, wlTasks, wlWiped>>

ReloadSync(a) ==
    /\ wlReload[a].pc = "sync"
    /\ syncToZSet(a, wlReload[a].v)
    /\ ReloadAt(a, "ready", 0)
    /\ UNCHANGED <<wlRow, wlUpserts, wlGet, wlTasks, wlWiped, wlCalls>>

ReloadRow(a) ==
    /\ wlReload[a].pc = "row"
    /\ ReloadAt(a, "set", Count(wlRow[a]))
    /\ UNCHANGED <<wlRedis, wlRow, wlUpserts, wlGet, wlTasks, wlWiped, wlCalls>>

ReloadSet(a) ==
    /\ wlReload[a].pc = "set"
    /\ setAllDimensions(a, wlReload[a].v)
    /\ ReloadAt(a, "ready", 0)
    /\ UNCHANGED <<wlRow, wlGet, wlTasks, wlWiped, wlCalls>>

ReloadFails(a) ==
    /\ wlReload[a].pc \in {"sync", "row", "set"}
    /\ ReloadAt(a, "off", 0)
    /\ UNCHANGED <<wlRedis, wlRow, wlUpserts, wlGet, wlTasks, wlWiped, wlCalls>>

\* RemoveAgentWorkload: the realtime score goes, the string stays.
RemoveAgentWorkload(a) ==
    /\ Ready(a) /\ WlCalled
    /\ wlScore' = [wlScore EXCEPT ![a]["realtime"] = WlAbsent]
    /\ ReloadAt(a, "off", 0)
    /\ UNCHANGED <<wlKey, wlRow, wlUpserts, wlGet, wlTasks, wlWiped>>

\* AcquireLeastLoadedAgent: choose and count in one script.
AcquireLeastLoadedAgent(asked) ==
    LET scores == Backfilled(asked, "realtime") IN
    /\ asked # {} /\ WlCalled
    /\ \A a \in asked : Ready(a)
    /\ \E a \in Least(asked, scores, "realtime") :
        /\ wlTasks[a] < WlMaxTasks
        /\ Increment(a, 1, scores)
        /\ wlTasks' = [wlTasks EXCEPT ![a] = @ + 1]
    /\ UNCHANGED <<wlRow, wlReload, wlGet, wlWiped>>

\* GetLeastLoadedAgent only fills in scores.
GetLeastLoadedAgent(asked, dim) ==
    /\ asked # {} /\ WlCalled
    /\ wlScore' = Backfilled(asked, dim)
    /\ UNCHANGED <<wlKey, wlRow, wlUpserts, wlReload, wlGet, wlTasks, wlWiped>>

IncrementAgentWorkload(a) ==
    /\ Ready(a) /\ wlTasks[a] < WlMaxTasks /\ WlCalled
    /\ Increment(a, 1, wlScore)
    /\ wlTasks' = [wlTasks EXCEPT ![a] = @ + 1]
    /\ UNCHANGED <<wlRow, wlReload, wlGet, wlWiped>>

\* A task ends, whether its agent is online, coming online or gone.
DecrementAgentWorkload(a) ==
    /\ wlTasks[a] > 0 /\ WlCalled
    /\ Increment(a, -1, wlScore)
    /\ wlTasks' = [wlTasks EXCEPT ![a] = @ - 1]
    /\ UNCHANGED <<wlRow, wlReload, wlGet, wlWiped>>

ForceSetAgentWorkload(a, v) ==
    /\ Ready(a) /\ WlCalled
    /\ setAllDimensions(a, v)
    /\ wlTasks' = [wlTasks EXCEPT ![a] = v]
    /\ UNCHANGED <<wlRow, wlReload, wlGet, wlWiped>>

\* GetAgentWorkload writes the row back when Redis has no string.
GetAgentWorkload(a) ==
    /\ wlKey[a]["realtime"] = WlAbsent /\ wlRow[a] # WlAbsent /\ wlGet[a] = WlAbsent /\ WlCalled
    /\ wlGet' = [wlGet EXCEPT ![a] = wlRow[a]]
    /\ UNCHANGED <<wlRedis, wlRow, wlUpserts, wlReload, wlTasks, wlWiped>>

GetWritesBack(a) ==
    /\ wlGet[a] # WlAbsent
    /\ wlKey' = [wlKey EXCEPT ![a]["realtime"] = wlGet[a]]
    /\ wlGet' = [wlGet EXCEPT ![a] = WlAbsent]
    /\ UNCHANGED <<wlScore, wlRow, wlUpserts, wlReload, wlTasks, wlWiped, wlCalls>>

\* An upsert is executed, in no particular order, or times out.
UpsertEnds(u) ==
    /\ u \in wlUpserts
    /\ wlUpserts' = wlUpserts \ {u}
    /\ wlRow' = [wlRow EXCEPT ![u[1]] = u[2]] \/ UNCHANGED wlRow
    /\ UNCHANGED <<wlRedis, wlReload, wlGet, wlTasks, wlWiped, wlCalls>>

\* The next hour begins: the bucket has new keys.
NextBucket ==
    /\ WlCalled
    /\ wlKey' = [a \in WlAgents |-> [wlKey[a] EXCEPT !["bucket"] = WlAbsent]]
    /\ wlScore' = [a \in WlAgents |-> [wlScore[a] EXCEPT !["bucket"] = WlAbsent]]
    /\ UNCHANGED <<wlRow, wlUpserts, wlReload, wlGet, wlTasks, wlWiped>>

RedisWiped ==
    /\ ~wlWiped /\ WlCalled
    /\ wlWiped' = TRUE
    /\ wlKey' = [a \in WlAgents |-> [d \in WlDims |-> WlAbsent]]
    /\ wlScore' = wlKey'
    /\ UNCHANGED <<wlRow, wlUpserts, wlReload, wlGet, wlTasks>>

WlNext ==
    \/ \E a \in WlAgents :
        \/ ReloadGet(a) \/ ReloadSync(a) \/ ReloadRow(a) \/ ReloadSet(a) \/ ReloadFails(a)
        \/ RemoveAgentWorkload(a) \/ IncrementAgentWorkload(a) \/ DecrementAgentWorkload(a)
        \/ \E v \in 0..WlMaxTasks : ForceSetAgentWorkload(a, v)
        \/ GetAgentWorkload(a) \/ GetWritesBack(a)
    \/ \E asked \in SUBSET WlAgents :
        \/ AcquireLeastLoadedAgent(asked)
        \/ \E d \in WlDims : GetLeastLoadedAgent(asked, d)
    \/ \E u \in wlUpserts : UpsertEnds(u)
    \/ NextBucket \/ RedisWiped

WlSpec == WlInit /\ [][WlNext]_wlVars
-----------------------------------------------------------------------------
(* Until Redis loses its keys, the two realtime counts of an agent that may *)
(* be handed out are the number of its tasks, so AcquireLeastLoadedAgent    *)
(* hands out an agent with the fewest: a Reload that overlaps the end of a  *)
(* task, another reading of the scores or a failed Reload does not bring an *)
(* old count back, and the unordered upserts never reach Redis.             *)
WorkloadIsExact ==
    ~wlWiped => \A a \in WlAgents :
        Ready(a) => wlKey[a]["realtime"] = wlTasks[a] /\ wlScore[a]["realtime"] = wlTasks[a]
=============================================================================
