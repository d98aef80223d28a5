--------------------------- MODULE GroupTopology ---------------------------
(***************************************************************************)
(* Groups.  A group id has one instance per namespace.  Redis holds, per   *)
(* instance, the record and the members, and four indexes: the groups of a *)
(* user, the groups of a namespace, the namespaces of a group id and the   *)
(* namespaces in use.  Every node caches, per group id, the members of all *)
(* its instances; a write evicts the group from the cache of its own node  *)
(* and marks it, and once per window the marks are published to the other  *)
(* nodes.  A fill is abandoned when the group was evicted since the miss.  *)
(*                                                                         *)
(* A pipeline is one step, as Redis runs the commands of one buffer        *)
(* together; between two calls of an operation anything may happen.        *)
(***************************************************************************)
EXTENDS Naturals, Sequences, FiniteSets

CONSTANTS
    GtNodes, GtGroups, GtSpaces, GtUsers,
    GtMaxMembers,   \* Group.MaxMembers of a group created with a limit
    GtCacheMembers, \* members of a group beyond which it is not cached
    GtMaxFaults,    \* bound on failed calls, failed publications and crashes
    GtScripts       \* the operations of each caller, in order

GtKinds == {"create", "add", "join", "leave", "remove", "disband", "read"}
GtCalls == [kind : GtKinds, node : GtNodes, group : GtGroups, ns : GtSpaces, user : GtUsers]

ASSUME GtAssumption ==
    /\ GtMaxMembers \in Nat /\ GtCacheMembers \in Nat /\ GtMaxFaults \in Nat
    /\ \A s \in GtScripts : s \in [DOMAIN s -> Seq(GtCalls)]

VARIABLES
    gtInfo,     \* info: per instance "none", or "open" or "limited" (MaxMembers)
    gtMembers,  \* members: per instance
    gtUser,     \* user: groups per namespace and user
    gtNs,       \* ns: groups per namespace
    gtGns,      \* gns: namespaces per group id
    gtNss,      \* nss: namespaces in use
    gtCache,    \* GroupMemberCache: per node and group
    gtGen,      \* eviction generations
    gtDirty,    \* InvalidationBroadcaster: groups marked, per node
    gtNet,      \* published and not yet handled, per node
    gtTodo,     \* calls of a caller, the current one first
    gtPc, gtAt, \* its place in it, and what it has read
    gtWrote,    \* callers whose call has written and not evicted yet
    gtLost,     \* nodes that missed the eviction of a group
    gtFaults    \* faults so far

gtStore == <<gtInfo, gtMembers, gtUser, gtNs, gtGns, gtNss>>
gtLocal == <<gtCache, gtGen, gtDirty, gtNet, gtLost>>
gtCall == <<gtTodo, gtPc, gtAt, gtWrote>>
gtVars == <<gtStore, gtLocal, gtCall, gtFaults>>

GtMissing == [kind |-> "missing", of |-> {}]
GtNoInstance == [kind |-> "none", of |-> {}]      \* the negative entry
GtListed(us) == [kind |-> "members", of |-> us]

\* What the two pipelines of GetMultiGroupMembers return together.
Aggregate(g, spaces) ==
    IF spaces = {} THEN GtNoInstance ELSE GtListed(UNION {gtMembers[<<g, ns>>] : ns \in spaces})

GtInit ==
    /\ gtInfo = [i \in GtGroups \X GtSpaces |-> "none"]
    /\ gtMembers = [i \in GtGroups \X GtSpaces |-> {}]
    /\ gtUser = [i \in GtSpaces \X GtUsers |-> {}]
    /\ gtNs = [ns \in GtSpaces |-> {}]
    /\ gtGns = [g \in GtGroups |-> {}]
    /\ gtNss = {}
    /\ gtCache = [n \in GtNodes |-> [g \in GtGroups |-> GtMissing]]
    /\ gtGen = [n \in GtNodes |-> [g \in GtGroups |-> 0]]
    /\ gtDirty = [n \in GtNodes |-> {}]
    /\ gtNet = [n \in GtNodes |-> <<>>]
    /\ gtTodo \in GtScripts
    /\ gtPc = [c \in DOMAIN gtTodo |-> "start"]
    /\ gtAt = [c \in DOMAIN gtTodo |-> [gen |-> 0, seen |-> {}]]
    /\ gtWrote = {}
    /\ gtLost = {}
    /\ gtFaults = 0
-----------------------------------------------------------------------------
GtCurrent(c) == Head(gtTodo[c])
GtStage(c, kinds, pc) == gtTodo[c] # <<>> /\ GtCurrent(c).kind \in kinds /\ gtPc[c] = pc
GtGoto(c, pc) == gtPc' = [gtPc EXCEPT ![c] = pc] /\ UNCHANGED <<gtTodo, gtAt>>
GtKeep(c, pc, at) == gtPc' = [gtPc EXCEPT ![c] = pc] /\ gtAt' = [gtAt EXCEPT ![c] = at] /\ UNCHANGED gtTodo

GtReturn(c) ==
    /\ gtTodo' = [gtTodo EXCEPT ![c] = Tail(@)]
    /\ gtPc' = [gtPc EXCEPT ![c] = "start"]
    /\ gtAt' = [gtAt EXCEPT ![c] = [gen |-> 0, seen |-> {}]]

GtFault == gtFaults < GtMaxFaults /\ gtFaults' = gtFaults + 1
GtNoFault == UNCHANGED gtFaults

createGroup_NotInUse(g, ns, limit) ==
    IF gtInfo[<<g, ns>>] # "none"
    THEN UNCHANGED <<gtInfo, gtNs, gtGns, gtNss>>
    ELSE /\ gtInfo' = [gtInfo EXCEPT ![<<g, ns>>] = limit]
         /\ gtNs' = [gtNs EXCEPT ![ns] = @ \cup {g}]
         /\ gtGns' = [gtGns EXCEPT ![g] = @ \cup {ns}]
         /\ gtNss' = IF gtNs[ns] = {} THEN gtNss ELSE gtNss \cup {ns}

\* createGroupLua.
createGroup(g, ns, limit) ==
    IF gtInfo[<<g, ns>>] # "none"
    THEN UNCHANGED <<gtInfo, gtNs, gtGns, gtNss>>
    ELSE /\ gtInfo' = [gtInfo EXCEPT ![<<g, ns>>] = limit]
         /\ gtNs' = [gtNs EXCEPT ![ns] = @ \cup {g}]
         /\ gtGns' = [gtGns EXCEPT ![g] = @ \cup {ns}]
         /\ gtNss' = gtNss \cup {ns}

AddMember(g, ns, u) ==
    /\ gtMembers' = [gtMembers EXCEPT ![<<g, ns>>] = @ \cup {u}]
    /\ gtUser' = [gtUser EXCEPT ![<<ns, u>>] = @ \cup {g}]

RemoveMember(g, ns, u) ==
    /\ gtMembers' = [gtMembers EXCEPT ![<<g, ns>>] = @ \ {u}]
    /\ gtUser' = [gtUser EXCEPT ![<<ns, u>>] = @ \ {g}]

DropGroup(g, ns, seen) ==
    /\ gtInfo' = [gtInfo EXCEPT ![<<g, ns>>] = "none"]
    /\ gtMembers' = [gtMembers EXCEPT ![<<g, ns>>] = {}]
    /\ gtGns' = [gtGns EXCEPT ![g] = @ \ {ns}]
    /\ gtUser' = [i \in GtSpaces \X GtUsers |->
                    IF i[1] = ns /\ i[2] \in seen THEN gtUser[i] \ {g} ELSE gtUser[i]]

\* The group leaves the cache of a node, and a fill under way is spoilt.
GtEvict(n, gs) ==
    /\ gtCache' = [gtCache EXCEPT ![n] = [g \in GtGroups |-> IF g \in gs THEN GtMissing ELSE gtCache[n][g]]]
    /\ gtGen' = [gtGen EXCEPT ![n] = [g \in GtGroups |-> IF g \in gs THEN gtGen[n][g] + 1 ELSE gtGen[n][g]]]
    /\ gtLost' = gtLost \ ({n} \X gs)
-----------------------------------------------------------------------------
\* addGroupMembersSingle looks for the group; an absent one is created first.
GetGroup(c) ==
    LET o == GtCurrent(c)
        info == gtInfo[<<o.group, o.ns>>] IN
    /\ GtStage(c, {"add"}, "start")
    /\ GtGoto(c, CASE info = "none" -> "create" [] info = "open" -> "write" [] OTHER -> "count")
    /\ UNCHANGED <<gtStore, gtLocal, gtWrote, gtFaults>>

\* A call of createGroup that succeeds, or whose answer or request is lost; a
\* failed call evicts like any other.
GtCreates(c, limit) ==
    LET o == GtCurrent(c) IN
    /\ \/ createGroup(o.group, o.ns, limit) /\ GtGoto(c, "created") /\ GtNoFault
       \/ /\ createGroup(o.group, o.ns, limit) \/ UNCHANGED <<gtInfo, gtNs, gtGns, gtNss>>
          /\ GtGoto(c, "evict") /\ GtFault
    /\ gtWrote' = gtWrote \cup {c}
    /\ UNCHANGED <<gtMembers, gtUser, gtLocal>>

\* CreateGroup of an embedder, with a limit.
CreateGroup(c) == GtStage(c, {"create"}, "start") /\ GtCreates(c, "limited")

\* CreateGroup of addGroupMembersSingle, without.
AutoCreate(c) == GtStage(c, {"add"}, "create") /\ GtCreates(c, "open")

\* EnsureAndJoinSystemGroup of a connection; AddMembers follows.
EnsureAndJoinSystemGroup(c) == GtStage(c, {"join"}, "start") /\ GtCreates(c, "open")

\* The MaxMembers check: two reads and no lock.
CheckLimit(c) ==
    LET o == GtCurrent(c)
        fresh == IF o.user \in gtMembers[<<o.group, o.ns>>] THEN 0 ELSE 1 IN
    /\ GtStage(c, {"add"}, "count")
    /\ IF Cardinality(gtMembers[<<o.group, o.ns>>]) + fresh > GtMaxMembers
       THEN GtReturn(c) ELSE GtGoto(c, "write")
    /\ UNCHANGED <<gtStore, gtLocal, gtWrote, gtFaults>>

AddMembers(c) ==
    LET o == GtCurrent(c) IN
    /\ GtStage(c, {"add", "join"}, "write")
    /\ \/ AddMember(o.group, o.ns, o.user) /\ GtNoFault
       \/ UNCHANGED <<gtMembers, gtUser>> /\ GtFault
    /\ GtGoto(c, "evict")
    /\ gtWrote' = gtWrote \cup {c}
    /\ UNCHANGED <<gtInfo, gtNs, gtGns, gtNss, gtLocal>>

GtRemoves(c) ==
    LET o == GtCurrent(c) IN
    /\ \/ RemoveMember(o.group, o.ns, o.user) /\ GtNoFault
       \/ UNCHANGED <<gtMembers, gtUser>> /\ GtFault
    /\ GtGoto(c, "evict")
    /\ gtWrote' = gtWrote \cup {c}
    /\ UNCHANGED <<gtInfo, gtNs, gtGns, gtNss, gtLocal>>

RemoveGroupMembers(c) == GtStage(c, {"remove"}, "start") /\ GtRemoves(c)

\* LeaveSystemGroupsOnDisconnect returns when it finds another connection of the
\* user on this node.
LeaveSystemGroupsOnDisconnect(c) ==
    /\ GtStage(c, {"leave"}, "start")
    /\ \/ GtReturn(c) /\ UNCHANGED <<gtStore, gtLocal, gtWrote, gtFaults>>
       \/ GtRemoves(c)

\* DisbandGroup: the members are read, then the instance is deleted with the
\* index entries of those members, then the namespace index follows.
ReadMembers(c) ==
    LET o == GtCurrent(c) IN
    /\ GtStage(c, {"disband"}, "start")
    /\ GtKeep(c, "delete", [gen |-> 0, seen |-> gtMembers[<<o.group, o.ns>>]])
    /\ UNCHANGED <<gtStore, gtLocal, gtWrote, gtFaults>>

DeleteGroup(c) ==
    LET o == GtCurrent(c) IN
    /\ GtStage(c, {"disband"}, "delete")
    /\ \/ DropGroup(o.group, o.ns, gtAt[c].seen) /\ GtGoto(c, "unlist") /\ GtNoFault
       \/ /\ DropGroup(o.group, o.ns, gtAt[c].seen) \/ UNCHANGED <<gtInfo, gtMembers, gtGns, gtUser>>
          /\ GtGoto(c, "evict") /\ GtFault
    /\ gtWrote' = gtWrote \cup {c}
    /\ UNCHANGED <<gtNs, gtNss, gtLocal>>

disbandNsIndex(c) ==
    LET o == GtCurrent(c) IN
    /\ GtStage(c, {"disband"}, "unlist")
    /\ \/ /\ gtNs' = [gtNs EXCEPT ![o.ns] = @ \ {o.group}]
          /\ gtNss' = IF gtNs'[o.ns] = {} THEN gtNss \ {o.ns} ELSE gtNss
          /\ GtNoFault
       \/ UNCHANGED <<gtNs, gtNss>> /\ GtFault
    /\ GtGoto(c, "evict")
    /\ UNCHANGED <<gtInfo, gtMembers, gtUser, gtGns, gtLocal, gtWrote>>

MarkDirty(n, g) == gtDirty' = [gtDirty EXCEPT ![n] = @ \cup {g}]

\* invalidateLocal, and the mark for the other nodes; a call that created the
\* group goes on to add its member.
invalidateLocal(c) ==
    LET o == GtCurrent(c) IN
    /\ gtTodo[c] # <<>> /\ gtPc[c] \in {"created", "evict"}
    /\ GtEvict(o.node, {o.group})
    /\ MarkDirty(o.node, o.group)
    /\ gtWrote' = gtWrote \ {c}
    /\ IF gtPc[c] = "created" /\ o.kind # "create" THEN GtGoto(c, "write") ELSE GtReturn(c)
    /\ UNCHANGED <<gtStore, gtNet, gtFaults>>
-----------------------------------------------------------------------------
\* GetMultiGroupMembers of the cache: a hit returns, a miss notes the generation.
LookupTopology(c) ==
    LET o == GtCurrent(c) IN
    /\ GtStage(c, {"read"}, "start")
    /\ IF gtCache[o.node][o.group] # GtMissing THEN GtReturn(c)
       ELSE GtKeep(c, "instances", [gen |-> gtGen[o.node][o.group], seen |-> {}])
    /\ UNCHANGED <<gtStore, gtLocal, gtWrote, gtFaults>>

ReadInstances(c) ==
    /\ GtStage(c, {"read"}, "instances")
    /\ GtKeep(c, "members", [gtAt[c] EXCEPT !.seen = gtGns[GtCurrent(c).group]])
    /\ UNCHANGED <<gtStore, gtLocal, gtWrote, gtFaults>>

\* A group with no instance is cached as such, a large one is not cached.
ReadTopology(c) ==
    LET found == Aggregate(GtCurrent(c).group, gtAt[c].seen) IN
    /\ GtStage(c, {"read"}, "members")
    /\ IF Cardinality(found.of) > GtCacheMembers
       THEN GtReturn(c) ELSE GtKeep(c, "fill", [gtAt[c] EXCEPT !.seen = {found}])
    /\ UNCHANGED <<gtStore, gtLocal, gtWrote, gtFaults>>

FillTopology_AnyGeneration(c) ==
    LET o == GtCurrent(c) IN
    /\ GtStage(c, {"read"}, "fill")
    /\ gtCache' = [gtCache EXCEPT ![o.node] =
                      [g \in GtGroups |-> IF g = o.group THEN CHOOSE e \in gtAt[c].seen : TRUE ELSE gtCache[o.node][g]]]
    /\ GtReturn(c)
    /\ UNCHANGED <<gtStore, gtGen, gtDirty, gtNet, gtLost, gtWrote, gtFaults>>

FillTopology(c) ==
    LET o == GtCurrent(c) IN
    /\ GtStage(c, {"read"}, "fill")
    /\ gtCache' = IF gtGen[o.node][o.group] # gtAt[c].gen THEN gtCache
                  ELSE [gtCache EXCEPT ![o.node] =
                          [g \in GtGroups |-> IF g = o.group THEN CHOOSE e \in gtAt[c].seen : TRUE ELSE gtCache[o.node][g]]]
    /\ GtReturn(c)
    /\ UNCHANGED <<gtStore, gtGen, gtDirty, gtNet, gtLost, gtWrote, gtFaults>>

\* An entry expires, or falls off the LRU list.
ExpireTopology(n, g) ==
    /\ gtCache[n][g] # GtMissing
    /\ gtCache' = [gtCache EXCEPT ![n] = [h \in GtGroups |-> IF h = g THEN GtMissing ELSE gtCache[n][h]]]
    /\ UNCHANGED <<gtStore, gtGen, gtDirty, gtNet, gtLost, gtCall, gtFaults>>

\* A failed publication is only logged.
PublishGroupInvalidations(n, gs) ==
    \/ /\ gtNet' = [m \in GtNodes |-> IF m = n THEN gtNet[m] ELSE Append(gtNet[m], gs)]
       /\ UNCHANGED gtLost /\ GtNoFault
    \/ gtLost' = gtLost \cup ((GtNodes \ {n}) \X gs) /\ UNCHANGED gtNet /\ GtFault

FlushInvalidations(n) ==
    /\ gtDirty[n] # {}
    /\ gtDirty' = [gtDirty EXCEPT ![n] = {}]
    /\ PublishGroupInvalidations(n, gtDirty[n])
    /\ UNCHANGED <<gtStore, gtCache, gtGen, gtCall>>

handleGroupInvalidate(n) ==
    /\ gtNet[n] # <<>>
    /\ GtEvict(n, Head(gtNet[n]))
    /\ gtNet' = [gtNet EXCEPT ![n] = Tail(@)]
    /\ UNCHANGED <<gtStore, gtDirty, gtCall, gtFaults>>

\* A node dies: its calls end where they are and its marks are lost.
GtCrash(n) ==
    LET mine == {c \in DOMAIN gtTodo : gtTodo[c] # <<>> /\ GtCurrent(c).node = n /\ gtPc[c] # "start"}
        unsaid == gtDirty[n] \cup {GtCurrent(c).group : c \in mine \cap gtWrote} IN
    /\ GtFault
    /\ gtLost' = gtLost \cup ((GtNodes \ {n}) \X unsaid)
    /\ gtDirty' = [gtDirty EXCEPT ![n] = {}]
    /\ gtNet' = [gtNet EXCEPT ![n] = <<>>]
    /\ gtCache' = [gtCache EXCEPT ![n] = [g \in GtGroups |-> GtMissing]]
    /\ gtGen' = [gtGen EXCEPT ![n] = [g \in GtGroups |-> 0]]
    /\ gtTodo' = [c \in DOMAIN gtTodo |-> IF c \in mine THEN Tail(gtTodo[c]) ELSE gtTodo[c]]
    /\ gtPc' = [c \in DOMAIN gtTodo |-> IF c \in mine THEN "start" ELSE gtPc[c]]
    /\ gtAt' = [c \in DOMAIN gtTodo |-> IF c \in mine THEN [gen |-> 0, seen |-> {}] ELSE gtAt[c]]
    /\ gtWrote' = gtWrote \ mine
    /\ UNCHANGED gtStore

GtStep(c) ==
    \/ GetGroup(c) \/ CreateGroup(c) \/ AutoCreate(c) \/ EnsureAndJoinSystemGroup(c)
    \/ CheckLimit(c) \/ AddMembers(c) \/ RemoveGroupMembers(c) \/ LeaveSystemGroupsOnDisconnect(c)
    \/ ReadMembers(c) \/ DeleteGroup(c) \/ disbandNsIndex(c) \/ invalidateLocal(c)
    \/ LookupTopology(c) \/ ReadInstances(c) \/ ReadTopology(c) \/ FillTopology(c)

GtNext ==
    \/ \E c \in DOMAIN gtTodo : GtStep(c)
    \/ \E n \in GtNodes : FlushInvalidations(n) \/ handleGroupInvalidate(n) \/ GtCrash(n)
    \/ \E n \in GtNodes, g \in GtGroups : ExpireTopology(n, g)

GtSpec == GtInit /\ [][GtNext]_gtVars
-----------------------------------------------------------------------------
\* A node still has to learn that the group changed.
EvictionDue(n, g) ==
    \/ \E c \in gtWrote : GtCurrent(c).group = g
    \/ \E m \in GtNodes \ {n} : g \in gtDirty[m]
    \/ \E i \in DOMAIN gtNet[n] : g \in gtNet[n][i]
    \/ <<n, g>> \in gtLost

(* A cached topology (GroupMemberCache) is what the store holds now, unless *)
(* a change of the group is still on its way to the node or its             *)
(* announcement was lost: no interleaving of a read that goes to Redis with *)
(* writes and evictions leaves an old member list behind.                   *)
CachedTopologyIsCurrent ==
    \A n \in GtNodes, g \in GtGroups :
        \/ gtCache[n][g] = GtMissing
        \/ gtCache[n][g] = Aggregate(g, gtGns[g])
        \/ EvictionDue(n, g)

(* The indexes of the group store agree, whatever creations, disbandings,   *)
(* joins and failed calls overlap: GetAllNamespaces lists the namespaces    *)
(* with a listed group and no other, an instance is found from its group id *)
(* exactly while its record exists, and every member of a group finds the   *)
(* group through GetUserGroups.                                             *)
GroupIndexesAgree ==
    /\ \A ns \in GtSpaces : ns \in gtNss <=> gtNs[ns] # {}
    /\ \A g \in GtGroups, ns \in GtSpaces :
        /\ ns \in gtGns[g] <=> gtInfo[<<g, ns>>] # "none"
        /\ \A u \in gtMembers[<<g, ns>>] : g \in gtUser[<<ns, u>>]
=============================================================================
