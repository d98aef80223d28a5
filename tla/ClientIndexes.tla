--------------------------- MODULE ClientIndexes ---------------------------
(***************************************************************************)
(* The indexes of the sharded registry.  Beside the map of connections the *)
(* registry keeps, each under locks of its own, the classes of connections *)
(* (SSE streams, observers, agents), three levels of observers, and        *)
(* reference counts of the users of every group, namespace and attribute.  *)
(* AddClient and RemoveClient run on the goroutines of the connections and *)
(* update one after the other, so that broadcasts look at indexes that     *)
(* other calls are halfway through.                                        *)
(*                                                                         *)
(* A client ID is added again only as the code does for a reconnection, in *)
(* place; a removal that overlaps with it is the subject of ConnRegistry.  *)
(***************************************************************************)
EXTENDS Naturals, Sequences, FiniteSets, SequencesExt

CONSTANTS
    IxConns,    \* connections, and of each:
    IxUser,     \*   its user
    IxSpace,    \*   its namespace, "" for none
    IxGroups,   \*   GetGroupIDs, the groups it is in
    IxScope,    \*   GetGroupIDRaw, the group an observer watches, "" for none
    IxAttrs,    \*   user type, role, client type, department: <<dimension, value>>
    IxClass,    \*   the classes it belongs to
    IxAdds      \* bound: how often a client ID is added

Classes == {"sse", "observer", "agent"}
IxUsers == {IxUser[c] : c \in IxConns}
AllGroups == UNION {IxGroups[c] : c \in IxConns}
AllSpaces == {IxSpace[c] : c \in IxConns}
AllAttrs == UNION {IxAttrs[c] : c \in IxConns}

ASSUME IndexesAssumption ==
    /\ \A c \in IxConns : IxClass[c] \subseteq Classes /\ ("" \notin IxGroups[c])
    /\ IxAdds \in Nat

VARIABLES
    ixOn,       \* the optional classes that are enabled
    ixStore,    \* userShards: the connections registered
    ixReverse,  \* clientIDToUserID
    ixMembers,  \* sseShards, observerShards, agentShards
    ixWatch,    \* observerIdx: <<level, connection>>
    ixCount,    \* clientCount, sseCount and the users of the optional classes
    ixGroup,    \* groupMemberIdx: references of a user, 0 for no entry
    ixSpace,    \* nsIdx
    ixAttr,     \* attrIdx
    ixTodo,     \* what AddClient or RemoveClient of a connection still does
    ixLeft      \* how often a client ID may still be added

ixRefs == <<ixGroup, ixSpace, ixAttr>>
ixVars == <<ixOn, ixStore, ixReverse, ixMembers, ixWatch, ixCount, ixRefs, ixTodo, ixLeft>>

\* The users that have connections among these.
UsersOf(cs) == {IxUser[c] : c \in cs}

Do(op, key) == [op |-> op, key |-> key]

\* The four dimensions, without the empty ones.
clientAttrs(c) == {a \in IxAttrs[c] : a[2] # ""}

\* The steps of a call, one for each lock taken after the one of the main map.
ClassSteps(op, c) ==
    LET ks == SelectSeq(<<"sse", "observer", "agent">>, LAMBDA k : k \in IxClass[c] \cap ixOn)
    IN  [i \in DOMAIN ks |-> Do(op, ks[i])]

IndexSteps(ops, c) ==
    ClassSteps(ops.class, c) \o <<Do(ops.count, c)>>
    \o SetToSeq({Do(ops.group, g) : g \in IxGroups[c]}) \o <<Do(ops.space, IxSpace[c])>>
    \o SetToSeq({Do(ops.attr, a) : a \in clientAttrs(c)})

IxAdding == [class |-> "addClass", count |-> "addCount", group |-> "addGroup", space |-> "addSpace", attr |-> "addAttr"]
IxRemoving == [class |-> "removeClass", count |-> "removeCount", group |-> "removeGroup", space |-> "removeSpace", attr |-> "removeAttr"]

IxInit ==
    /\ ixOn \in {{"sse"} \cup s : s \in SUBSET {"observer", "agent"}}
    /\ ixStore = {} /\ ixReverse = {} /\ ixWatch = {}
    /\ ixMembers = [k \in Classes |-> {}]
    /\ ixCount = [clients |-> 0, sse |-> 0, observer |-> 0, agent |-> 0]
    /\ ixGroup = [g \in AllGroups |-> [u \in IxUsers |-> 0]]
    /\ ixSpace = [s \in AllSpaces |-> [u \in IxUsers |-> 0]]
    /\ ixAttr = [a \in AllAttrs |-> [u \in IxUsers |-> 0]]
    /\ ixTodo = [c \in IxConns |-> <<>>]
    /\ ixLeft = [c \in IxConns |-> IxAdds]

-----------------------------------------------------------------------------
\* The main map.  Of a client ID that is registered the pointers are refreshed.
AddClient(c) ==
    /\ ixTodo[c] = <<>> /\ ixLeft[c] > 0
    /\ ixLeft' = [ixLeft EXCEPT ![c] = @ - 1]
    /\ ixStore' = ixStore \cup {c}
    /\ ixTodo' = [ixTodo EXCEPT ![c] = <<Do("addReverse", c)>> \o
                    IF c \in ixStore THEN ClassSteps("addClass", c) ELSE IndexSteps(IxAdding, c)]
    /\ UNCHANGED <<ixOn, ixReverse, ixMembers, ixWatch, ixCount, ixRefs>>

RemoveClient(c) ==
    /\ ixTodo[c] = <<>> /\ c \in ixStore
    /\ ixStore' = ixStore \ {c}
    /\ ixTodo' = [ixTodo EXCEPT ![c] = IndexSteps(IxRemoving, c)]
    /\ UNCHANGED <<ixOn, ixReverse, ixMembers, ixWatch, ixCount, ixRefs, ixLeft>>

\* The next step of a call.
TakenFrom(c, op, key) ==
    /\ ixTodo[c] # <<>> /\ Head(ixTodo[c]) = Do(op, key)
    /\ ixTodo' = [ixTodo EXCEPT ![c] = Tail(@)]

\* The level of an observer: everything, a namespace, or a group of one.
Level(c) == IF IxSpace[c] = "" THEN <<"global">>
            ELSE IF IxScope[c] # "" THEN <<"group", IxSpace[c], IxScope[c]>> ELSE <<"namespace", IxSpace[c]>>

\* observerIndex.add and observerIndex.remove.
Watching(watch, c) == watch \cup {<<Level(c), c>>}
NoLongerWatching(watch, c) == watch \ {<<Level(c), c>>}

\* addSSEClient: sseCount counts connections, and only new ones.
addSSEClient(c) ==
    /\ TakenFrom(c, "addClass", "sse")
    /\ ixMembers' = [ixMembers EXCEPT !["sse"] = @ \cup {c}]
    /\ ixCount' = [ixCount EXCEPT !.sse = IF c \in ixMembers["sse"] THEN @ ELSE @ + 1]
    /\ UNCHANGED <<ixOn, ixStore, ixReverse, ixWatch, ixRefs, ixLeft>>

removeSSEClient(c) ==
    /\ TakenFrom(c, "removeClass", "sse")
    /\ ixMembers' = [ixMembers EXCEPT !["sse"] = @ \ {c}]
    /\ ixCount' = [ixCount EXCEPT !.sse = @ - 1]
    /\ UNCHANGED <<ixOn, ixStore, ixReverse, ixWatch, ixRefs, ixLeft>>

\* addObserverClient and observerIndex.add; the counter counts users.
addObserverClient(c) ==
    /\ TakenFrom(c, "addClass", "observer")
    /\ ixMembers' = [ixMembers EXCEPT !["observer"] = @ \cup {c}]
    /\ ixCount' = [ixCount EXCEPT !.observer = IF IxUser[c] \in UsersOf(ixMembers["observer"]) THEN @ ELSE @ + 1]
    /\ ixWatch' = Watching(ixWatch, c)
    /\ UNCHANGED <<ixOn, ixStore, ixReverse, ixRefs, ixLeft>>

removeObserverClient(c) ==
    /\ TakenFrom(c, "removeClass", "observer")
    /\ ixMembers' = [ixMembers EXCEPT !["observer"] = @ \ {c}]
    /\ ixCount' = [ixCount EXCEPT !.observer = IF IxUser[c] \in UsersOf(ixMembers["observer"] \ {c}) THEN @ ELSE @ - 1]
    /\ ixWatch' = NoLongerWatching(ixWatch, c)
    /\ UNCHANGED <<ixOn, ixStore, ixReverse, ixRefs, ixLeft>>

addAgentClient(c) ==
    /\ TakenFrom(c, "addClass", "agent")
    /\ ixMembers' = [ixMembers EXCEPT !["agent"] = @ \cup {c}]
    /\ ixCount' = [ixCount EXCEPT !.agent = IF IxUser[c] \in UsersOf(ixMembers["agent"]) THEN @ ELSE @ + 1]
    /\ UNCHANGED <<ixOn, ixStore, ixReverse, ixWatch, ixRefs, ixLeft>>

removeAgentClient(c) ==
    /\ TakenFrom(c, "removeClass", "agent")
    /\ ixMembers' = [ixMembers EXCEPT !["agent"] = @ \ {c}]
    /\ ixCount' = [ixCount EXCEPT !.agent = IF IxUser[c] \in UsersOf(ixMembers["agent"] \ {c}) THEN @ ELSE @ - 1]
    /\ UNCHANGED <<ixOn, ixStore, ixReverse, ixWatch, ixRefs, ixLeft>>

\* clientIDToUserID and clientCount.
CountClient(c) ==
    \/ /\ TakenFrom(c, "addReverse", c)
       /\ ixReverse' = ixReverse \cup {c}
       /\ UNCHANGED <<ixOn, ixStore, ixMembers, ixWatch, ixCount, ixRefs, ixLeft>>
    \/ /\ TakenFrom(c, "addCount", c)
       /\ ixCount' = [ixCount EXCEPT !.clients = @ + 1]
       /\ UNCHANGED <<ixOn, ixStore, ixReverse, ixMembers, ixWatch, ixRefs, ixLeft>>
    \/ /\ TakenFrom(c, "removeCount", c)
       /\ ixCount' = [ixCount EXCEPT !.clients = @ - 1]
       /\ ixReverse' = ixReverse \ {c}
       /\ UNCHANGED <<ixOn, ixStore, ixMembers, ixWatch, ixRefs, ixLeft>>

-----------------------------------------------------------------------------
(* Reference counts: one connection, one reference.                        *)

Referenced(refs, key, u) == [refs EXCEPT ![key] = [@ EXCEPT ![u] = @ + 1]]

\* The entry goes with its last reference.
Released_User(refs, key, u) == [refs EXCEPT ![key] = [@ EXCEPT ![u] = 0]]

Released(refs, key, u) == [refs EXCEPT ![key] = [@ EXCEPT ![u] = IF @ <= 1 THEN 0 ELSE @ - 1]]

ixRest == <<ixOn, ixStore, ixReverse, ixMembers, ixWatch, ixCount, ixLeft>>

addToGroupMemberIdx(c) ==
    \E g \in IxGroups[c] : /\ TakenFrom(c, "addGroup", g)
                           /\ ixGroup' = Referenced(ixGroup, g, IxUser[c])
                           /\ UNCHANGED <<ixRest, ixSpace, ixAttr>>

removeFromGroupMemberIdx(c) ==
    \E g \in IxGroups[c] : /\ TakenFrom(c, "removeGroup", g)
                           /\ ixGroup' = Released(ixGroup, g, IxUser[c])
                           /\ UNCHANGED <<ixRest, ixSpace, ixAttr>>

addToNamespaceIdx(c) ==
    /\ TakenFrom(c, "addSpace", IxSpace[c])
    /\ ixSpace' = Referenced(ixSpace, IxSpace[c], IxUser[c])
    /\ UNCHANGED <<ixRest, ixGroup, ixAttr>>

removeFromNamespaceIdx(c) ==
    /\ TakenFrom(c, "removeSpace", IxSpace[c])
    /\ ixSpace' = Released(ixSpace, IxSpace[c], IxUser[c])
    /\ UNCHANGED <<ixRest, ixGroup, ixAttr>>

addToAttrIdx(c) ==
    \E a \in clientAttrs(c) : /\ TakenFrom(c, "addAttr", a)
                              /\ ixAttr' = Referenced(ixAttr, a, IxUser[c])
                              /\ UNCHANGED <<ixRest, ixGroup, ixSpace>>

removeFromAttrIdx(c) ==
    \E a \in clientAttrs(c) : /\ TakenFrom(c, "removeAttr", a)
                              /\ ixAttr' = Released(ixAttr, a, IxUser[c])
                              /\ UNCHANGED <<ixRest, ixGroup, ixSpace>>

IxNext ==
    \E c \in IxConns :
        \/ AddClient(c) \/ RemoveClient(c) \/ CountClient(c)
        \/ addSSEClient(c) \/ removeSSEClient(c) \/ addObserverClient(c) \/ removeObserverClient(c)
        \/ addAgentClient(c) \/ removeAgentClient(c)
        \/ addToGroupMemberIdx(c) \/ removeFromGroupMemberIdx(c)
        \/ addToNamespaceIdx(c) \/ removeFromNamespaceIdx(c)
        \/ addToAttrIdx(c) \/ removeFromAttrIdx(c)

IxSpec == IxInit /\ [][IxNext]_ixVars

-----------------------------------------------------------------------------
(* What the broadcasts ask.                                                *)

GetLocalGroupMembers(gs) == {u \in IxUsers : \E g \in gs : ixGroup[g][u] > 0}

\* No namespace means everyone, which this index does not answer.
GetLocalNamespaceUsers(s) == IF s = "" THEN {} ELSE {u \in IxUsers : ixSpace[s][u] > 0}

getLocalAttrUsers(a) == {u \in IxUsers : ixAttr[a][u] > 0}

ClientMatchesEnvelope(c, s) == s = "" \/ IxSpace[c] = s

ForEachUserClientFiltered(u, s) == {c \in ixStore : IxUser[c] = u /\ ClientMatchesEnvelope(c, s)}

ForEachClientFilteredParallel(s) == {c \in ixStore : ClientMatchesEnvelope(c, s)}

ForEachSSEClientParallel == ixMembers["sse"]

\* The observers of everything, of the namespace, and of one of the groups.
getForMessage(s, gs) ==
    {w[2] : w \in {v \in ixWatch : v[1] \in {<<"global">>, <<"namespace", s>>} \cup {<<"group", s, g>> : g \in gs \ {""}}}}

\* No call is changing what c is registered under.
FullyRegistered(c) == c \in ixStore /\ ixTodo[c] = <<>>

\* A connection whose registration is done and whose removal has not begun is
\* found by every broadcast meant for it, whatever calls for other connections
\* of its user are halfway through: by its groups, its namespace, its attributes,
\* as an SSE stream, and as an observer of everything, of the namespace or of the
\* group it watches (addTo...Idx and removeFrom...Idx of sharded_registry.go).
RegisteredIsFound ==
    \A c \in IxConns : FullyRegistered(c) =>
        /\ c \in ixReverse /\ \A k \in IxClass[c] \cap ixOn : c \in ixMembers[k]
        /\ \A g \in IxGroups[c] :
              c \in UNION {ForEachUserClientFiltered(u, "") : u \in GetLocalGroupMembers({g})}
        /\ IxSpace[c] # "" =>
              c \in UNION {ForEachUserClientFiltered(u, IxSpace[c]) : u \in GetLocalNamespaceUsers(IxSpace[c])}
        /\ \A a \in clientAttrs(c) : IxUser[c] \in getLocalAttrUsers(a)
        /\ "observer" \in IxClass[c] \cap ixOn =>
              \A s \in AllSpaces, g \in AllGroups :
                  c \in getForMessage(s, {g}) <=> IxSpace[c] = "" \/ (IxSpace[c] = s /\ IxScope[c] \in {"", g})

\* With no call under way the indexes hold what is registered and nothing else:
\* a broadcast by an index and the scan it replaces (BroadcastToNamespace,
\* broadcastByAttr) choose the same users, the SSE streams and the observers are
\* those registered, the counters that decide between index and scan are right,
\* and no entry of a user who left is kept.
IndexesAreExact ==
    (\A c \in IxConns : ixTodo[c] = <<>>) =>
        /\ \A s \in AllSpaces \ {""} : GetLocalNamespaceUsers(s) = UsersOf(ForEachClientFilteredParallel(s))
        /\ \A a \in AllAttrs : a[2] # "" => getLocalAttrUsers(a) = UsersOf({c \in ixStore : a \in IxAttrs[c]})
        /\ \A g \in AllGroups : GetLocalGroupMembers({g}) = UsersOf({c \in ixStore : g \in IxGroups[c]})
        /\ ForEachSSEClientParallel = {c \in ixStore : "sse" \in IxClass[c]}
        /\ ixReverse = ixStore /\ ixCount.clients = Cardinality(ixStore)
        /\ ixCount.sse = Cardinality(ForEachSSEClientParallel)
        /\ \A k \in {"observer", "agent"} \cap ixOn :
              /\ ixMembers[k] = {c \in ixStore : k \in IxClass[c]}
              /\ ixCount[k] = Cardinality(UsersOf(ixMembers[k]))
        /\ {w[2] : w \in ixWatch} = ixMembers["observer"]

\* The index finds who it should, also in the middle of calls for others, and
\* between calls it finds nobody else.
IndexesFindClients == RegisteredIsFound /\ IndexesAreExact
=============================================================================
