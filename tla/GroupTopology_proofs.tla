------------------------ MODULE GroupTopology_proofs ------------------------
EXTENDS GroupTopology, TLAPS

(***************************************************************************)
(* The indexes of the group store agree, for any groups, namespaces, users *)
(* and callers and any number of faults.  GroupIndexesAgree is preserved   *)
(* by every write once the calls are known to name existing groups,        *)
(* namespaces and users; DisbandGroup may delete with a list of members    *)
(* that is out of date, because it deletes the members with it.            *)
(***************************************************************************)

GtTypes ==
    /\ gtInfo \in [GtGroups \X GtSpaces -> {"none", "open", "limited"}]
    /\ gtMembers \in [GtGroups \X GtSpaces -> SUBSET GtUsers]
    /\ gtUser \in [GtSpaces \X GtUsers -> SUBSET GtGroups]
    /\ gtNs \in [GtSpaces -> SUBSET GtGroups]
    /\ gtGns \in [GtGroups -> SUBSET GtSpaces]
    /\ gtNss \subseteq GtSpaces

GtAsked == gtTodo \in [DOMAIN gtTodo -> Seq(GtCalls)]

GtStoreInv == GtTypes /\ GroupIndexesAgree

GtInv == GtStoreInv /\ GtAsked

LEMMA CurrentIsACall ==
    ASSUME GtAsked, NEW c \in DOMAIN gtTodo, gtTodo[c] # <<>>
    PROVE  GtCurrent(c) \in GtCalls
    BY DEF GtAsked, GtCurrent

LEMMA UnchangedKeepsStore == GtStoreInv /\ UNCHANGED gtStore => GtStoreInv'
    BY Zenon DEF GtStoreInv, GtTypes, GroupIndexesAgree, gtStore

\* createGroupLua lists a namespace as it lists the group in it.
LEMMA CreateKeepsStore ==
    ASSUME GtStoreInv, NEW g \in GtGroups, NEW ns \in GtSpaces, NEW limit \in {"open", "limited"},
           createGroup(g, ns, limit), UNCHANGED <<gtMembers, gtUser>>
    PROVE  GtStoreInv'
<1>1. CASE gtInfo[<<g, ns>>] # "none"
    BY <1>1, UnchangedKeepsStore, Zenon DEF createGroup, gtStore
<1>2. CASE gtInfo[<<g, ns>>] = "none"
    <2>1. /\ gtInfo' = [gtInfo EXCEPT ![<<g, ns>>] = limit]
          /\ gtNs' = [gtNs EXCEPT ![ns] = @ \cup {g}]
          /\ gtGns' = [gtGns EXCEPT ![g] = @ \cup {ns}]
          /\ gtNss' = gtNss \cup {ns}
        BY <1>2, Zenon DEF createGroup
    <2>2. GtTypes
        BY DEF GtStoreInv
    <2>3. /\ \A s \in GtSpaces : gtNs'[s] = IF s = ns THEN gtNs[s] \cup {g} ELSE gtNs[s]
          /\ \A h \in GtGroups : gtGns'[h] = IF h = g THEN gtGns[h] \cup {ns} ELSE gtGns[h]
        BY <2>1, <2>2, Zenon DEF GtTypes
    <2>4. \A h \in GtGroups, s \in GtSpaces :
             gtInfo'[<<h, s>>] = IF h = g /\ s = ns THEN limit ELSE gtInfo[<<h, s>>]
        BY <2>1, <2>2, Zenon DEF GtTypes
    <2>5. GtTypes'
        <3>1. gtInfo' \in [GtGroups \X GtSpaces -> {"none", "open", "limited"}]
            BY <2>1, <2>2, Zenon DEF GtTypes
        <3>2. gtNs' \in [GtSpaces -> SUBSET GtGroups] /\ gtGns' \in [GtGroups -> SUBSET GtSpaces]
            BY <2>1, <2>2, Zenon DEF GtTypes
        <3> QED BY <2>1, <2>2, <3>1, <3>2, Zenon DEF GtTypes
    <2>6. ASSUME NEW s \in GtSpaces PROVE s \in gtNss' <=> gtNs'[s] # {}
        <3>1. s \in gtNss <=> gtNs[s] # {}
            BY Zenon DEF GtStoreInv, GroupIndexesAgree
        <3> QED BY <2>1, <2>3, <3>1
    <2>7. ASSUME NEW h \in GtGroups, NEW s \in GtSpaces PROVE s \in gtGns'[h] <=> gtInfo'[<<h, s>>] # "none"
        <3>1. s \in gtGns[h] <=> gtInfo[<<h, s>>] # "none"
            BY Zenon DEF GtStoreInv, GroupIndexesAgree
        <3> QED BY <2>3, <2>4, <3>1, Zenon
    <2> QED BY <2>5, <2>6, <2>7, Zenon DEF GtStoreInv, GroupIndexesAgree
<1> QED BY <1>1, <1>2

\* AddMembers writes both directions, RemoveMembers takes both out.
LEMMA MemberKeepsStore ==
    ASSUME GtStoreInv, NEW g \in GtGroups, NEW ns \in GtSpaces, NEW u \in GtUsers,
           AddMember(g, ns, u) \/ RemoveMember(g, ns, u), UNCHANGED <<gtInfo, gtNs, gtGns, gtNss>>
    PROVE  GtStoreInv'
<1>1. PICK us, gs :
        /\ gtMembers' = [gtMembers EXCEPT ![<<g, ns>>] = us]
        /\ gtUser' = [gtUser EXCEPT ![<<ns, u>>] = gs]
        /\ \/ us = gtMembers[<<g, ns>>] \cup {u} /\ gs = gtUser[<<ns, u>>] \cup {g}
           \/ us = gtMembers[<<g, ns>>] \ {u} /\ gs = gtUser[<<ns, u>>] \ {g}
    BY Zenon DEF AddMember, RemoveMember
<1>2. GtTypes /\ us \subseteq GtUsers /\ gs \subseteq GtGroups
    BY <1>1, Zenon DEF GtStoreInv, GtTypes
<1>3. GtTypes'
    <2>1. gtMembers' \in [GtGroups \X GtSpaces -> SUBSET GtUsers]
        BY <1>1, <1>2, Zenon DEF GtTypes
    <2>2. gtUser' \in [GtSpaces \X GtUsers -> SUBSET GtGroups]
        BY <1>1, <1>2, Zenon DEF GtTypes
    <2> QED BY <1>2, <2>1, <2>2, Zenon DEF GtTypes
<1>4. /\ \A h \in GtGroups, s \in GtSpaces :
            gtMembers'[<<h, s>>] = IF h = g /\ s = ns THEN us ELSE gtMembers[<<h, s>>]
      /\ \A s \in GtSpaces, v \in GtUsers :
            gtUser'[<<s, v>>] = IF s = ns /\ v = u THEN gs ELSE gtUser[<<s, v>>]
    BY <1>1, <1>2, Zenon DEF GtTypes
<1>5. ASSUME NEW h \in GtGroups, NEW s \in GtSpaces, NEW v \in gtMembers'[<<h, s>>] PROVE h \in gtUser'[<<s, v>>]
    <2>1. v \in GtUsers
        BY <1>2, <1>4, <1>5 DEF GtTypes
    <2>2. v \in gtMembers[<<h, s>>] => h \in gtUser[<<s, v>>]
        BY Zenon DEF GtStoreInv, GroupIndexesAgree
    <2>3. v \in IF h = g /\ s = ns THEN us ELSE gtMembers[<<h, s>>]
        BY <1>4, <1>5, Zenon
    <2>4. gtUser'[<<s, v>>] = IF s = ns /\ v = u THEN gs ELSE gtUser[<<s, v>>]
        BY <1>4, <2>1, Zenon
    <2>5. CASE s = ns /\ v = u
        BY <1>1, <2>2, <2>3, <2>4, <2>5, Zenon
    <2>6. CASE ~(s = ns /\ v = u)
        BY <1>1, <2>2, <2>3, <2>4, <2>6, Zenon
    <2> QED BY <2>5, <2>6, Zenon
<1> QED BY <1>3, <1>5, Zenon DEF GtStoreInv, GroupIndexesAgree

LEMMA DropKeepsStore ==
    ASSUME GtStoreInv, NEW g \in GtGroups, NEW ns \in GtSpaces, NEW seen,
           DropGroup(g, ns, seen), UNCHANGED <<gtNs, gtNss>>
    PROVE  GtStoreInv'
<1>1. GtTypes'
    BY Zenon DEF GtStoreInv, GtTypes, DropGroup
<1>2. ASSUME NEW h \in GtGroups, NEW s \in GtSpaces PROVE s \in gtGns'[h] <=> gtInfo'[<<h, s>>] # "none"
    BY <1>2, Zenon DEF GtStoreInv, GtTypes, GroupIndexesAgree, DropGroup
<1>3. ASSUME NEW h \in GtGroups, NEW s \in GtSpaces, NEW v \in gtMembers'[<<h, s>>] PROVE h \in gtUser'[<<s, v>>]
    <2>1. <<h, s>> # <<g, ns>> /\ v \in gtMembers[<<h, s>>]
        BY <1>3, Zenon DEF GtStoreInv, GtTypes, DropGroup
    <2>2. h \in gtUser[<<s, v>>] /\ v \in GtUsers
        BY <2>1, ZenonT(60) DEF GtStoreInv, GtTypes, GroupIndexesAgree
    <2>3. gtUser'[<<s, v>>] = IF s = ns /\ v \in seen THEN gtUser[<<s, v>>] \ {g} ELSE gtUser[<<s, v>>]
        BY <2>2, Zenon DEF DropGroup
    <2> QED BY <2>1, <2>2, <2>3, Zenon
<1> QED BY <1>1, <1>2, <1>3, Zenon DEF GtStoreInv, GroupIndexesAgree

\* disbandNsIndexLua takes the namespace out with its last group.
LEMMA UnlistKeepsStore ==
    ASSUME GtStoreInv, NEW g \in GtGroups, NEW ns \in GtSpaces,
           gtNs' = [gtNs EXCEPT ![ns] = @ \ {g}],
           gtNss' = IF gtNs'[ns] = {} THEN gtNss \ {ns} ELSE gtNss,
           UNCHANGED <<gtInfo, gtMembers, gtUser, gtGns>>
    PROVE  GtStoreInv'
<1>1. GtTypes'
    BY Zenon DEF GtStoreInv, GtTypes
<1>2. ASSUME NEW s \in GtSpaces PROVE s \in gtNss' <=> gtNs'[s] # {}
    BY <1>2, Zenon DEF GtStoreInv, GtTypes, GroupIndexesAgree
<1> QED BY <1>1, <1>2, Zenon DEF GtStoreInv, GroupIndexesAgree

\* A caller goes on in its call or returns from it.
LEMMA AskedKept ==
    ASSUME GtAsked, NEW c \in DOMAIN gtTodo, gtTodo[c] # <<>>, GtReturn(c) \/ UNCHANGED gtTodo
    PROVE  GtAsked'
<1>1. CASE UNCHANGED gtTodo
    BY <1>1 DEF GtAsked
<1>2. CASE GtReturn(c)
    <2>1. Tail(gtTodo[c]) \in Seq(GtCalls)
        BY DEF GtAsked
    <2> QED BY <1>2, <2>1, Zenon DEF GtAsked, GtReturn
<1> QED BY <1>1, <1>2

LEMMA StepKeepsAsked ==
    ASSUME GtAsked, NEW c \in DOMAIN gtTodo, GtStep(c)
    PROVE  GtAsked' /\ gtTodo[c] # <<>>
<1>1. gtTodo[c] # <<>> /\ (GtReturn(c) \/ UNCHANGED gtTodo)
    BY Zenon DEF GtStep, GtStage, GtGoto, GtKeep, GetGroup, GtCreates, CreateGroup, AutoCreate,
       EnsureAndJoinSystemGroup, CheckLimit, AddMembers, GtRemoves, RemoveGroupMembers,
       LeaveSystemGroupsOnDisconnect, ReadMembers, DeleteGroup, disbandNsIndex, invalidateLocal,
       LookupTopology, ReadInstances, ReadTopology, FillTopology
<1> QED BY <1>1, AskedKept, Zenon

LEMMA StepKeepsStore ==
    ASSUME GtInv, NEW c \in DOMAIN gtTodo, GtStep(c)
    PROVE  GtStoreInv'
<1> DEFINE o == GtCurrent(c)
<1>1. GtStoreInv /\ GtAsked
    BY DEF GtInv
<1>2. o.group \in GtGroups /\ o.ns \in GtSpaces /\ o.user \in GtUsers
    BY <1>1, StepKeepsAsked, CurrentIsACall, Zenon DEF GtCalls
<1> HIDE DEF o
<1>3. ASSUME NEW limit \in {"open", "limited"}, GtCreates(c, limit) PROVE GtStoreInv'
    BY <1>1, <1>2, <1>3, CreateKeepsStore, UnchangedKeepsStore, Zenon DEF GtCreates, o, gtStore
<1>4. CASE CreateGroup(c) \/ AutoCreate(c) \/ EnsureAndJoinSystemGroup(c)
    BY <1>3, <1>4 DEF CreateGroup, AutoCreate, EnsureAndJoinSystemGroup
<1>5. CASE AddMembers(c)
    BY <1>1, <1>2, <1>5, MemberKeepsStore, UnchangedKeepsStore, Zenon DEF AddMembers, o, gtStore
<1>6. ASSUME GtRemoves(c) PROVE GtStoreInv'
    BY <1>1, <1>2, <1>6, MemberKeepsStore, UnchangedKeepsStore, Zenon DEF GtRemoves, o, gtStore
<1>7. CASE RemoveGroupMembers(c) \/ LeaveSystemGroupsOnDisconnect(c)
    BY <1>1, <1>6, <1>7, UnchangedKeepsStore DEF RemoveGroupMembers, LeaveSystemGroupsOnDisconnect
<1>8. CASE DeleteGroup(c)
    BY <1>1, <1>2, <1>8, DropKeepsStore, UnchangedKeepsStore, Zenon DEF DeleteGroup, o, gtStore
<1>9. CASE disbandNsIndex(c)
    BY <1>1, <1>2, <1>9, UnlistKeepsStore, UnchangedKeepsStore, Zenon DEF disbandNsIndex, o, gtStore
<1>10. CASE \/ GetGroup(c) \/ CheckLimit(c) \/ ReadMembers(c) \/ invalidateLocal(c)
            \/ LookupTopology(c) \/ ReadInstances(c) \/ ReadTopology(c) \/ FillTopology(c)
    <2>1. UNCHANGED gtStore
        BY <1>10, Zenon DEF GetGroup, CheckLimit, ReadMembers, invalidateLocal, LookupTopology,
           ReadInstances, ReadTopology, FillTopology
    <2> QED BY <1>1, <2>1, UnchangedKeepsStore
<1> QED BY <1>4, <1>5, <1>7, <1>8, <1>9, <1>10, Zenon DEF GtStep

LEMMA GtInductive == GtInv /\ [GtNext]_gtVars => GtInv'
<1> SUFFICES ASSUME GtInv, [GtNext]_gtVars PROVE GtInv'
    OBVIOUS
<1>1. ASSUME NEW c \in DOMAIN gtTodo, GtStep(c) PROVE GtInv'
    BY <1>1, StepKeepsAsked, StepKeepsStore DEF GtInv
<1>2. ASSUME NEW n \in GtNodes, GtCrash(n) PROVE GtInv'
    <2>1. gtTodo' \in [DOMAIN gtTodo -> Seq(GtCalls)]
        BY <1>2 DEF GtCrash, GtInv, GtAsked
    <2>2. UNCHANGED gtStore
        BY <1>2, Zenon DEF GtCrash
    <2> QED BY <2>1, <2>2, UnchangedKeepsStore DEF GtInv, GtAsked
<1>3. ASSUME UNCHANGED <<gtStore, gtTodo>> PROVE GtInv'
    BY <1>3, UnchangedKeepsStore DEF GtInv, GtAsked
<1>4. ASSUME NEW n \in GtNodes, NEW g \in GtGroups,
             FlushInvalidations(n) \/ handleGroupInvalidate(n) \/ ExpireTopology(n, g)
      PROVE GtInv'
    BY <1>3, <1>4, Zenon DEF FlushInvalidations, handleGroupInvalidate, ExpireTopology, gtCall
<1>5. CASE UNCHANGED gtVars
    BY <1>3, <1>5 DEF gtVars, gtCall
<1>6. ASSUME NEW n \in GtNodes, FlushInvalidations(n) \/ handleGroupInvalidate(n) PROVE GtInv'
    BY <1>3, <1>6, Zenon DEF FlushInvalidations, handleGroupInvalidate, gtCall
<1> QED BY <1>1, <1>2, <1>4, <1>5, <1>6, Zenon DEF GtNext

\* The store is empty at first.
LEMMA GtInitially == GtInit => GtInv
<1>1. GtInit => GtAsked
    BY GtAssumption, Zenon DEF GtInit, GtAsked
<1>2. GtInit => GtStoreInv
    BY ZenonT(60) DEF GtInit, GtStoreInv, GtTypes, GroupIndexesAgree
<1> QED BY <1>1, <1>2 DEF GtInv

\* The indexes of the group store agree in every state, however creations, disbandings,
\* joins, leaves and failed calls of any number of callers overlap (group_store.go).
THEOREM IndexesAgree == GtSpec => []GroupIndexesAgree
<1>1. GtInv => GroupIndexesAgree
    BY DEF GtInv, GtStoreInv
<1> QED BY <1>1, GtInitially, GtInductive, PTL DEF GtSpec

-----------------------------------------------------------------------------
(***************************************************************************)
(* The caches.  A cached topology may be old only while its node is still  *)
(* to evict it (EvictionDue).  That is not inductive: a fill in progress   *)
(* puts what it read earlier into the cache.  GtReadIs says what a reader  *)
(* holds: as long as the generation it noted is the current one, what it   *)
(* has read is current or an eviction is due, and that eviction will       *)
(* change the generation.                                                  *)
(***************************************************************************)

\* What a cache holds for a group.
GtEntries == [kind : {"missing", "none", "members"}, of : SUBSET GtUsers]
GtNotes == [gen : Nat, seen : SUBSET (GtUsers \cup GtSpaces \cup GtEntries)]
GtPlaces == {"start", "create", "created", "count", "write", "delete", "unlist", "evict", "instances", "members", "fill"}

\* The types of what the nodes and the callers hold.
GtNodeTypes ==
    /\ gtCache \in [GtNodes -> [GtGroups -> GtEntries]]
    /\ gtGen \in [GtNodes -> [GtGroups -> Nat]]
    /\ gtDirty \in [GtNodes -> SUBSET GtGroups]
    /\ gtNet \in [GtNodes -> Seq(SUBSET GtGroups)]
    /\ gtPc \in [DOMAIN gtTodo -> GtPlaces]
    /\ gtAt \in [DOMAIN gtTodo -> GtNotes]

\* A caller that has written and not evicted is on its way to the eviction.
GtWriters ==
    \A c \in gtWrote : c \in DOMAIN gtTodo /\ gtTodo[c] # <<>> /\ gtPc[c] \in {"created", "unlist", "evict"}

\* A value of the topology of g that node n may keep.
GtUsable(n, g, e) == e = Aggregate(g, gtGns[g]) \/ EvictionDue(n, g)

\* The reader c of group g on node n may keep what it has read: as long as its
\* generation is the current one.
GtReadIs(c, n, g) ==
    /\ gtAt[c].gen <= gtGen[n][g]
    /\ gtPc[c] = "members" => gtAt[c].seen \subseteq GtSpaces
    /\ gtAt[c].gen = gtGen[n][g] =>
         /\ gtPc[c] = "members" => gtAt[c].seen = gtGns[g] \/ EvictionDue(n, g)
         /\ gtPc[c] = "fill" => \E e \in GtEntries : gtAt[c].seen = {e} /\ GtUsable(n, g, e)

\* Caller c has missed the cache and is reading.
GtReads(c) == \E p \in {"instances", "members", "fill"} : GtStage(c, {"read"}, p)

\* Every reader may keep what it has read.
GtReaders == \A c \in DOMAIN gtTodo : GtReads(c) => GtReadIs(c, GtCurrent(c).node, GtCurrent(c).group)

\* The invariant of the caches.
GtFresh == GtNodeTypes /\ GtWriters /\ GtReaders /\ CachedTopologyIsCurrent

\* The topology of g in the store does not change.
GtSame(g) == gtGns'[g] = gtGns[g] /\ Aggregate(g, gtGns[g])' = Aggregate(g, gtGns[g])

\* A step that forgets no eviction that is due, and causes one for the groups
\* it changes, on the nodes that do not die in it.
GtTells(dead) ==
    \A n \in GtNodes \ dead, g \in GtGroups :
        /\ gtGen[n][g] <= gtGen'[n][g]
        /\ EvictionDue(n, g) => EvictionDue(n, g)' \/ (gtCache'[n][g] = GtMissing /\ gtGen[n][g] < gtGen'[n][g])
        /\ GtSame(g) \/ EvictionDue(n, g)'

\* The caches stay current when entries only go.
LEMMA CacheStays ==
    ASSUME CachedTopologyIsCurrent, NEW dead, GtTells(dead),
           \A n \in GtNodes, g \in GtGroups : gtCache'[n][g] = gtCache[n][g] \/ gtCache'[n][g] = GtMissing,
           \A n \in dead, g \in GtGroups : gtCache'[n][g] = GtMissing
    PROVE  CachedTopologyIsCurrent'
  BY Zenon DEF CachedTopologyIsCurrent, GtTells, GtSame

\* A generation that was noted, never fell and is noted still has not moved.
LEMMA Squeezed ==
    ASSUME NEW a \in Nat, NEW k \in Nat, NEW k2 \in Nat, a = k2, a <= k, k <= k2
    PROVE  k2 = k /\ a = k
  OBVIOUS

\* A reader that does not move keeps what it has read, or its generation is
\* over.
LEMMA ReaderStays ==
    ASSUME NEW dead, GtTells(dead), NEW c, NEW n \in GtNodes \ dead, NEW g \in GtGroups,
           gtGen \in [GtNodes -> [GtGroups -> Nat]], gtGen' \in [GtNodes -> [GtGroups -> Nat]],
           gtAt[c].gen \in Nat,
           GtReadIs(c, n, g), gtPc'[c] = gtPc[c], gtAt'[c] = gtAt[c]
    PROVE  GtReadIs(c, n, g)'
<1>1. /\ gtGen[n][g] <= gtGen'[n][g] /\ gtGen[n][g] \in Nat /\ gtGen'[n][g] \in Nat
      /\ EvictionDue(n, g) => EvictionDue(n, g)' \/ gtGen[n][g] < gtGen'[n][g]
      /\ GtSame(g) \/ EvictionDue(n, g)'
  BY Zenon DEF GtTells
<1>2. gtAt[c].gen <= gtGen[n][g]
  BY Zenon DEF GtReadIs
<1>3. gtAt'[c].gen <= gtGen'[n][g]
  BY <1>1, <1>2
<1>4. ASSUME gtAt'[c].gen = gtGen'[n][g]
      PROVE  gtAt[c].gen = gtGen[n][g] /\ (EvictionDue(n, g) => EvictionDue(n, g)')
  <2>1. gtGen'[n][g] = gtGen[n][g] /\ gtAt[c].gen = gtGen[n][g]
    <3>1. PICK a \in Nat, k \in Nat, k2 \in Nat : a = gtAt[c].gen /\ k = gtGen[n][g] /\ k2 = gtGen'[n][g]
      BY <1>1, Zenon
    <3>2. a = gtAt'[c].gen /\ a = k2 /\ a <= k /\ k <= k2
      BY <1>1, <1>2, <1>4, <3>1, Zenon
    <3>3. k2 = k /\ a = k
      BY <3>2, Squeezed, Zenon
    <3> QED  BY <3>1, <3>3, Zenon
  <2>2. ~(gtGen[n][g] < gtGen'[n][g])
    BY <1>1, <2>1
  <2> QED  BY <1>1, <2>1, <2>2, Zenon
<1>5. ASSUME gtAt'[c].gen = gtGen'[n][g], gtPc'[c] = "members"
      PROVE  gtAt'[c].seen = gtGns'[g] \/ EvictionDue(n, g)'
  BY <1>1, <1>4, <1>5, Zenon DEF GtReadIs, GtSame
<1>6. ASSUME gtAt'[c].gen = gtGen'[n][g], gtPc'[c] = "fill"
      PROVE  \E e \in GtEntries : gtAt'[c].seen = {e} /\ GtUsable(n, g, e)'
  BY <1>1, <1>4, <1>6, Zenon DEF GtReadIs, GtUsable, GtSame
<1> QED  BY <1>3, <1>5, <1>6, Zenon DEF GtReadIs

\* The topology of a group depends on its own instances.
LEMMA SameTopology ==
    ASSUME GtTypes, NEW g \in GtGroups, gtGns'[g] = gtGns[g],
           \A ns \in GtSpaces : gtMembers'[<<g, ns>>] = gtMembers[<<g, ns>>]
    PROVE  GtSame(g)
<1>1. gtGns[g] \subseteq GtSpaces
  BY Zenon DEF GtTypes
<1>2. {gtMembers'[<<g, ns>>] : ns \in gtGns[g]} = {gtMembers[<<g, ns>>] : ns \in gtGns[g]}
  BY <1>1, Zenon
<1> QED  BY <1>2, Zenon DEF GtSame, Aggregate

\* A step that moves no mark, no publication and no write.
LEMMA NothingToTell ==
    ASSUME GtTypes, GtNodeTypes, UNCHANGED <<gtMembers, gtGns, gtGen, gtDirty, gtNet, gtLost, gtWrote>>,
           \A d \in gtWrote : gtTodo'[d] = gtTodo[d]
    PROVE  GtTells({})
<1>1. \A n \in GtNodes, g \in GtGroups : gtGen[n][g] <= gtGen'[n][g]
  BY DEF GtNodeTypes
<1> QED  BY <1>1, SameTopology DEF GtTells, EvictionDue, GtCurrent

\* A write of caller c to its group: the eviction is due from now on.
LEMMA WriteTells ==
    ASSUME GtTypes, GtNodeTypes, NEW c \in DOMAIN gtTodo, UNCHANGED <<gtLocal, gtTodo>>, gtWrote' = gtWrote \cup {c},
           \A g \in GtGroups : g # GtCurrent(c).group =>
               gtGns'[g] = gtGns[g] /\ \A ns \in GtSpaces : gtMembers'[<<g, ns>>] = gtMembers[<<g, ns>>]
    PROVE  GtTells({})
<1>1. \A n \in GtNodes, g \in GtGroups : EvictionDue(n, g) => EvictionDue(n, g)'
  BY Zenon DEF EvictionDue, GtCurrent, gtLocal
<1>2. \A n \in GtNodes, g \in GtGroups : g = GtCurrent(c).group => EvictionDue(n, g)'
  BY Zenon DEF EvictionDue, GtCurrent
<1>3. \A n \in GtNodes, g \in GtGroups : gtGen[n][g] <= gtGen'[n][g]
  BY DEF GtNodeTypes, gtLocal
<1> QED  BY <1>1, <1>2, <1>3, SameTopology, Zenon DEF GtTells

\* What an eviction does to the cache, the generations and the losses.
LEMMA EvictionDone ==
    ASSUME GtNodeTypes, NEW n \in GtNodes, NEW gs \in SUBSET GtGroups, GtEvict(n, gs)
    PROVE  /\ gtCache' \in [GtNodes -> [GtGroups -> GtEntries]] /\ gtGen' \in [GtNodes -> [GtGroups -> Nat]]
           /\ \A m \in GtNodes, g \in GtGroups :
                 IF m = n /\ g \in gs
                 THEN gtCache'[m][g] = GtMissing /\ gtGen[m][g] < gtGen'[m][g]
                 ELSE gtCache'[m][g] = gtCache[m][g] /\ gtGen'[m][g] = gtGen[m][g]
           /\ \A m \in GtNodes, g \in GtGroups : gtGen[m][g] <= gtGen'[m][g]
           /\ \A m \in GtNodes, g \in GtGroups : <<m, g>> \in gtLost => <<m, g>> \in gtLost' \/ (m = n /\ g \in gs)
<1>1. PICK es, ks : /\ es = [g \in GtGroups |-> IF g \in gs THEN GtMissing ELSE gtCache[n][g]]
                    /\ ks = [g \in GtGroups |-> IF g \in gs THEN gtGen[n][g] + 1 ELSE gtGen[n][g]]
  BY Zenon
<1>2. gtCache' = [gtCache EXCEPT ![n] = es] /\ gtGen' = [gtGen EXCEPT ![n] = ks] /\ gtLost' = gtLost \ ({n} \X gs)
  BY <1>1, Zenon DEF GtEvict
<1>3. gtCache \in [GtNodes -> [GtGroups -> GtEntries]] /\ gtGen \in [GtNodes -> [GtGroups -> Nat]]
  BY Zenon DEF GtNodeTypes
<1>4. GtMissing \in GtEntries
  BY DEF GtMissing, GtEntries
<1>5. gtCache' \in [GtNodes -> [GtGroups -> GtEntries]] /\ gtGen' \in [GtNodes -> [GtGroups -> Nat]]
  BY <1>1, <1>2, <1>3, <1>4
<1>6. ASSUME NEW m \in GtNodes, NEW g \in GtGroups
      PROVE  /\ IF m = n /\ g \in gs
                THEN gtCache'[m][g] = GtMissing /\ gtGen[m][g] < gtGen'[m][g]
                ELSE gtCache'[m][g] = gtCache[m][g] /\ gtGen'[m][g] = gtGen[m][g]
             /\ gtGen[m][g] <= gtGen'[m][g]
  BY <1>1, <1>2, <1>3, <1>6
<1>7. \A m \in GtNodes, g \in GtGroups : <<m, g>> \in gtLost => <<m, g>> \in gtLost' \/ (m = n /\ g \in gs)
  BY <1>2
<1> QED  BY <1>5, <1>6, <1>7, Zenon

\* invalidateLocal: the node of the writer evicts, the others have the mark.
LEMMA LocalEvictionTells ==
    ASSUME GtTypes, GtNodeTypes, GtWriters, NEW c \in DOMAIN gtTodo, NEW n \in GtNodes, NEW h \in GtGroups,
           n = GtCurrent(c).node, h = GtCurrent(c).group, GtEvict(n, {h}), MarkDirty(n, h),
           gtWrote' = gtWrote \ {c}, UNCHANGED <<gtMembers, gtGns, gtNet>>,
           \A d \in gtWrote \ {c} : gtTodo'[d] = gtTodo[d]
    PROVE  GtTells({})
<1>1. \A g \in GtGroups : GtSame(g)
  BY SameTopology, Zenon
<1>2. /\ \A m \in GtNodes, g \in GtGroups : gtGen[m][g] <= gtGen'[m][g]
      /\ gtCache'[n][h] = GtMissing /\ gtGen[n][h] < gtGen'[n][h]
      /\ \A m \in GtNodes, g \in GtGroups : <<m, g>> \in gtLost => <<m, g>> \in gtLost' \/ (m = n /\ g = h)
  BY EvictionDone
<1>3. (\A m \in GtNodes : gtDirty[m] \subseteq gtDirty'[m]) /\ h \in gtDirty'[n]
  BY Zenon DEF MarkDirty, GtNodeTypes
<1>4. ASSUME NEW m \in GtNodes, NEW g \in GtGroups, EvictionDue(m, g), ~(m = n /\ g = h)
      PROVE  EvictionDue(m, g)'
  <2>1. CASE g = h
    BY <1>3, <1>4, <2>1, Zenon DEF EvictionDue
  <2>2. CASE g # h
    <3>1. ASSUME NEW d \in gtWrote, GtCurrent(d).group = g  PROVE  d \in gtWrote' /\ GtCurrent(d)'.group = g
      BY <2>2, <3>1, Zenon DEF GtCurrent
    <3> QED  BY <1>2, <1>3, <1>4, <2>2, <3>1, Zenon DEF EvictionDue
  <2> QED  BY <2>1, <2>2, Zenon
<1> QED  BY <1>1, <1>2, <1>4, Zenon DEF GtTells

\* FlushInvalidations: a mark becomes a publication, or a loss.
LEMMA FlushTells ==
    ASSUME GtTypes, GtNodeTypes, NEW n \in GtNodes, FlushInvalidations(n)
    PROVE  GtTells({})
<1>1. \A g \in GtGroups : GtSame(g)
  BY SameTopology, Zenon DEF FlushInvalidations, gtStore
<1>2. \A m \in GtNodes, g \in GtGroups : gtGen[m][g] <= gtGen'[m][g]
  BY DEF FlushInvalidations, GtNodeTypes
<1>3. ASSUME NEW m \in GtNodes, NEW g \in GtGroups, EvictionDue(m, g)
      PROVE  EvictionDue(m, g)'
  <2>1. gtDirty' = [gtDirty EXCEPT ![n] = {}] /\ UNCHANGED <<gtTodo, gtWrote>> /\ PublishGroupInvalidations(n, gtDirty[n])
    BY DEF FlushInvalidations, gtCall
  <2>2. PICK q \in Seq(SUBSET GtGroups) : q = gtNet[m]
    BY Zenon DEF GtNodeTypes
  <2>3. gtDirty[n] \in SUBSET GtGroups
    BY Zenon DEF GtNodeTypes
  <2>4. gtNet'[m] = q \/ gtNet'[m] = Append(q, gtDirty[n])
    BY <2>1, <2>2, Zenon DEF PublishGroupInvalidations
  <2>5. \A i \in DOMAIN q : i \in DOMAIN gtNet'[m] /\ gtNet'[m][i] = q[i]
    BY <2>3, <2>4
  <2>6. CASE \E k \in GtNodes \ {m} : g \in gtDirty[k] /\ k # n
    BY <2>1, <2>6, Zenon DEF EvictionDue, GtNodeTypes
  <2>7. CASE m # n /\ g \in gtDirty[n]
    <3>1. CASE gtNet'[m] = Append(q, gtDirty[n])
      <4>1. Len(q) + 1 \in DOMAIN Append(q, gtDirty[n]) /\ Append(q, gtDirty[n])[Len(q) + 1] = gtDirty[n]
        BY <2>3
      <4> QED  BY <2>7, <3>1, <4>1, Zenon DEF EvictionDue
    <3>2. CASE gtLost' = gtLost \cup ((GtNodes \ {n}) \X gtDirty[n])
      BY <2>7, <3>2, Zenon DEF EvictionDue
    <3> QED  BY <2>1, <2>2, <2>7, <3>1, <3>2, Zenon DEF PublishGroupInvalidations
  <2>8. CASE \E d \in gtWrote : GtCurrent(d).group = g
    BY <2>1, <2>8, Zenon DEF EvictionDue, GtCurrent
  <2>9. CASE \E i \in DOMAIN gtNet[m] : g \in gtNet[m][i]
    BY <2>2, <2>5, <2>9, Zenon DEF EvictionDue
  <2>10. CASE <<m, g>> \in gtLost
    BY <2>1, <2>10, Zenon DEF EvictionDue, PublishGroupInvalidations
  <2> QED  BY <1>3, <2>6, <2>7, <2>8, <2>9, <2>10, Zenon DEF EvictionDue
<1> QED  BY <1>1, <1>2, <1>3, Zenon DEF GtTells

\* handleGroupInvalidate: what leaves the queue is evicted.
LEMMA HandleTells ==
    ASSUME GtTypes, GtNodeTypes, NEW n \in GtNodes, handleGroupInvalidate(n)
    PROVE  GtTells({})
<1>1. \A g \in GtGroups : GtSame(g)
  BY SameTopology, Zenon DEF handleGroupInvalidate, gtStore
<1>2. PICK q \in Seq(SUBSET GtGroups), gs \in SUBSET GtGroups : q = gtNet[n] /\ q # <<>> /\ gs = Head(q)
  BY DEF handleGroupInvalidate, GtNodeTypes
<1>3. /\ gs \in SUBSET GtGroups /\ GtEvict(n, gs) /\ gtNet' = [gtNet EXCEPT ![n] = Tail(q)]
      /\ UNCHANGED <<gtDirty, gtTodo, gtWrote>>
  BY <1>2, Zenon DEF handleGroupInvalidate, gtCall
<1>4. /\ \A m \in GtNodes, g \in GtGroups : gtGen[m][g] <= gtGen'[m][g]
      /\ \A g \in gs : gtCache'[n][g] = GtMissing /\ gtGen[n][g] < gtGen'[n][g]
      /\ \A m \in GtNodes, g \in GtGroups : <<m, g>> \in gtLost => <<m, g>> \in gtLost' \/ (m = n /\ g \in gs)
  BY <1>3, EvictionDone, Zenon
<1>5. ASSUME NEW m \in GtNodes, NEW g \in GtGroups, EvictionDue(m, g), ~(m = n /\ g \in gs)
      PROVE  EvictionDue(m, g)'
  <2>1. CASE \E i \in DOMAIN gtNet[m] : g \in gtNet[m][i]
    <3>1. CASE m # n
      BY <1>3, <2>1, <3>1, Zenon DEF EvictionDue, GtNodeTypes
    <3>2. CASE m = n
      <4>1. PICK i \in 1 .. Len(q) : g \in q[i]
        BY <1>2, <2>1, <3>2
      <4>2. i # 1
        BY <1>2, <1>5, <3>2, <4>1
      <4>3. i - 1 \in DOMAIN Tail(q) /\ Tail(q)[i - 1] = q[i]
        BY <1>2, <4>1, <4>2
      <4>4. gtNet'[m] = Tail(q)
        BY <1>3, <3>2, Zenon DEF GtNodeTypes
      <4> QED  BY <4>1, <4>3, <4>4, ZenonT(60) DEF EvictionDue
    <3> QED  BY <3>1, <3>2, Zenon
  <2>2. CASE ~\E i \in DOMAIN gtNet[m] : g \in gtNet[m][i]
    BY <1>3, <1>4, <1>5, <2>2, Zenon DEF EvictionDue, GtCurrent
  <2> QED  BY <2>1, <2>2, Zenon
<1> QED  BY <1>1, <1>4, <1>5, Zenon DEF GtTells

\* A crash loses the marks and the writes of its node: the others may be left
\* with what they have.
LEMMA CrashTells ==
    ASSUME GtTypes, GtNodeTypes, NEW n \in GtNodes, GtCrash(n), GtWriters
    PROVE  GtTells({n})
<1>1. \A g \in GtGroups : GtSame(g)
  BY SameTopology, Zenon DEF GtCrash, gtStore
<1>2. \A m \in GtNodes \ {n}, g \in GtGroups : gtGen[m][g] <= gtGen'[m][g]
  BY DEF GtCrash, GtNodeTypes
<1>3. PICK mine, unsaid :
        /\ mine = {c \in DOMAIN gtTodo : gtTodo[c] # <<>> /\ GtCurrent(c).node = n /\ gtPc[c] # "start"}
        /\ unsaid = gtDirty[n] \cup {GtCurrent(c).group : c \in mine \cap gtWrote}
  BY Zenon
<1>4. /\ gtLost' = gtLost \cup ((GtNodes \ {n}) \X unsaid) /\ gtDirty' = [gtDirty EXCEPT ![n] = {}]
      /\ gtNet' = [gtNet EXCEPT ![n] = <<>>] /\ gtWrote' = gtWrote \ mine
      /\ \A d \in DOMAIN gtTodo \ mine : gtTodo'[d] = gtTodo[d]
  BY <1>3, Zenon DEF GtCrash
<1>5. ASSUME NEW m \in GtNodes \ {n}, NEW g \in GtGroups, EvictionDue(m, g)
      PROVE  EvictionDue(m, g)'
  <2>1. g \in unsaid => EvictionDue(m, g)'
    BY <1>4, Zenon DEF EvictionDue
  <2>2. CASE \E d \in gtWrote : GtCurrent(d).group = g
    <3>1. PICK d \in gtWrote : GtCurrent(d).group = g
      BY <2>2
    <3>2. CASE d \in mine
      BY <1>3, <2>1, <3>1, <3>2, Zenon
    <3>3. CASE d \notin mine
      BY <1>4, <3>1, <3>3, Zenon DEF EvictionDue, GtCurrent, GtWriters
    <3> QED  BY <3>2, <3>3
  <2>3. CASE \E k \in GtNodes \ {m} : g \in gtDirty[k]
    <3>1. PICK k \in GtNodes \ {m} : g \in gtDirty[k]
      BY <2>3, Zenon
    <3>2. CASE k = n
      BY <1>3, <2>1, <3>1, <3>2, Zenon
    <3>3. CASE k # n
      BY <1>4, <3>1, <3>3, Zenon DEF EvictionDue, GtNodeTypes
    <3> QED  BY <3>2, <3>3
  <2>4. CASE \E i \in DOMAIN gtNet[m] : g \in gtNet[m][i]
    BY <1>4, <2>4, Zenon DEF EvictionDue, GtNodeTypes
  <2>5. CASE <<m, g>> \in gtLost
    BY <1>4, <2>5, Zenon DEF EvictionDue
  <2> QED  BY <1>5, <2>2, <2>3, <2>4, <2>5, Zenon DEF EvictionDue
<1> QED  BY <1>1, <1>2, <1>5, Zenon DEF GtTells

\* The inductive invariant.
GtFreshAll == GtInv /\ GtFresh

\* The callers other than c stand still.
GtOthers(c) ==
    /\ DOMAIN gtTodo' = DOMAIN gtTodo
    /\ \A d \in DOMAIN gtTodo : d # c => gtTodo'[d] = gtTodo[d] /\ gtPc'[d] = gtPc[d] /\ gtAt'[d] = gtAt[d]

\* The types of the callers, after the three ways in which a call goes on.
GtCallerTypes ==
    /\ gtPc \in [DOMAIN gtTodo -> GtPlaces]
    /\ gtAt \in [DOMAIN gtTodo -> GtNotes]

\* GtGoto, GtKeep and GtReturn move the caller as they say.
LEMMA CallerGoesOn ==
    ASSUME GtCallerTypes, GtAsked, NEW c \in DOMAIN gtTodo, NEW p \in GtPlaces,
           NEW at \in GtNotes,
           GtGoto(c, p) \/ GtKeep(c, p, at) \/ GtReturn(c)
    PROVE  /\ GtCallerTypes' /\ GtOthers(c)
           /\ GtGoto(c, p) => gtPc'[c] = p /\ gtTodo' = gtTodo
           /\ GtKeep(c, p, at) => gtPc'[c] = p /\ gtAt'[c] = at /\ gtTodo' = gtTodo
           /\ GtReturn(c) => gtPc'[c] = "start"
<1>1. [gen |-> 0, seen |-> {}] \in GtNotes /\ "start" \in GtPlaces
  BY DEF GtPlaces, GtNotes
<1>2. DOMAIN gtTodo' = DOMAIN gtTodo
  BY Zenon DEF GtGoto, GtKeep, GtReturn, GtAsked
<1>3. GtCallerTypes'
  <2>1. PICK none \in GtNotes : none = [gen |-> 0, seen |-> {}]
    BY <1>1
  <2>2. gtPc' = [gtPc EXCEPT ![c] = p] \/ gtPc' = [gtPc EXCEPT ![c] = "start"]
    BY Zenon DEF GtGoto, GtKeep, GtReturn
  <2>3. gtAt' = gtAt \/ gtAt' = [gtAt EXCEPT ![c] = at] \/ gtAt' = [gtAt EXCEPT ![c] = none]
    BY <2>1, Zenon DEF GtGoto, GtKeep, GtReturn
  <2> QED  BY <1>1, <1>2, <2>1, <2>2, <2>3 DEF GtCallerTypes
<1>4. GtOthers(c)
  BY <1>2, Zenon DEF GtOthers, GtCallerTypes, GtGoto, GtKeep, GtReturn, GtAsked
<1>5. /\ GtGoto(c, p) => gtPc'[c] = p /\ gtTodo' = gtTodo
      /\ GtKeep(c, p, at) => gtPc'[c] = p /\ gtAt'[c] = at /\ gtTodo' = gtTodo
      /\ GtReturn(c) => gtPc'[c] = "start"
  BY Zenon DEF GtCallerTypes, GtGoto, GtKeep, GtReturn
<1> QED  BY <1>3, <1>4, <1>5, Zenon

\* A reader reads a group on a node.
LEMMA ReaderAsks ==
    ASSUME GtAsked, NEW c \in DOMAIN gtTodo, GtReads(c)
    PROVE  GtCurrent(c).node \in GtNodes /\ GtCurrent(c).group \in GtGroups
  BY CurrentIsACall, Zenon DEF GtReads, GtStage, GtCalls

\* A step of caller c.
LEMMA CallerKeepsFresh ==
    ASSUME GtFreshAll, NEW c \in DOMAIN gtTodo, GtTells({}), GtOthers(c),
           gtGen' \in [GtNodes -> [GtGroups -> Nat]],
           GtReads(c)' => \E n \in GtNodes, g \in GtGroups :
                             n = GtCurrent(c)'.node /\ g = GtCurrent(c)'.group /\ GtReadIs(c, n, g)'
    PROVE  GtReaders'
<1> SUFFICES ASSUME NEW d \in DOMAIN gtTodo, GtReads(d)', d # c
             PROVE  \E n \in GtNodes, g \in GtGroups :
                       n = GtCurrent(d)'.node /\ g = GtCurrent(d)'.group /\ GtReadIs(d, n, g)'
  BY Zenon DEF GtReaders, GtOthers
<1>1. gtTodo'[d] = gtTodo[d] /\ gtPc'[d] = gtPc[d] /\ gtAt'[d] = gtAt[d]
  BY Zenon DEF GtOthers
<1>2. GtReads(d) /\ GtCurrent(d)' = GtCurrent(d)
  BY <1>1, Zenon DEF GtReads, GtStage, GtCurrent
<1>3. PICK n \in GtNodes, g \in GtGroups : n = GtCurrent(d).node /\ g = GtCurrent(d).group /\ GtReadIs(d, n, g)
  BY <1>2, ReaderAsks, Zenon DEF GtFreshAll, GtInv, GtFresh, GtReaders
<1>4. gtGen \in [GtNodes -> [GtGroups -> Nat]] /\ gtAt[d].gen \in Nat
  BY Zenon DEF GtFreshAll, GtFresh, GtNodeTypes, GtNotes
<1>5. GtReadIs(d, n, g)'
  <2>1. PICK dead : dead = {} /\ GtTells(dead) /\ n \in GtNodes \ dead
    BY <1>3
  <2> QED  BY <1>1, <1>3, <1>4, <2>1, ReaderStays, ZenonT(60)
<1> QED  BY <1>2, <1>3, <1>5, Zenon

\* The types of the nodes.
GtHolds ==
    /\ gtCache \in [GtNodes -> [GtGroups -> GtEntries]]
    /\ gtGen \in [GtNodes -> [GtGroups -> Nat]]
    /\ gtDirty \in [GtNodes -> SUBSET GtGroups]
    /\ gtNet \in [GtNodes -> Seq(SUBSET GtGroups)]

\* A step of a caller that leaves the nodes alone, except that the calls may
\* count as writing.
LEMMA CallKeepsFresh ==
    ASSUME GtFreshAll, NEW c \in DOMAIN gtTodo, gtTodo[c] # <<>>, UNCHANGED gtLocal, GtTells({}),
           NEW p \in GtPlaces, NEW at \in GtNotes, GtGoto(c, p) \/ GtKeep(c, p, at) \/ GtReturn(c),
           gtWrote' \subseteq gtWrote \cup {c},
           c \in gtWrote' => GtGoto(c, p) /\ p \in {"created", "unlist", "evict"},
           GtReads(c)' => \E n \in GtNodes, g \in GtGroups :
                             n = GtCurrent(c)'.node /\ g = GtCurrent(c)'.group /\ GtReadIs(c, n, g)'
    PROVE  GtFresh'
<1>1. GtCallerTypes /\ GtHolds /\ GtAsked
  BY Zenon DEF GtFreshAll, GtInv, GtFresh, GtNodeTypes, GtCallerTypes, GtHolds
<1>2. /\ GtCallerTypes' /\ GtOthers(c)
      /\ GtGoto(c, p) => gtPc'[c] = p /\ gtTodo' = gtTodo
  BY <1>1, CallerGoesOn, Zenon
<1>3. GtHolds'
  BY <1>1, Zenon DEF GtHolds, gtLocal
<1>4. GtNodeTypes'
  BY <1>2, <1>3, Zenon DEF GtNodeTypes, GtCallerTypes, GtHolds
<1>5. GtWriters'
  BY <1>2, Zenon DEF GtFreshAll, GtFresh, GtWriters, GtOthers
<1>6. GtReaders'
  BY <1>2, <1>3, CallerKeepsFresh, Zenon DEF GtHolds
<1>7. CachedTopologyIsCurrent'
  BY CacheStays, Zenon DEF GtFreshAll, GtFresh, gtLocal
<1> QED  BY <1>4, <1>5, <1>6, <1>7, Zenon DEF GtFresh

\* A write: the caller is on its way to the eviction.
LEMMA WriteKeepsFresh ==
    ASSUME GtFreshAll, NEW c \in DOMAIN gtTodo, gtTodo[c] # <<>>, UNCHANGED gtLocal,
           NEW p \in {"created", "unlist", "evict"}, GtGoto(c, p), gtWrote' = gtWrote \cup {c},
           \A g \in GtGroups : g # GtCurrent(c).group =>
               gtGns'[g] = gtGns[g] /\ \A ns \in GtSpaces : gtMembers'[<<g, ns>>] = gtMembers[<<g, ns>>]
    PROVE  GtFresh'
  BY WriteTells, CallKeepsFresh, Zenon DEF GtFreshAll, GtInv, GtStoreInv, GtFresh, GtGoto,
     GtPlaces, GtNodeTypes, GtReads, GtStage

\* A step that reads, decides or returns.
LEMMA StillKeepsFresh ==
    ASSUME GtFreshAll, NEW c \in DOMAIN gtTodo, gtTodo[c] # <<>>,
           UNCHANGED <<gtMembers, gtGns, gtLocal, gtWrote>>,
           NEW p \in GtPlaces, NEW at \in GtNotes, GtGoto(c, p) \/ GtKeep(c, p, at) \/ GtReturn(c),
           c \in gtWrote => GtGoto(c, p) /\ p \in {"created", "unlist", "evict"},
           GtReads(c)' => \E n \in GtNodes, g \in GtGroups :
                             n = GtCurrent(c)'.node /\ g = GtCurrent(c)'.group /\ GtReadIs(c, n, g)'
    PROVE  GtFresh'
  BY NothingToTell, CallKeepsFresh, Zenon DEF GtFreshAll, GtInv, GtStoreInv, GtFresh, GtWriters,
     GtGoto, GtKeep, GtReturn, gtLocal

\* The writes of a call concern its own group.
LEMMA CreatesKeepsFresh ==
    ASSUME GtFreshAll, NEW c \in DOMAIN gtTodo, gtTodo[c] # <<>>, NEW limit, GtCreates(c, limit)
    PROVE  GtFresh'
  BY CurrentIsACall, WriteKeepsFresh, Zenon DEF GtFreshAll, GtInv, GtCreates, GtStoreInv, GtTypes,
     GtCalls, createGroup

\* AddMembers and the removal of a member.
LEMMA MembersKeepFresh ==
    ASSUME GtFreshAll, NEW c \in DOMAIN gtTodo, AddMembers(c) \/ (gtTodo[c] # <<>> /\ GtRemoves(c))
    PROVE  GtFresh'
  BY CurrentIsACall, WriteKeepsFresh, Zenon DEF AddMembers, GtStage, GtFreshAll, GtInv, GtRemoves,
     AddMember, RemoveMember, GtStoreInv, GtTypes, GtCalls

\* DeleteGroup.
LEMMA DeleteKeepsFresh ==
    ASSUME GtFreshAll, NEW c \in DOMAIN gtTodo, DeleteGroup(c)
    PROVE  GtFresh'
  BY CurrentIsACall, WriteKeepsFresh DEF DeleteGroup, GtStage, GtFreshAll, GtInv, GtStoreInv,
     GtTypes, GtCalls, DropGroup

\* A step that goes to a place where nothing is read.
LEMMA SilentKeepsFresh ==
    ASSUME GtFreshAll, NEW c \in DOMAIN gtTodo, gtTodo[c] # <<>>,
           UNCHANGED <<gtMembers, gtGns, gtLocal, gtWrote>>,
           NEW p \in GtPlaces \ {"instances", "members", "fill"}, NEW at \in GtNotes,
           GtGoto(c, p) \/ GtKeep(c, p, at) \/ GtReturn(c),
           gtPc[c] \notin {"created", "unlist", "evict"} \/ (gtPc[c] = "unlist" /\ p = "evict" /\ GtGoto(c, p))
    PROVE  GtFresh'
  BY StillKeepsFresh, CallerGoesOn DEF GtReads, GtStage, GtFreshAll, GtInv, GtFresh, GtNodeTypes,
     GtCallerTypes, GtWriters

\* The steps that read the store and decide, and disbandNsIndex.
LEMMA DecisionsKeepFresh ==
    ASSUME GtFreshAll, NEW c \in DOMAIN gtTodo,
           \/ GetGroup(c) \/ CheckLimit(c) \/ ReadMembers(c) \/ disbandNsIndex(c)
           \/ GtStage(c, {"leave"}, "start") /\ GtReturn(c) /\ UNCHANGED <<gtStore, gtLocal, gtWrote, gtFaults>>
    PROVE  GtFresh'
<1>1. /\ gtTodo[c] # <<>> /\ gtPc[c] \in {"start", "count", "unlist"}
      /\ UNCHANGED <<gtMembers, gtGns, gtLocal, gtWrote>>
  BY Zenon DEF GetGroup, CheckLimit, ReadMembers, disbandNsIndex, GtStage, gtStore
<1>2. PICK none \in GtNotes : none = gtAt[c]
  BY Zenon DEF GtFreshAll, GtFresh, GtNodeTypes
<1>3. CASE GetGroup(c)
  <2>1. PICK p \in {"create", "write", "count"} : GtGoto(c, p)
    BY <1>3, Zenon DEF GetGroup
  <2>2. p \in GtPlaces \ {"instances", "members", "fill"} /\ gtPc[c] = "start"
    BY <1>3, Zenon DEF GtPlaces, GetGroup, GtStage
  <2> QED  BY <1>1, <1>2, <2>1, <2>2, SilentKeepsFresh, Zenon
<1>4. CASE CheckLimit(c)
  <2>1. "write" \in GtPlaces \ {"instances", "members", "fill"} /\ gtPc[c] = "count"
    BY <1>4, Zenon DEF GtPlaces, CheckLimit, GtStage
  <2>2. GtReturn(c) \/ GtGoto(c, "write")
    BY <1>4, Zenon DEF CheckLimit
  <2> QED  BY <1>1, <1>2, <2>1, <2>2, SilentKeepsFresh, Zenon
<1>5. CASE ReadMembers(c)
  BY <1>1, <1>5, CurrentIsACall, SilentKeepsFresh, Zenon DEF GtFreshAll, GtInv, GtCalls,
     GtStoreInv, GtTypes, GtNotes, ReadMembers, GtStage, GtPlaces
<1>6. CASE disbandNsIndex(c)
  BY <1>1, <1>2, <1>6, SilentKeepsFresh, Zenon DEF GtPlaces, disbandNsIndex, GtStage
<1>7. CASE GtStage(c, {"leave"}, "start") /\ GtReturn(c)
  BY <1>1, <1>2, <1>7, SilentKeepsFresh, Zenon DEF GtPlaces, GtStage
<1> QED  BY <1>3, <1>4, <1>5, <1>6, <1>7

\* The topology that a reader aggregates.
LEMMA AggregateIsAnEntry ==
    ASSUME GtTypes, NEW g \in GtGroups, NEW spaces \in SUBSET GtSpaces
    PROVE  Aggregate(g, spaces) \in GtEntries /\ Aggregate(g, spaces) # GtMissing
<1>1. UNION {gtMembers[<<g, ns>>] : ns \in spaces} \subseteq GtUsers
  BY ZenonT(60) DEF GtTypes
<1> QED  BY <1>1, Zenon DEF Aggregate, GtNoInstance, GtListed, GtEntries, GtMissing

\* A step of a reader that notes something, and may keep it.
LEMMA NoteKeepsFresh ==
    ASSUME GtFreshAll, NEW c \in DOMAIN gtTodo, gtTodo[c] # <<>>,
           UNCHANGED <<gtMembers, gtGns, gtLocal, gtWrote>>,
           gtPc[c] \notin {"created", "unlist", "evict"},
           NEW n \in GtNodes, NEW g \in GtGroups, n = GtCurrent(c).node, g = GtCurrent(c).group,
           NEW p \in {"instances", "members", "fill"}, NEW at \in GtNotes, GtKeep(c, p, at),
           at.gen <= gtGen[n][g], p = "members" => at.seen \subseteq GtSpaces,
           at.gen = gtGen[n][g] =>
              /\ p = "members" => at.seen = gtGns[g] \/ EvictionDue(n, g)
              /\ p = "fill" => \E e \in GtEntries : at.seen = {e} /\ GtUsable(n, g, e)
    PROVE  GtFresh'
<1>1. GtCallerTypes /\ GtAsked /\ GtTypes /\ p \in GtPlaces /\ c \notin gtWrote
  BY Zenon DEF GtFreshAll, GtInv, GtStoreInv, GtFresh, GtNodeTypes, GtCallerTypes, GtWriters,
     GtPlaces
<1>2. gtPc'[c] = p /\ gtAt'[c] = at /\ gtTodo' = gtTodo
  BY <1>1, CallerGoesOn, Zenon
<1>3. n = GtCurrent(c)'.node /\ g = GtCurrent(c)'.group
  BY <1>2, ZenonT(60) DEF GtCurrent
<1>4. EvictionDue(n, g) => EvictionDue(n, g)'
  BY <1>2, Zenon DEF EvictionDue, GtCurrent, gtLocal
<1>5. GtSame(g)
  BY <1>1, SameTopology, Zenon
<1>6. \A e : GtUsable(n, g, e) => GtUsable(n, g, e)'
  BY <1>4, <1>5, Zenon DEF GtUsable, GtSame
<1>7. GtReadIs(c, n, g)'
  BY <1>2, <1>4, <1>6, Zenon DEF GtReadIs, gtLocal
<1> QED  BY <1>1, <1>3, <1>7, StillKeepsFresh, Zenon

\* A note that changes in what was seen.
LEMMA NoteChanges ==
    ASSUME NEW a \in GtNotes, NEW seen \in SUBSET (GtUsers \cup GtSpaces \cup GtEntries)
    PROVE  \E at \in GtNotes : at = [a EXCEPT !.seen = seen] /\ at.gen = a.gen /\ at.seen = seen
<1> DEFINE at == [a EXCEPT !.seen = seen]
<1>1. at \in GtNotes /\ at.gen = a.gen /\ at.seen = seen
  BY DEF GtNotes
<1> QED  BY <1>1, Zenon

\* The reads of GetMultiGroupMembers: what a reader notes is current, or spoilt.
LEMMA ReadingKeepsFresh ==
    ASSUME GtFreshAll, NEW c \in DOMAIN gtTodo, LookupTopology(c) \/ ReadInstances(c) \/ ReadTopology(c)
    PROVE  GtFresh'
<1>1. /\ gtTodo[c] # <<>> /\ gtPc[c] \in {"start", "instances", "members"}
      /\ UNCHANGED <<gtMembers, gtGns, gtLocal, gtWrote>>
  BY Zenon DEF LookupTopology, ReadInstances, ReadTopology, GtStage, gtStore
<1>2. PICK o \in GtCalls : o = GtCurrent(c)
  BY <1>1, CurrentIsACall DEF GtFreshAll, GtInv
<1>3. PICK n \in GtNodes, g \in GtGroups : n = GtCurrent(c).node /\ g = GtCurrent(c).group
  BY <1>2 DEF GtCalls
<1>4. PICK a \in GtNotes, i \in Nat : a = gtAt[c] /\ i = gtGen[n][g]
  BY Zenon DEF GtFreshAll, GtFresh, GtNodeTypes
<1>5. GtTypes /\ gtGns[g] \in SUBSET GtSpaces
  BY Zenon DEF GtFreshAll, GtInv, GtStoreInv, GtTypes
<1>6. GtReads(c) => GtReadIs(c, n, g)
  BY <1>3 DEF GtFreshAll, GtFresh, GtReaders
<1>7. ASSUME GtReturn(c)  PROVE  GtFresh'
  <2>1. "start" \in GtPlaces \ {"instances", "members", "fill"}
    BY DEF GtPlaces
  <2> QED  BY <1>1, <1>4, <1>7, <2>1, SilentKeepsFresh, Zenon
<1>8. CASE LookupTopology(c)
  <2>1. PICK at \in GtNotes : at = [gen |-> i, seen |-> {}]
    BY Zenon DEF GtNotes
  <2>2. GtReturn(c) \/ GtKeep(c, "instances", at)
    BY <1>3, <1>4, <1>8, <2>1, Zenon DEF LookupTopology
  <2>3. at.gen <= i
    BY <2>1
  <2> QED  BY <1>1, <1>3, <1>4, <1>7, <2>2, <2>3, NoteKeepsFresh, Zenon
<1>9. CASE ReadInstances(c)
  <2>1. PICK at \in GtNotes : at = [a EXCEPT !.seen = gtGns[g]] /\ at.gen = a.gen /\ at.seen = gtGns[g]
    BY <1>5, NoteChanges, Zenon
  <2>2. GtKeep(c, "members", at) /\ GtReads(c)
    BY <1>3, <1>4, <1>9, <2>1, Zenon DEF ReadInstances, GtReads
  <2>3. at.gen <= i
    BY <1>4, <1>6, <2>1, <2>2, Zenon DEF GtReadIs
  <2> QED  BY <1>1, <1>3, <1>4, <1>5, <2>1, <2>2, <2>3, NoteKeepsFresh, Zenon
<1>10. CASE ReadTopology(c)
  <2>1. GtReads(c) /\ gtPc[c] = "members"
    BY <1>10, Zenon DEF ReadTopology, GtReads, GtStage
  <2>2. a.gen <= i /\ a.seen \in SUBSET GtSpaces /\ (a.gen = i => a.seen = gtGns[g] \/ EvictionDue(n, g))
    BY <1>4, <1>6, <2>1, Zenon DEF GtReadIs
  <2>3. PICK e \in GtEntries : e = Aggregate(g, a.seen)
    BY <1>5, <2>2, AggregateIsAnEntry
  <2>4. a.gen = i => GtUsable(n, g, e)
    BY <2>2, <2>3, Zenon DEF GtUsable
  <2>5. PICK at \in GtNotes : at = [a EXCEPT !.seen = {e}] /\ at.gen = a.gen /\ at.seen = {e}
    <3>1. PICK es \in SUBSET (GtUsers \cup GtSpaces \cup GtEntries) : es = {e}
      BY Zenon
    <3> QED  BY <3>1, NoteChanges, Zenon
  <2>6. GtReturn(c) \/ GtKeep(c, "fill", at)
    BY <1>3, <1>4, <1>10, <2>3, <2>5, Zenon DEF ReadTopology
  <2> QED  BY <1>1, <1>3, <1>4, <1>7, <2>2, <2>4, <2>5, <2>6, NoteKeepsFresh, Zenon
<1> QED  BY <1>8, <1>9, <1>10

\* A fill puts a value in the cache only if its generation is the current one.
LEMMA FillKeepsFresh ==
    ASSUME GtFreshAll, NEW c \in DOMAIN gtTodo, FillTopology(c)
    PROVE  GtFresh'
<1>1. /\ GtReads(c) /\ gtTodo[c] # <<>> /\ gtPc[c] = "fill" /\ GtReturn(c)
      /\ UNCHANGED <<gtMembers, gtGns, gtGen, gtDirty, gtNet, gtLost, gtWrote>>
  BY Zenon DEF FillTopology, GtReads, GtStage, gtStore
<1>2. PICK n \in GtNodes, g \in GtGroups : n = GtCurrent(c).node /\ g = GtCurrent(c).group
  BY <1>1, ReaderAsks, Zenon DEF GtFreshAll, GtInv
<1>3. GtReadIs(c, n, g)
  BY <1>1, <1>2, Zenon DEF GtFreshAll, GtFresh, GtReaders
<1>4. GtCallerTypes /\ GtAsked /\ GtTypes /\ GtNodeTypes /\ GtWriters /\ GtHolds /\ CachedTopologyIsCurrent
  BY Zenon DEF GtFreshAll, GtInv, GtStoreInv, GtFresh, GtNodeTypes, GtCallerTypes, GtHolds
<1>5. c \notin gtWrote
  BY <1>1, <1>4 DEF GtWriters
<1>6. PICK none \in GtNotes : none = gtAt[c]
  BY <1>4 DEF GtCallerTypes
<1>7. GtCallerTypes' /\ GtOthers(c) /\ gtPc'[c] = "start"
  BY <1>1, <1>4, <1>6, CallerGoesOn, Zenon DEF GtPlaces
<1>8. GtTells({})
  BY <1>1, <1>4, <1>5, NothingToTell DEF GtReturn
<1>9. ASSUME gtCache' # gtCache
      PROVE  \E e \in GtEntries :
                /\ GtUsable(n, g, e)
                /\ gtCache' = [gtCache EXCEPT ![n] = [h \in GtGroups |-> IF h = g THEN e ELSE gtCache[n][h]]]
  <2>1. gtGen[n][g] = gtAt[c].gen
    BY <1>2, <1>9, Zenon DEF FillTopology
  <2>2. PICK e \in GtEntries : gtAt[c].seen = {e} /\ GtUsable(n, g, e)
    BY <1>1, <1>3, <2>1, Zenon DEF GtReadIs
  <2>3. (CHOOSE x \in gtAt[c].seen : TRUE) = e
    BY <2>2
  <2>4. gtCache' = [gtCache EXCEPT ![n] =
                      [h \in GtGroups |-> IF h = g THEN CHOOSE x \in gtAt[c].seen : TRUE ELSE gtCache[n][h]]]
    <3>1. gtCache' = [gtCache EXCEPT ![GtCurrent(c).node] =
                        [h \in GtGroups |-> IF h = GtCurrent(c).group THEN CHOOSE x \in gtAt[c].seen : TRUE
                                            ELSE gtCache[GtCurrent(c).node][h]]]
      BY <1>9, Zenon DEF FillTopology
    <3>2. PICK x : x = CHOOSE y \in gtAt[c].seen : TRUE
      OBVIOUS
    <3>3. gtCache' = [gtCache EXCEPT ![GtCurrent(c).node] =
                        [h \in GtGroups |-> IF h = GtCurrent(c).group THEN x ELSE gtCache[GtCurrent(c).node][h]]]
      BY <3>1, <3>2
    <3> QED  BY <1>2, <3>2, <3>3
  <2> QED  BY <2>2, <2>3, <2>4, Zenon
<1>10. GtHolds' /\ CachedTopologyIsCurrent'
  <2>1. CASE gtCache' = gtCache
    BY <1>1, <1>4, <1>8, <2>1, CacheStays, Zenon DEF GtHolds
  <2>2. CASE gtCache' # gtCache
    <3>1. PICK e \in GtEntries :
                /\ GtUsable(n, g, e)
                /\ gtCache' = [gtCache EXCEPT ![n] = [h \in GtGroups |-> IF h = g THEN e ELSE gtCache[n][h]]]
      BY <1>9, <2>2, Zenon
    <3>2. PICK es : es = [h \in GtGroups |-> IF h = g THEN e ELSE gtCache[n][h]]
      BY Zenon
    <3>3. es \in [GtGroups -> GtEntries] /\ gtCache' = [gtCache EXCEPT ![n] = es]
      BY <1>4, <3>1, <3>2, Zenon DEF GtHolds
    <3>4. GtHolds'
      BY <1>1, <1>4, <3>3, Zenon DEF GtHolds
    <3>5. \A m \in GtNodes, h \in GtGroups :
              gtCache'[m][h] = IF m = n /\ h = g THEN e ELSE gtCache[m][h]
      BY <1>4, <3>2, <3>3, Zenon DEF GtHolds
    <3>6. \A m \in GtNodes, h \in GtGroups : GtSame(h) /\ (EvictionDue(m, h) => EvictionDue(m, h)')
      BY <1>1, <1>4, <1>5, SameTopology DEF EvictionDue, GtReturn, GtCurrent, GtAsked
    <3>7. \A m \in GtNodes, h \in GtGroups :
              \/ gtCache'[m][h] = GtMissing \/ gtCache'[m][h] = Aggregate(h, gtGns[h]) \/ EvictionDue(m, h)
      BY <1>4, <3>1, <3>5 DEF CachedTopologyIsCurrent, GtUsable
    <3>8. CachedTopologyIsCurrent'
      BY <3>6, <3>7, Zenon DEF CachedTopologyIsCurrent, GtSame
    <3> QED  BY <3>4, <3>8
  <2> QED  BY <2>1, <2>2
<1>11. GtReaders'
  <2>1. ~GtReads(c)' /\ gtGen' \in [GtNodes -> [GtGroups -> Nat]]
    BY <1>1, <1>4, <1>7, Zenon DEF GtReads, GtStage, GtHolds
  <2> QED  BY <1>7, <1>8, <2>1, CallerKeepsFresh
<1> QED
  BY <1>1, <1>4, <1>5, <1>7, <1>10, <1>11, Zenon DEF GtFresh, GtWriters, GtOthers, GtNodeTypes,
     GtHolds, GtCallerTypes

\* The eviction of a write: the caller goes on, or returns.
LEMMA EvictionKeepsFresh ==
    ASSUME GtFreshAll, NEW c \in DOMAIN gtTodo, invalidateLocal(c)
    PROVE  GtFresh'
<1>1. /\ gtTodo[c] # <<>> /\ gtWrote' = gtWrote \ {c} /\ (GtGoto(c, "write") \/ GtReturn(c))
      /\ UNCHANGED <<gtMembers, gtGns, gtNet>>
  BY Zenon DEF invalidateLocal, gtStore
<1>2. PICK o \in GtCalls : o = GtCurrent(c)
  BY <1>1, CurrentIsACall, Zenon DEF GtFreshAll, GtInv
<1>3. PICK n \in GtNodes, g \in GtGroups : n = GtCurrent(c).node /\ g = GtCurrent(c).group
  BY <1>2 DEF GtCalls
<1>4. GtEvict(n, {g}) /\ MarkDirty(n, g)
  BY <1>3, Zenon DEF invalidateLocal
<1>5. GtCallerTypes /\ GtAsked /\ GtTypes /\ GtNodeTypes /\ GtWriters /\ GtHolds /\ CachedTopologyIsCurrent
  BY Zenon DEF GtFreshAll, GtInv, GtStoreInv, GtFresh, GtNodeTypes, GtCallerTypes, GtHolds
<1>6. PICK none \in GtNotes : none = gtAt[c]
  BY <1>5 DEF GtCallerTypes
<1>7. GtCallerTypes' /\ GtOthers(c) /\ gtPc'[c] \in {"start", "write"}
  BY <1>1, <1>5, <1>6, CallerGoesOn, Zenon DEF GtPlaces
<1>8. GtTells({})
  BY <1>1, <1>3, <1>4, <1>5, <1>7, LocalEvictionTells, Zenon DEF GtOthers, GtWriters
<1>9. PICK gs \in SUBSET GtGroups : gs = {g}
  BY Zenon
<1>10. /\ gtCache' \in [GtNodes -> [GtGroups -> GtEntries]] /\ gtGen' \in [GtNodes -> [GtGroups -> Nat]]
       /\ \A m \in GtNodes, h \in GtGroups : gtCache'[m][h] = gtCache[m][h] \/ gtCache'[m][h] = GtMissing
  BY <1>4, <1>5, <1>9, EvictionDone
<1>11. GtHolds'
  BY <1>1, <1>4, <1>5, <1>10, Zenon DEF GtHolds, MarkDirty
<1>12. CachedTopologyIsCurrent'
  BY <1>5, <1>8, <1>10, CacheStays, Zenon
<1>13. GtReaders'
  <2>1. ~GtReads(c)'
    BY <1>7 DEF GtReads, GtStage
  <2> QED  BY <1>7, <1>8, <1>10, <2>1, CallerKeepsFresh, Zenon
<1>14. GtWriters' /\ GtNodeTypes'
  BY <1>1, <1>5, <1>7, <1>11, Zenon DEF GtWriters, GtOthers, GtNodeTypes, GtHolds, GtCallerTypes
<1> QED  BY <1>12, <1>13, <1>14 DEF GtFresh

\* The readers that still read did not move, and their node lives.
LEMMA ReadersKept ==
    ASSUME GtFreshAll, NEW dead, GtTells(dead), DOMAIN gtTodo' = DOMAIN gtTodo,
           gtGen' \in [GtNodes -> [GtGroups -> Nat]],
           \A d \in DOMAIN gtTodo : GtReads(d)' =>
               /\ gtTodo'[d] = gtTodo[d] /\ gtPc'[d] = gtPc[d] /\ gtAt'[d] = gtAt[d]
               /\ GtCurrent(d).node \notin dead
    PROVE  GtReaders'
  BY ReaderAsks, ReaderStays, Zenon DEF GtReaders, GtReads, GtStage, GtCurrent, GtFreshAll, GtInv,
     GtFresh, GtNodeTypes, GtNotes

\* A step of a node: the callers stand still.
LEMMA NodeKeepsFresh ==
    ASSUME GtFreshAll, GtTells({}), UNCHANGED <<gtTodo, gtPc, gtAt, gtWrote>>, GtHolds',
           \A n \in GtNodes, g \in GtGroups : gtCache'[n][g] = gtCache[n][g] \/ gtCache'[n][g] = GtMissing
    PROVE  GtFresh'
<1>1. GtNodeTypes' /\ GtWriters'
  BY Zenon DEF GtFreshAll, GtFresh, GtNodeTypes, GtWriters, GtHolds
<1>2. PICK dead : dead = {}
  OBVIOUS
<1>3. CachedTopologyIsCurrent'
  BY <1>2, CacheStays, Zenon DEF GtFreshAll, GtFresh
<1>4. GtReaders'
  <2>1. GtTells(dead) /\ gtGen' \in [GtNodes -> [GtGroups -> Nat]] /\ DOMAIN gtTodo' = DOMAIN gtTodo
    BY <1>2, Zenon DEF GtHolds
  <2>2. \A d \in DOMAIN gtTodo : GtCurrent(d).node \notin dead
    BY <1>2
  <2> QED  BY <2>1, <2>2, ReadersKept, Zenon
<1> QED  BY <1>1, <1>3, <1>4 DEF GtFresh

\* FlushInvalidations, handleGroupInvalidate and an expiry.
LEMMA NodesKeepFresh ==
    ASSUME GtFreshAll, NEW n \in GtNodes,
           FlushInvalidations(n) \/ handleGroupInvalidate(n) \/ \E g \in GtGroups : ExpireTopology(n, g)
    PROVE  GtFresh'
<1>1. GtTypes /\ GtNodeTypes /\ GtHolds /\ UNCHANGED <<gtTodo, gtPc, gtAt, gtWrote>>
  BY Zenon DEF GtFreshAll, GtInv, GtStoreInv, GtFresh, GtNodeTypes, GtHolds, FlushInvalidations,
     handleGroupInvalidate, ExpireTopology, gtCall
<1>2. CASE FlushInvalidations(n)
  <2>1. PICK gs, G : gs = gtDirty[n] /\ G = SUBSET GtGroups /\ gs \in G /\ gtNet \in [GtNodes -> Seq(G)]
    BY <1>1, Zenon DEF GtHolds
  <2>2. gtNet' \in [GtNodes -> Seq(G)]
    <3>1. gtNet' = gtNet \/ gtNet' = [m \in GtNodes |-> IF m = n THEN gtNet[m] ELSE Append(gtNet[m], gs)]
      BY <1>2, <2>1, Zenon DEF FlushInvalidations, PublishGroupInvalidations
    <3>2. \A m \in GtNodes : gtNet[m] \in Seq(G) /\ Append(gtNet[m], gs) \in Seq(G)
      BY <2>1
    <3> QED  BY <2>1, <3>1, <3>2, Zenon
  <2> QED
    BY <1>1, <1>2, <2>1, <2>2, FlushTells, NodeKeepsFresh, Zenon DEF GtHolds, FlushInvalidations
<1>3. CASE handleGroupInvalidate(n)
  <2>1. PICK q \in Seq(SUBSET GtGroups), gs \in SUBSET GtGroups : q = gtNet[n] /\ q # <<>> /\ gs = Head(q)
    BY <1>1, <1>3 DEF handleGroupInvalidate, GtHolds
  <2>2. /\ GtEvict(n, gs) /\ gtNet' = [gtNet EXCEPT ![n] = Tail(q)] /\ Tail(q) \in Seq(SUBSET GtGroups)
        /\ UNCHANGED gtDirty
    BY <1>3, <2>1 DEF handleGroupInvalidate
  <2>3. /\ gtCache' \in [GtNodes -> [GtGroups -> GtEntries]] /\ gtGen' \in [GtNodes -> [GtGroups -> Nat]]
        /\ \A m \in GtNodes, h \in GtGroups : gtCache'[m][h] = gtCache[m][h] \/ gtCache'[m][h] = GtMissing
    BY <1>1, <2>2, EvictionDone
  <2> QED  BY <1>1, <1>3, <2>2, <2>3, HandleTells, NodeKeepsFresh, Zenon DEF GtHolds
<1>4. ASSUME NEW g \in GtGroups, ExpireTopology(n, g)  PROVE  GtFresh'
  BY <1>1, <1>4, NothingToTell, NodeKeepsFresh DEF ExpireTopology, gtStore, gtCall, GtMissing,
     GtEntries, GtHolds
<1> QED  BY <1>2, <1>3, <1>4

\* A crash empties its node and ends its calls.
LEMMA CrashKeepsFresh ==
    ASSUME GtFreshAll, NEW n \in GtNodes, GtCrash(n)
    PROVE  GtFresh'
<1>1. GtTypes /\ GtNodeTypes /\ GtHolds /\ GtCallerTypes /\ GtWriters /\ CachedTopologyIsCurrent
  BY Zenon DEF GtFreshAll, GtInv, GtStoreInv, GtFresh, GtNodeTypes, GtHolds, GtCallerTypes
<1>2. GtTells({n})
  BY <1>1, CrashTells
<1>3. PICK mine : mine = {c \in DOMAIN gtTodo : gtTodo[c] # <<>> /\ GtCurrent(c).node = n /\ gtPc[c] # "start"}
  BY Zenon
<1>4. /\ DOMAIN gtTodo' = DOMAIN gtTodo /\ gtWrote' = gtWrote \ mine
      /\ gtPc' = [c \in DOMAIN gtTodo |-> IF c \in mine THEN "start" ELSE gtPc[c]]
      /\ gtAt' = [c \in DOMAIN gtTodo |-> IF c \in mine THEN [gen |-> 0, seen |-> {}] ELSE gtAt[c]]
      /\ \A c \in DOMAIN gtTodo \ mine : gtTodo'[c] = gtTodo[c]
  BY <1>3, Zenon DEF GtCrash
<1>5. [gen |-> 0, seen |-> {}] \in GtNotes /\ "start" \in GtPlaces /\ GtMissing \in GtEntries
  BY DEF GtNotes, GtPlaces, GtMissing, GtEntries
<1>6. GtCallerTypes'
  BY <1>1, <1>4, <1>5, Zenon DEF GtCallerTypes
<1>7. GtWriters'
  BY <1>1, <1>4, Zenon DEF GtWriters
<1>8. PICK es, ks : es = [g \in GtGroups |-> GtMissing] /\ ks = [g \in GtGroups |-> 0]
  BY Zenon
<1>9. /\ gtCache' = [gtCache EXCEPT ![n] = es] /\ gtGen' = [gtGen EXCEPT ![n] = ks]
      /\ gtDirty' = [gtDirty EXCEPT ![n] = {}] /\ gtNet' = [gtNet EXCEPT ![n] = <<>>]
  BY <1>8, Zenon DEF GtCrash
<1>10. es \in [GtGroups -> GtEntries] /\ ks \in [GtGroups -> Nat] /\ <<>> \in Seq(SUBSET GtGroups)
  BY <1>5, <1>8
<1>11. GtHolds'
  BY <1>1, <1>9, <1>10, Zenon DEF GtHolds
<1>12. /\ \A m \in GtNodes, g \in GtGroups : gtCache'[m][g] = gtCache[m][g] \/ gtCache'[m][g] = GtMissing
       /\ \A m \in {n}, g \in GtGroups : gtCache'[m][g] = GtMissing
  BY <1>1, <1>8, <1>9, Zenon DEF GtHolds
<1>13. CachedTopologyIsCurrent'
  BY <1>1, <1>2, <1>12, CacheStays, Zenon
<1>14. GtNodeTypes'
  BY <1>6, <1>11 DEF GtNodeTypes, GtHolds, GtCallerTypes
<1> QED
  BY <1>2, <1>3, <1>4, <1>7, <1>11, <1>13, <1>14, ReadersKept, Zenon DEF GtFresh, GtReads,
     GtStage, GtHolds

\* Every step keeps the caches fresh.
LEMMA StepKeepsFresh ==
    ASSUME GtFreshAll, [GtNext]_gtVars
    PROVE  GtFresh'
<1>1. ASSUME NEW c \in DOMAIN gtTodo, GtStep(c)  PROVE  GtFresh'
  <2>1. CASE CreateGroup(c) \/ AutoCreate(c) \/ EnsureAndJoinSystemGroup(c)
    BY <2>1, CreatesKeepsFresh DEF CreateGroup, AutoCreate, EnsureAndJoinSystemGroup, GtStage
  <2>2. CASE AddMembers(c) \/ RemoveGroupMembers(c)
    BY <2>2, MembersKeepFresh DEF RemoveGroupMembers, GtStage
  <2>3. CASE LeaveSystemGroupsOnDisconnect(c)
    BY <2>3, MembersKeepFresh, DecisionsKeepFresh DEF LeaveSystemGroupsOnDisconnect, GtStage
  <2> QED
    BY <1>1, <2>1, <2>2, <2>3, DecisionsKeepFresh, DeleteKeepsFresh, EvictionKeepsFresh,
       ReadingKeepsFresh, FillKeepsFresh, Zenon DEF GtStep
<1>2. ASSUME NEW n \in GtNodes, GtCrash(n)  PROVE  GtFresh'
  BY <1>2, CrashKeepsFresh
<1>3. CASE UNCHANGED gtVars
  BY <1>3, NothingToTell, NodeKeepsFresh, Zenon DEF GtFreshAll, GtInv, GtStoreInv, GtFresh,
     GtNodeTypes, GtHolds, gtVars, gtStore, gtLocal, gtCall
<1> QED  BY <1>1, <1>2, <1>3, NodesKeepFresh DEF GtNext

\* CachedTopologyIsCurrent holds in every reachable state, for any nodes,
\* groups, callers, failed calls, lost publications and crashes: what
\* GroupMemberCache returns is what the store holds, or the node is still to
\* learn of a change.
THEOREM CachesAreCurrent == GtSpec => []CachedTopologyIsCurrent
<1>1. GtInit => GtFreshAll
  BY GtInitially DEF GtInit, GtNodeTypes, GtMissing, GtEntries, GtNotes, GtPlaces, GtWriters,
     GtReaders, GtReads, GtStage, CachedTopologyIsCurrent, GtFreshAll, GtFresh
<1>2. GtFreshAll /\ [GtNext]_gtVars => GtFreshAll'
  BY GtInductive, StepKeepsFresh DEF GtFreshAll
<1>3. GtFreshAll => CachedTopologyIsCurrent
  BY DEF GtFreshAll, GtFresh
<1> QED  BY <1>1, <1>2, <1>3, PTL DEF GtSpec
=============================================================================
